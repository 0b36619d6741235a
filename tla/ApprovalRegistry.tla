--------------------------- MODULE ApprovalRegistry ---------------------------
(***************************************************************************)
(* contractapproval: which signed manifests the owner of this gateway has  *)
(* approved, for which partner links, and which of them each link is       *)
(* pinned to.                                                              *)
(*                                                                         *)
(* A record is [tenant, catalog, pack, hash, complete, state, links,       *)
(* contracts, evidence, binding]; complete stands for the manifest id and  *)
(* the creation fields, evidence for the approver and the approval time,   *)
(* contracts for the set of pinned contracts [id, version, schema, action, *)
(* catalogued].  A pin is [tenant, link, catalog, pack, hash, prevPack,    *)
(* prevHash, evidence, binding]; evidence stands for who pinned and when.  *)
(***************************************************************************)
EXTENDS ExchangeTypes

CONSTANTS
  ApprovalInputs,   \* records a control plane may put
  PinInputs,        \* [tenant, link, catalog, pack, hash, evidence]: Pin calls
  PinRecords        \* pins restored verbatim from storage: PutPin calls

VARIABLES
  records,          \* Registry.records: approval records by manifest hash
  pins              \* Registry.pins: pins by tenant, link and catalog

registryVars == <<records, pins>>

ApprovalStates == {"pending_approval", "approved", "revoked"}

-----------------------------------------------------------------------------
(* Normalisation, audit hashes and validation *)

normalizeApprovalRecord(r) ==
  [r EXCEPT !.state = IF @ = "" THEN "pending_approval" ELSE @,
            !.links = @ \ {""}]

ApprovalAuditHash(r) ==
  Digest([normalizeApprovalRecord(r) EXCEPT !.binding = NoHash])

PinAuditHash(p) == Digest([p EXCEPT !.binding = NoHash])

ValidateApprovalRecord(rec) ==
  LET r == normalizeApprovalRecord(rec) IN
  /\ r.complete
  /\ "" \notin {r.tenant, r.catalog}
  /\ r.pack # 0
  /\ r.hash # NoHash
  /\ r.contracts # {}
  /\ r.state \in ApprovalStates
  /\ r.state = "approved" => r.evidence /\ r.links # {}
  /\ \A c \in r.contracts : 0 \notin {c.id, c.version, c.schema} /\ c.action # "" /\ c.catalogued
  /\ r.binding \in {NoHash, ApprovalAuditHash(r)}

ValidatePartnerPin(p) ==
  /\ "" \notin {p.tenant, p.link, p.catalog}
  /\ p.pack # 0
  /\ p.hash # NoHash
  /\ p.evidence
  /\ p.binding \in {NoHash, PinAuditHash(p)}

contractPinsFromManifest(m, catalogued) ==
  { [ id |-> m.contracts[i].id, version |-> m.contracts[i].version,
      schema |-> m.contracts[i].schema, action |-> m.contracts[i].action,
      catalogued |-> m.contracts[i].id \in catalogued ] : i \in DOMAIN m.contracts }

\* The record the owner files for a signed manifest.  The source also refuses
\* one that does not validate; PutApproval refuses it again.
NewApprovalRecord(m, pack, state, links, catalogued) ==
  LET r == normalizeApprovalRecord(
             [ tenant |-> m.tenant, catalog |-> m.catalog, pack |-> pack,
               hash |-> m.hash, complete |-> m.id # "", state |-> state,
               links |-> links, contracts |-> contractPinsFromManifest(m, catalogued),
               evidence |-> state = "approved", binding |-> NoHash ])
  IN  [r EXCEPT !.binding = ApprovalAuditHash(r)]

pinKey(tenant, link, catalog) == <<tenant, link, catalog>>

KeyOfPin(p) == pinKey(p.tenant, p.link, p.catalog)

-----------------------------------------------------------------------------
(* The registry *)

RegistryInit ==
  /\ records = <<>>
  /\ pins = <<>>

PutApproval(rec) ==
  LET r == normalizeApprovalRecord(rec) IN
  /\ ValidateApprovalRecord(r)
  /\ records' = MapPut(records, r.hash, r)
  /\ UNCHANGED pins

PutPin(p) ==
  /\ ValidatePartnerPin(p)
  /\ pins' = MapPut(pins, KeyOfPin(p), p)
  /\ UNCHANGED records

\* The pin a Pin call stores: the input, and the version it replaces.
NewPin(in) ==
  LET key == pinKey(in.tenant, in.link, in.catalog)
      known == key \in DOMAIN pins
      p == [ tenant |-> in.tenant, link |-> in.link, catalog |-> in.catalog,
             pack |-> in.pack, hash |-> in.hash,
             prevPack |-> IF known THEN pins[key].pack ELSE 0,
             prevHash |-> IF known THEN pins[key].hash ELSE NoHash,
             evidence |-> in.evidence, binding |-> NoHash ]
  IN  [p EXCEPT !.binding = PinAuditHash(p)]

Pin(in) ==
  /\ in.hash \in DOMAIN records
  /\ LET r == records[in.hash] IN
       /\ r.state = "approved"
       /\ r.tenant = in.tenant /\ r.catalog = in.catalog /\ r.pack = in.pack
       /\ in.link \in r.links
  /\ in.evidence
  /\ ValidatePartnerPin(NewPin(in))
  /\ pins' = MapPut(pins, pinKey(in.tenant, in.link, in.catalog), NewPin(in))
  /\ UNCHANGED records

contractPinned(contracts, ref, action) ==
  \E c \in contracts : /\ c.id = ref.id
                       /\ c.version = ref.version
                       /\ c.schema = ref.schema
                       /\ c.action = action

\* Faulty pinMatches: a pin is to a pack version, whatever the manifest.
FaultyPinMatchesPack(p, r, e, m) == p.pack = r.pack /\ p.link = e.link

\* Does pin p pin the link of envelope e to manifest m, approved by record r?
pinMatches(p, r, e, m) ==
  /\ p.hash = m.contract.hash
  /\ p.pack = r.pack
  /\ p.link = e.link
  /\ p.catalog = m.catalog

\* May envelope e, on session s, use resolved manifest m?  The record and the
\* pin are read under one lock.
AuthorizeContractApproval(s, e, m) ==
  LET hash == m.contract.hash
      key == pinKey(s.localTenant, e.link, m.catalog)
  IN  /\ "" \notin {s.localTenant, e.link, m.catalog}
      /\ hash # NoHash
      /\ hash \in DOMAIN records
      /\ key \in DOMAIN pins
      /\ LET r == records[hash] IN
             /\ r.state = "approved"
             /\ r.tenant = s.localTenant
             /\ r.catalog = m.catalog
             /\ e.link \in r.links
             /\ pinMatches(pins[key], r, e, m)
             /\ contractPinned(r.contracts, e.contract, e.action)

RegistryNext ==
  \/ \E rec \in ApprovalInputs : PutApproval(rec)
  \/ \E in \in PinInputs : Pin(in)
  \/ \E p \in PinRecords : PutPin(p)

RegistrySpec == RegistryInit /\ [][RegistryNext]_registryVars

-----------------------------------------------------------------------------
(* Properties *)

\* Records are filed under their manifest hash and pins under their key.
RegistryTypeOK ==
  /\ \A h \in DOMAIN records :
       records[h].hash = h /\ \E rec \in ApprovalInputs : records[h] = normalizeApprovalRecord(rec)
  /\ \A k \in DOMAIN pins : KeyOfPin(pins[k]) = k

\* Does the registry let link l of tenant t use contract c of record r?
Usable(t, l, r, c) ==
  AuthorizeContractApproval(
    [localTenant |-> t],
    [link |-> l, contract |-> c, action |-> c.action],
    [catalog |-> r.catalog, contract |-> [hash |-> r.hash]])

UsableVersions(t, l, catalog) ==
  { h \in DOMAIN records :
      /\ records[h].catalog = catalog
      /\ \E c \in records[h].contracts : Usable(t, l, records[h], c) }

\* Pin, PutPin, PutApproval and AuthorizeContractApproval: however approvals
\* and pins are interleaved, a partner link can use at most one manifest
\* version of a catalog, so an upgrade or a rollback never leaves the old
\* version usable beside the new one, even under the same pack version.
OneVersionPerLink ==
  \A k \in DOMAIN pins : Cardinality(UsableVersions(k[1], k[2], k[3])) <= 1

\* PutApproval: a link moves to another version only by a pin.  Approving,
\* withdrawing or re-approving records may stop a link from using the version
\* it is on, or let it use that version again, but never moves it to another.
OnlyPinsMoveLinks ==
  [][\A k \in DOMAIN pins \cap DOMAIN pins' :
       pins'[k] = pins[k] =>
         \A g \in UsableVersions(k[1], k[2], k[3]) :
           \A h \in UsableVersions(k[1], k[2], k[3])' : g = h]_registryVars

=============================================================================
