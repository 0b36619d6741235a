---------------------------- MODULE ManifestCache ----------------------------
(***************************************************************************)
(* contractmanifest: signed service-contract manifests and the cache the   *)
(* gateway resolves contracts from.                                        *)
(*                                                                         *)
(* A document is a record [schemaOk, tenant, id, catalog, keyId, issued,   *)
(* expires, contracts, hash, sig].  contracts is a sequence of records     *)
(* [id, version, action, schema, maxBytes, idempotent, links, scopes,      *)
(* topologyAllowed, complete]; links and scopes are sets that may hold ""  *)
(* (normalisation drops it, removes duplicates and sorts), and complete    *)
(* says that every other required field is present and positive.  A hash   *)
(* is written in the one lower-case spelling Sign produces.                *)
(***************************************************************************)
EXTENDS Clock, ExchangeTypes, Sequences, TLC

CONSTANTS
  Keyring,      \* trusted public keys, by signing key id
  Documents     \* the documents a control plane may offer to the cache

ASSUME MaxTimeAssumption == MaxTime \in Nat \ {0}

IsContract(c) ==
  /\ c = [ id |-> c.id, version |-> c.version, action |-> c.action, schema |-> c.schema,
           maxBytes |-> c.maxBytes, idempotent |-> c.idempotent, links |-> c.links,
           scopes |-> c.scopes, topologyAllowed |-> c.topologyAllowed, complete |-> c.complete ]
  /\ c.id \in Nat /\ c.version \in Nat /\ c.action \in Actions

\* What a document is made of.  Its hash and its signature may be anything.
IsDocument(d) ==
  /\ d = [ schemaOk |-> d.schemaOk, tenant |-> d.tenant, id |-> d.id, catalog |-> d.catalog,
           keyId |-> d.keyId, issued |-> d.issued, expires |-> d.expires,
           contracts |-> d.contracts, hash |-> d.hash, sig |-> d.sig ]
  /\ d.contracts \in Seq({d.contracts[i] : i \in DOMAIN d.contracts})
  /\ \A i \in DOMAIN d.contracts : IsContract(d.contracts[i])
  /\ d.expires \in Int

ASSUME DocumentsAssumption == \A d \in Documents : IsDocument(d)

VARIABLE
  manifests     \* MemoryCache.manifests: normalised documents by hash

cacheVars == <<nowMS, manifests>>

-----------------------------------------------------------------------------
(* Normalisation, shape, hash and signature *)

normalizeStringSlice(values) == values \ {""}

normalizeContract(c) ==
  [c EXCEPT !.links = normalizeStringSlice(@),
            !.scopes = normalizeStringSlice(@)]

ContractBefore(c, d) ==
  \/ c.id < d.id
  \/ c.id = d.id /\ c.version < d.version
  \/ /\ c.id = d.id
     /\ c.version = d.version
     /\ ActionRank(c.action) < ActionRank(d.action)

\* sort.SliceStable puts contract i of s before contract j: what sorts first
\* goes first, and equals keep their order.
StablyBefore(s, i, j) ==
  \/ i < j /\ ~ContractBefore(s[j], s[i])
  \/ j < i /\ ContractBefore(s[i], s[j])

\* The place of contract i: after all that go before it.
PlaceOf(s, i) == 1 + Cardinality({j \in DOMAIN s : StablyBefore(s, j, i)})

sortContracts(s) == [k \in DOMAIN s |-> s[CHOOSE i \in DOMAIN s : PlaceOf(s, i) = k]]

\* Contracts are normalised one by one on a private copy, then sorted by
\* identifier, version and action.
normalizeManifest(m) ==
  [m EXCEPT !.contracts =
     LET copy == [i \in DOMAIN @ |-> normalizeContract(@[i])] IN sortContracts(copy)]

\* The facade method of an action, and whether the action changes state.  An
\* action with no facade is unsupported.
facadeForAction(a) ==
  CASE a = "get_service_catalog_view"     -> [method |-> "GetServiceCatalogView", mutating |-> FALSE]
    [] a = "open_federation_transaction"  -> [method |-> "OpenFederationTransaction", mutating |-> TRUE]
    [] a = "create_federation_room"       -> [method |-> "CreateFederationRoom", mutating |-> TRUE]
    [] a = "submit_federation_message"    -> [method |-> "SubmitFederationMessage", mutating |-> TRUE]
    [] a = "request_builder_work"         -> [method |-> "RequestBuilderWork", mutating |-> TRUE]
    [] a = "submit_federation_result"     -> [method |-> "SubmitFederationResult", mutating |-> TRUE]
    [] a = "deliver_builder_work_result"  -> [method |-> "DeliverBuilderWorkResult", mutating |-> TRUE]
    [] a \in O2CActions                   -> [method |-> "SubmitCommercialEvent", mutating |-> TRUE]
    [] OTHER                              -> [method |-> "", mutating |-> FALSE]

\* The one gateway method scope a contract for action a must declare.  The
\* scope "federation.<a>" is written as the action it names.
expectedMethodScope(a) ==
  IF facadeForAction(a).method = "" THEN "" ELSE a

validateContract(c) ==
  /\ c.complete
  /\ 0 \notin {c.id, c.version, c.schema}
  /\ c.maxBytes > 0
  /\ c.links # {}
  /\ facadeForAction(c.action).method # ""
  /\ c.scopes = {expectedMethodScope(c.action)}

validateManifestShape(m) ==
  /\ m.schemaOk
  /\ "" \notin {m.tenant, m.id, m.catalog, m.keyId}
  /\ m.issued > 0
  /\ m.expires > m.issued
  /\ m.contracts # <<>>
  /\ \A i \in DOMAIN m.contracts : validateContract(m.contracts[i])
  /\ \A i, j \in DOMAIN m.contracts :
       i # j => \/ m.contracts[i].id # m.contracts[j].id
                \/ m.contracts[i].version # m.contracts[j].version
                \/ m.contracts[i].action # m.contracts[j].action

NoSignature == [alg |-> "", key |-> "", over |-> NoHash]

ComputeManifestHash(m) ==
  Digest([normalizeManifest(m) EXCEPT !.hash = NoHash, !.sig = NoSignature])

\* Sign stamps the hash of the normalised document and a signature over it.
SignManifest(doc, key) ==
  LET m == normalizeManifest(doc)
      h == ComputeManifestHash(m)
  IN  [m EXCEPT !.hash = h, !.sig = [alg |-> "ed25519", key |-> key, over |-> h]]

\* Everything Verify demands of a document apart from the clock.
Authentic(doc) ==
  LET m == normalizeManifest(doc) IN
  /\ validateManifestShape(m)
  /\ m.hash # NoHash
  /\ m.sig.alg = "ed25519"
  /\ ComputeManifestHash(m) = m.hash
  /\ m.keyId \in DOMAIN Keyring
  /\ m.sig.key = Keyring[m.keyId]
  /\ m.sig.over = m.hash

\* Faulty Verify: the signature is never looked at.
FaultyVerifyHashOnly(doc, now) ==
  ComputeManifestHash(doc) = doc.hash /\ doc.expires > now

\* Faulty Verify: the hash is taken from the document instead of recomputed.
FaultyVerifySignatureOnly(doc, now) ==
  /\ doc.keyId \in DOMAIN Keyring
  /\ doc.sig.key = Keyring[doc.keyId] /\ doc.sig.over = doc.hash
  /\ doc.expires > now

Verify(doc, now) == Authentic(doc) /\ doc.expires > now

-----------------------------------------------------------------------------
(* The cache *)

CacheInit ==
  /\ nowMS = 1
  /\ manifests = <<>>

PutVerified(doc) ==
  LET m == normalizeManifest(doc) IN
  /\ Verify(m, nowMS)
  /\ manifests' = MapPut(manifests, m.hash, m)
  /\ UNCHANGED nowMS

Tick ==
  /\ nowMS < MaxTime
  /\ nowMS' = nowMS + 1
  /\ UNCHANGED manifests

\* The first contract, in the sorted order, with the reference's identifier
\* and version; the action plays no part.  A set with one element, or none.
findContract(m, ref) ==
  LET hits == { i \in DOMAIN m.contracts :
                  m.contracts[i].id = ref.id /\ m.contracts[i].version = ref.version }
  IN  { m.contracts[i] : i \in { j \in hits : \A k \in hits : j <= k } }

toExchangeAction(c) ==
  LET f == facadeForAction(c.action) IN
  [ action |-> c.action, method |-> f.method, mutating |-> f.mutating,
    idempotent |-> c.idempotent, encoding |-> "json", maxBytes |-> c.maxBytes,
    topologyAllowed |-> c.topologyAllowed, links |-> c.links ]

\* What the exchange sees of a contract: a manifest with one action.
toExchangeManifest(m, c) ==
  [ tenant |-> m.tenant, catalog |-> m.catalog,
    contract |-> [id |-> c.id, version |-> c.version, hash |-> m.hash, schema |-> c.schema],
    expires |-> m.expires, revoked |-> FALSE,
    actions |-> [a \in {c.action} |-> toExchangeAction(c)] ]

\* Faulty ResolveManifest: what was verified once is trusted for ever.
FaultyResolveUnverified(ref) ==
  IF ref.hash \notin DOMAIN manifests THEN {}
  ELSE LET m == manifests[ref.hash] IN
       { toExchangeManifest(m, c) : c \in { d \in findContract(m, ref) : d.schema = ref.schema } }

\* ResolveManifest verifies the cached document again, at the time of the
\* call.  A set with one manifest, or none when the call fails.
ResolveManifest(ref) ==
  IF ref.hash \notin DOMAIN manifests THEN {}
  ELSE LET m == manifests[ref.hash] IN
       { toExchangeManifest(m, c) :
           c \in { d \in findContract(m, ref) :
                     Verify(m, nowMS) /\ d.schema = ref.schema } }

CacheNext == Tick \/ \E doc \in Documents : PutVerified(doc)

CacheSpec == CacheInit /\ [][CacheNext]_cacheVars

-----------------------------------------------------------------------------
(* Properties *)

NormalizedDocuments == { normalizeManifest(d) : d \in Documents }

\* The clock stays in its range and the cache maps hashes to normalised
\* documents that were offered to it.
CacheTypeOK ==
  /\ nowMS \in 1..MaxTime
  /\ DOMAIN manifests \subseteq { m.hash : m \in NormalizedDocuments }
  /\ \A h \in DOMAIN manifests : manifests[h] \in NormalizedDocuments

\* PutVerified: whatever is filed under a hash is in normal form, hashes to it
\* and was signed by the trusted key it names, so a reference by hash can only
\* ever reach the content the signer hashed.
CachedDocumentsAuthentic ==
  \A h \in DOMAIN manifests :
    /\ manifests[h].hash = h
    /\ manifests[h] = normalizeManifest(manifests[h])
    /\ Authentic(manifests[h])

\* PutVerified overwrites by hash: no later document may change what a hash
\* already in the cache stands for, nor make the entry disappear.
CachedContentNeverChanges ==
  [][\A h \in DOMAIN manifests :
       /\ h \in DOMAIN manifests'
       /\ ComputeManifestHash(manifests'[h]) = ComputeManifestHash(manifests[h])]_manifests

ReferenceTo(m, c) ==
  [id |-> c.id, version |-> c.version, hash |-> m.hash, schema |-> c.schema]

\* ResolveManifest and findContract: in a document whose contracts have
\* distinct identifiers and versions, every declared contract resolves to its
\* own action for as long as the document has not expired, and to nothing
\* from the instant it expires.
DeclaredContractsResolve ==
  \A h \in DOMAIN manifests :
    LET m == manifests[h] IN
    \A i \in DOMAIN m.contracts :
      LET c == m.contracts[i]
          resolved == ResolveManifest(ReferenceTo(m, c))
      IN  (\A j \in DOMAIN m.contracts : j # i =>
             <<m.contracts[j].id, m.contracts[j].version>> # <<c.id, c.version>>)
          => IF nowMS < m.expires
               THEN \E x \in resolved : DOMAIN x.actions = {c.action}
               ELSE resolved = {}

=============================================================================
