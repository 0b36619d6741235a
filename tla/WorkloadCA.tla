------------------------------ MODULE WorkloadCA ------------------------------
(***************************************************************************)
(* The three providers behind WorkloadCAProvider: an authority read from   *)
(* files, Vault's PKI engine, and the SPIRE simulation that makes itself an*)
(* authority the first time it is used.  Several goroutines call one       *)
(* provider at once and nothing locks it.                                  *)
(*                                                                         *)
(* The SPIRE provider's LocalCA is a struct of several words, tested,      *)
(* assigned and copied without synchronisation.  Its assignment is one     *)
(* write for each of the two fields that matter, in either order, so that  *)
(* whatever mixture of two authorities a torn read can see is a state of   *)
(* the model.                                                              *)
(***************************************************************************)
EXTENDS Certificates, FiniteSets

CONSTANTS
  Callers,         \* goroutines sharing the provider
  Requests,        \* options of the IssueCertificate calls
  Handed,          \* authorities a provider may be constructed with
  TrustDomain,     \* the SPIRE provider's own
  Hour,            \* time units in an hour
  SpireDefaultTTL, \* lifetime of an SVID nobody gave a lifetime: one hour
  VaultDefaultTTL, \* what Vault grants when no lifetime, or "0h", is asked
  VaultKey,        \* the key of Vault's issuing authority
  MaxCalls         \* bound on the calls of a behaviour

\* Authorities that are handed over are in force, if incomplete.
ASSUME CAAssumption ==
  /\ \A h \in Handed : /\ h = [cert |-> h.cert, key |-> h.key]
                       /\ h.cert # NoCert => h.cert.isCA /\ ValidAt(h.cert, 0)
  /\ \A opts \in Requests :
       /\ opts = [ profile |-> opts.profile, cn |-> opts.cn, dns |-> opts.dns,
                   uris |-> opts.uris, ttl |-> opts.ttl ]
       /\ opts.ttl \in Int
  /\ Hour \in Nat \ {0} /\ SpireDefaultTTL \in Nat /\ VaultDefaultTTL \in Nat
  /\ VaultKey \in Nat \ {NoKey}

VARIABLES
  kind,     \* which provider
  handed,   \* the authority it was constructed with
  localCA,  \* the provider's CA or LocalCA field
  calls,    \* caller -> the call it is in and the key material drawn for it
  drawn,    \* keys drawn so far
  begun,    \* calls begun so far
  issued,   \* leaves returned, each with the lifetime asked for and its authority
  roots,    \* what TrustRoots returned
  overlap   \* two first uses were under way at once

caVars == << kind, handed, localCA, calls, drawn, begun, issued, roots, overlap >>

NoOpts == [profile |-> "", cn |-> "", dns |-> {}, uris |-> <<>>, ttl |-> 0]
Idle == [pc |-> "idle", op |-> "", opts |-> NoOpts, own |-> NoAuthority, left |-> {}]
Fields == {"cert", "key"}

CAInit ==
  /\ kind \in {"localfs", "vault", "spire"}
  /\ handed \in Handed
  /\ kind = "vault" => handed = NoAuthority
  /\ localCA = handed
  /\ calls = [c \in Callers |-> Idle]
  /\ drawn = 10 /\ begun = 0
  /\ issued = {} /\ roots = {}
  /\ overlap = FALSE

\* Caller c begins a call and waits at pc.
Begin(c, pc, op, opts) ==
  /\ calls[c].pc = "idle" /\ begun < MaxCalls
  /\ begun' = begun + 1
  /\ calls' = [calls EXCEPT ![c] = [Idle EXCEPT !.pc = pc, !.op = op, !.opts = opts]]

Return(c) == calls' = [calls EXCEPT ![c] = Idle]

Record(result, opts, authority) ==
  issued' = IF ~result.ok THEN issued
            ELSE issued \cup {[cert |-> result.cert, ttl |-> opts.ttl, under |-> authority]}

-----------------------------------------------------------------------------
(* The provider on local files: its authority never changes *)

LocalFSIssue(c, opts) ==
  /\ kind = "localfs"
  /\ Begin(c, "idle", "", NoOpts)
  /\ drawn' = drawn + 1
  /\ Record(IssueCertificate(localCA, opts, drawn', drawn', 0), opts, localCA.cert)
  /\ UNCHANGED << kind, handed, localCA, roots, overlap >>

LocalFSTrustRoots(c) ==
  /\ kind = "localfs"
  /\ Begin(c, "idle", "", NoOpts)
  /\ roots' = roots \cup ({localCA.cert} \ {NoCert})
  /\ UNCHANGED << kind, handed, localCA, drawn, issued, overlap >>

-----------------------------------------------------------------------------
(* The SPIRE provider *)

InFirstUse(c) == calls[c].pc \in {"generate", "assign"}

SpireHostsMatch(opts) ==
  \A k \in DOMAIN opts.uris :
    LET uri == urlParse(opts.uris[k])
    IN  uri # BrokenURI /\ (uri.scheme = "spiffe" => uri.host = TrustDomain)

\* Faulty SpireIssue: an authority is made whether or not there is one.
FaultySpireIssueAnew(c, opts) ==
  /\ kind = "spire" /\ SpireHostsMatch(opts)
  /\ Begin(c, "generate", "issue", opts)
  /\ overlap' = (overlap \/ \E d \in Callers \ {c} : InFirstUse(d))
  /\ UNCHANGED << kind, handed, localCA, drawn, issued, roots >>

\* IssueCertificate up to its test of LocalCA; a foreign SPIFFE ID ends it.
SpireIssue(c, opts) ==
  LET unset == localCA.cert = NoCert \/ localCA.key = NoKey
      first == SpireHostsMatch(opts) /\ unset
  IN  /\ kind = "spire"
      /\ Begin(c, IF ~SpireHostsMatch(opts) THEN "idle" ELSE IF unset THEN "generate" ELSE "answer",
               "issue", opts)
      /\ overlap' = (overlap \/ (first /\ \E d \in Callers \ {c} : InFirstUse(d)))
      /\ UNCHANGED << kind, handed, localCA, drawn, issued, roots >>

\* TrustRoots up to its test, which looks at the certificate only.
SpireTrustRoots(c) ==
  LET unset == localCA.cert = NoCert
  IN  /\ kind = "spire"
      /\ Begin(c, IF unset THEN "generate" ELSE "answer", "roots", NoOpts)
      /\ overlap' = (overlap \/ (unset /\ \E d \in Callers \ {c} : InFirstUse(d)))
      /\ UNCHANGED << kind, handed, localCA, drawn, issued, roots >>

\* GenerateCertificateAuthority, or its failure, which ends the call.
SpireGenerate(c) ==
  /\ calls[c].pc = "generate"
  /\ \/ /\ drawn' = drawn + 1
        /\ calls' = [calls EXCEPT ![c].pc = "assign", ![c].left = Fields,
                                  ![c].own = NewAuthority(drawn', drawn', 0, DefaultCATTL)]
     \/ Return(c) /\ UNCHANGED drawn
  /\ UNCHANGED << kind, handed, localCA, begun, issued, roots, overlap >>

\* p.LocalCA = spireCA, one field at a time.
SpireAssign(c, field) ==
  /\ calls[c].pc = "assign" /\ field \in calls[c].left
  /\ localCA' = [localCA EXCEPT ![field] = calls[c].own[field]]
  /\ calls' = [calls EXCEPT ![c].left = @ \ {field},
                            ![c].pc = IF calls[c].left = {field} THEN "answer" ELSE "assign"]
  /\ UNCHANGED << kind, handed, drawn, begun, issued, roots, overlap >>

\* The rest of either call, with LocalCA read again.
SpireAnswer(c) ==
  LET opts == [calls[c].opts EXCEPT !.ttl = ttlOr(@, SpireDefaultTTL)]
  IN  /\ calls[c].pc = "answer"
      /\ Return(c)
      /\ \/ /\ calls[c].op = "issue"
            /\ drawn' = drawn + 1
            /\ Record(IssueCertificate(localCA, opts, drawn', drawn', 0), calls[c].opts, localCA.cert)
            /\ UNCHANGED roots
         \/ /\ calls[c].op = "roots"
            /\ roots' = roots \cup {localCA.cert}
            /\ UNCHANGED << drawn, issued >>
      /\ UNCHANGED << kind, handed, localCA, begun, overlap >>

-----------------------------------------------------------------------------
(* The Vault provider, and Vault itself *)

VaultCA == [NewAuthority(VaultKey, VaultKey, 0, DefaultCATTL).cert EXCEPT !.cn = "vault"]

\* Faulty VaultTTL: hours are rounded up.
FaultyVaultTTLUp(ttl) == IF ttl > 0 THEN ((ttl + Hour - 1) \div Hour) * Hour ELSE 0

\* "%dh" of int(ttl.Hours()), written only when there is a lifetime to ask for.
VaultTTL(ttl) == IF ttl > 0 THEN (ttl \div Hour) * Hour ELSE 0

\* GenerateCertificateSigningRequest, whose refusal ends the call, and the POST.
VaultIssue(c, opts) ==
  LET csr == GenerateCertificateSigningRequest(opts, drawn + 1)
  IN  /\ kind = "vault"
      /\ calls[c].pc = "idle" /\ begun < MaxCalls
      /\ begun' = begun + 1
      /\ drawn' = drawn + 1
      /\ calls' = [calls EXCEPT ![c] = IF csr = NoCSR THEN Idle
                     ELSE [Idle EXCEPT !.pc = "post", !.opts = opts, !.own.key = csr.key]]
      /\ UNCHANGED << kind, handed, localCA, issued, roots, overlap >>

\* Vault signs what was posted, or the call fails: no connection, a status that
\* is not 200, a body that does not decode, errors in it, or no certificate.
VaultAnswer(c) ==
  LET opts == calls[c].opts
      lifetime == ttlOr(VaultTTL(opts.ttl), VaultDefaultTTL)
      leaf == Sign([cert |-> VaultCA, key |-> VaultKey], [opts EXCEPT !.ttl = lifetime],
                   opts.cn, calls[c].own.key, calls[c].own.key, 0)
  IN  /\ calls[c].pc = "post"
      /\ Return(c)
      /\ \/ Record(Issued(leaf, calls[c].own.key), opts, VaultCA)
         \/ UNCHANGED issued
      /\ UNCHANGED << kind, handed, localCA, drawn, begun, roots, overlap >>

\* The certificates of Vault's answer: those of its PEM blocks that parse, else
\* the whole body when that is one in DER.
VaultRootsOf(body) ==
  LET good == {k \in DOMAIN body.pem : body.pem[k] = "ca"}
  IN  IF good # {} \/ body.der THEN {VaultCA} ELSE {}

VaultTrustRoots(c, body) ==
  /\ kind = "vault"
  /\ Begin(c, "idle", "", NoOpts)
  /\ roots' = roots \cup (IF body.status = 200 THEN VaultRootsOf(body) ELSE {})
  /\ UNCHANGED << kind, handed, localCA, drawn, issued, overlap >>

VaultBodies ==
  [status : {200, 403}, pem : {<<>>, <<"ca">>, <<"broken">>, <<"key", "ca">>}, der : {FALSE}]
  \cup [status : {200}, pem : {<<>>}, der : {TRUE}]

CANext ==
  \E c \in Callers :
    \/ \E opts \in Requests : LocalFSIssue(c, opts) \/ SpireIssue(c, opts) \/ VaultIssue(c, opts)
    \/ LocalFSTrustRoots(c) \/ SpireTrustRoots(c)
    \/ SpireGenerate(c) \/ SpireAnswer(c)
    \/ \E field \in Fields : SpireAssign(c, field)
    \/ VaultAnswer(c)
    \/ \E body \in VaultBodies : VaultTrustRoots(c, body)

CASpec == CAInit /\ [][CANext]_caVars

-----------------------------------------------------------------------------
(* Properties *)

\* Trust roots and leaves agree: every leaf a provider ever returned chains to
\* every root it ever returned, in whatever order its callers came.  Two cases
\* are not promised by the code: two first uses of the SPIRE provider at once,
\* each of which makes an authority, and a provider handed a certificate
\* without its key, which TrustRoots returns and IssueCertificate replaces.
\* Even then a leaf chains to the certificate it was issued under: from a
\* mixture of two authorities no leaf is made.
RootsVouchForLeaves ==
  /\ \A r \in issued : Chains(r.cert, {r.under}, 0) # {}
  /\ \/ overlap
     \/ handed.cert # NoCert /\ handed.key = NoKey
     \/ \A r \in issued, root \in roots : Chains(r.cert, {root}, 0) # {}

\* Once LocalCA is complete and no first use is under way, the authority stands:
\* it is not replaced, and no later call sets out to replace it.  First uses
\* that overlap do their damage before the last of them has assigned LocalCA,
\* and none after it.
SettledAuthorityStands ==
  [][ ( /\ localCA.cert # NoCert /\ localCA.key # NoKey
        /\ \A c \in Callers : ~InFirstUse(c) )
      => localCA' = localCA /\ \A c \in Callers : ~InFirstUse(c)' ]_caVars

\* A leaf never outlives the lifetime its caller asked for, and falls short of
\* it by less than an hour; below an hour this is not so of Vault, which is
\* asked for "0h" and grants its own default.
LifetimesAreAsAsked ==
  \A r \in issued :
    (IF kind = "vault" THEN r.ttl >= Hour ELSE r.ttl > 0) =>
      /\ r.cert.until - r.cert.from <= r.ttl
      /\ r.cert.until - r.cert.from > r.ttl - Hour

=============================================================================
