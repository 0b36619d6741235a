------------------------- MODULE WorkloadCAProofs -------------------------
(***************************************************************************)
(* The authorities, leaves and trust roots of the identity providers, for  *)
(* any number of callers, any requests and any authority a provider is     *)
(* constructed with.                                                       *)
(***************************************************************************)
EXTENDS WorkloadCA, TLAPS

-----------------------------------------------------------------------------
(* Authorities and leaves *)

InForce(cert) == cert # NoCert /\ cert.isCA /\ ValidAt(cert, 0)

\* GenerateCertificateAuthority makes an authority that is in force, with its key.
LEMMA NewAuthorityInForce ==
  ASSUME NEW key, NEW serial
  PROVE  LET a == NewAuthority(key, serial, 0, DefaultCATTL) IN
         InForce(a.cert) /\ a.cert.key = key /\ a.key = key /\ DOMAIN a = {"cert", "key"}
<1> DEFINE a == NewAuthority(key, serial, 0, DefaultCATTL)
<1>1. a.key = key /\ DOMAIN a = {"cert", "key"}
  BY DEF NewAuthority
<1>2. a.cert.isCA = TRUE /\ a.cert.key = key /\ a.cert.from = 0
  BY Zenon DEF NewAuthority, NoCert
<1>3. a.cert.until = 0 + ttlOr(DefaultCATTL, DefaultCATTL)
  BY Zenon DEF NewAuthority, NoCert
<1>4. NoCert.isCA = FALSE
  BY DEF NoCert
<1>5. ValidAt(a.cert, 0)
  BY <1>2, <1>3, CertificateAssumption DEF ValidAt, ttlOr
<1>6. QED BY <1>1, <1>2, <1>4, <1>5 DEF InForce

\* A leaf that Sign makes names the key that signed it, which is the key of the
\* authority's certificate, has the URIs of the options, and lives as long as asked.
LEMMA SignedAt ==
  ASSUME NEW ca, NEW opts, NEW cn, NEW pub, NEW serial, NEW at,
         Sign(ca, opts, cn, pub, serial, at) # NoCert
  PROVE  LET leaf == Sign(ca, opts, cn, pub, serial, at) IN
         /\ ca.cert # NoCert /\ ca.key = ca.cert.key /\ leaf.signer = ca.key
         /\ leaf.from = at /\ leaf.until = at + ttlOr(opts.ttl, DefaultLeafTTL)
         /\ leaf.uris = parseURIs(opts.uris)
<1> DEFINE template == newLeafTemplate(opts, cn, serial, at)
           leaf == Sign(ca, opts, cn, pub, serial, at)
<1>1. /\ leaf = CreateCertificate(template, ca.cert.key, pub, ca.key)
      /\ ca.cert # NoCert /\ template # NoCert
  BY Zenon DEF Sign
<1>2. /\ ca.cert.key = ca.key
      /\ leaf = [template EXCEPT !.key = pub, !.signer = ca.key]
  BY <1>1 DEF CreateCertificate
<1>3. template = [NoCert EXCEPT !.serial = serial, !.usage = opts.profile, !.cn = cn,
                    !.dns = cleanStrings(opts.dns), !.uris = parseURIs(opts.uris), !.from = at,
                    !.until = at + ttlOr(opts.ttl, DefaultLeafTTL)]
  BY <1>1 DEF newLeafTemplate
<1>4. /\ template.from = at /\ template.until = at + ttlOr(opts.ttl, DefaultLeafTTL)
      /\ template.uris = parseURIs(opts.uris)
  BY <1>3, Zenon DEF NoCert
<1>5. {"from", "until", "key", "signer", "uris"} \subseteq DOMAIN template
  BY <1>3, Zenon DEF NoCert
<1> HIDE DEF template, leaf
<1>6. /\ leaf.signer = ca.key /\ leaf.from = template.from /\ leaf.until = template.until
      /\ leaf.uris = template.uris
  BY <1>2, <1>5
<1>7. QED BY <1>1, <1>2, <1>4, <1>6 DEF leaf

\* The same of the providers, which sign at time 0.
LEMMA SignedLeaf ==
  ASSUME NEW ca, NEW opts, opts.ttl \in Int, NEW cn, NEW pub, NEW serial,
         Sign(ca, opts, cn, pub, serial, 0) # NoCert
  PROVE  LET leaf == Sign(ca, opts, cn, pub, serial, 0) IN
         /\ ca.cert # NoCert /\ ca.key = ca.cert.key /\ leaf.signer = ca.key
         /\ leaf.from = 0 /\ leaf.until = ttlOr(opts.ttl, DefaultLeafTTL)
<1>1. 0 + ttlOr(opts.ttl, DefaultLeafTTL) = ttlOr(opts.ttl, DefaultLeafTTL)
  BY CertificateAssumption DEF ttlOr
<1>2. QED BY <1>1, SignedAt

-----------------------------------------------------------------------------
(* The inductive invariant of the providers *)

\* What both GenerateCertificateSigningRequest and Vault's signing look at.
Signable(opts) ==
  /\ opts.profile \in Profiles /\ opts.cn # ""
  /\ BrokenURI \notin Elements(parseURIs(opts.uris))
  /\ ~(opts.profile = "server" /\ cleanStrings(opts.dns) = {})
  /\ ~(opts.profile = "client" /\ parseURIs(opts.uris) = <<>>)

\* A call under way: where it can be, and what it has made sure of by then.
CallInv(k) ==
  /\ DOMAIN k = DOMAIN Idle
  /\ k.pc \in {"idle", "post", "generate", "assign", "answer"}
  /\ k.opts \in Requests \cup {NoOpts}
  /\ k.pc \in {"generate", "assign", "answer"} => kind = "spire"
  /\ k.pc = "post" => kind = "vault" /\ Signable(k.opts)
  /\ k.pc = "assign" =>
       /\ k.left \subseteq Fields /\ k.left # {}
       /\ InForce(k.own.cert) /\ k.own.key # NoKey
       /\ "cert" \notin k.left => localCA.cert # NoCert
  /\ k.pc = "answer" => localCA.cert # NoCert

CallsInv ==
  /\ DOMAIN calls = Callers
  /\ \A c \in Callers : CallInv(calls[c])
  /\ drawn \in Nat
  /\ DOMAIN localCA = Fields
  /\ localCA.cert # NoCert => InForce(localCA.cert)

\* Every leaf chains to the certificate it was issued under, whatever happened
\* to LocalCA since.
LeavesInv ==
  \A r \in issued : r.under # NoCert /\ Chains(r.cert, {r.under}, 0) # {}

\* Leaves and roots come from one authority, the present one, and at most one
\* caller is about to make it.
Authority == IF kind = "vault" THEN VaultCA ELSE localCA.cert
KeyMissing == handed.cert # NoCert /\ handed.key = NoKey

OneAuthority ==
  /\ \A r \in issued : r.under = Authority
  /\ \A root \in roots : root = Authority /\ root # NoCert

OneFirstUse ==
  /\ \A c, d \in Callers : InFirstUse(c) /\ InFirstUse(d) => c = d
  /\ \A c \in Callers :
       /\ calls[c].pc = "generate" => localCA.cert = NoCert
       /\ calls[c].pc = "assign" =>
            /\ "cert" \in calls[c].left => localCA.cert = NoCert
            /\ "key" \notin calls[c].left => localCA.key # NoKey
  /\ kind = "spire" /\ localCA.cert # NoCert /\ (\A c \in Callers : ~InFirstUse(c))
       => localCA.key # NoKey

AgreementInv == overlap \/ KeyMissing \/ (OneAuthority /\ OneFirstUse)

CAIndInv == CallsInv /\ LeavesInv /\ LifetimesAreAsAsked /\ AgreementInv

-----------------------------------------------------------------------------
(* Leaves *)

\* A set with an element is not empty.
LEMMA NotEmpty == ASSUME NEW S, NEW x \in S PROVE S # {}
OBVIOUS

\* A leaf signed by an authority in force chains to it.
LEMMA LeafChains ==
  ASSUME NEW ca, InForce(ca.cert), NEW opts, opts.ttl \in Int, NEW cn, NEW pub, NEW serial,
         Sign(ca, opts, cn, pub, serial, 0) # NoCert
  PROVE  Chains(Sign(ca, opts, cn, pub, serial, 0), {ca.cert}, 0) # {}
<1> DEFINE leaf == Sign(ca, opts, cn, pub, serial, 0)
<1>1. leaf.signer = ca.cert.key /\ leaf.from = 0 /\ leaf.until = ttlOr(opts.ttl, DefaultLeafTTL)
  BY SignedLeaf
<1> HIDE DEF leaf
<1>2. ValidAt(leaf, 0)
  BY <1>1, CertificateAssumption DEF ValidAt, ttlOr
<1>3. CASE leaf \in {ca.cert}
  <2>1. <<leaf>> \in Chains(leaf, {ca.cert}, 0)
    BY <1>2, <1>3 DEF Chains
  <2>2. QED BY <2>1, NotEmpty DEF leaf
<1>4. CASE leaf \notin {ca.cert}
  <2>1. ca.cert \in {c \in {ca.cert} : c.isCA /\ c.key = leaf.signer /\ ValidAt(c, 0)}
    BY <1>1 DEF InForce
  <2>2. <<leaf, ca.cert>> \in Chains(leaf, {ca.cert}, 0)
    BY <1>2, <1>4, <2>1 DEF Chains
  <2>3. QED BY <2>2, NotEmpty DEF leaf
<1>5. QED BY <1>3, <1>4

\* Options whose request could be made are options Vault signs.
LEMMA SignableIsSigned ==
  ASSUME NEW ca, ca.cert # NoCert, ca.key # NoKey, ca.key = ca.cert.key,
         NEW opts, Signable(opts), NEW pub, NEW serial
  PROVE  Sign(ca, opts, opts.cn, pub, serial, 0) # NoCert
<1> DEFINE template == newLeafTemplate(opts, opts.cn, serial, 0)
           cert == CreateCertificate(template, ca.cert.key, pub, ca.key)
<1>1. template = [NoCert EXCEPT !.serial = serial, !.usage = opts.profile, !.cn = opts.cn,
                    !.dns = cleanStrings(opts.dns), !.uris = parseURIs(opts.uris), !.from = 0,
                    !.until = 0 + ttlOr(opts.ttl, DefaultLeafTTL)]
  BY Zenon DEF newLeafTemplate, Signable
<1>2. template.usage = opts.profile /\ {"usage", "key", "signer"} \subseteq DOMAIN template
  BY <1>1, Zenon DEF NoCert
<1>3. cert = [template EXCEPT !.key = pub, !.signer = ca.key]
  BY DEF CreateCertificate
<1> HIDE DEF template
<1>4. cert.usage = opts.profile
  BY <1>2, <1>3
<1> HIDE DEF cert
<1>5. NoCert.usage = "" /\ opts.profile # ""
  BY Zenon DEF NoCert, Signable, Profiles
<1>6. template # NoCert /\ cert # NoCert
  BY <1>2, <1>4, <1>5, Zenon
<1>7. QED BY <1>6, Zenon DEF Sign, Signable, template, cert

\* Options for which a request can be made can be signed.
LEMMA RequestIsSignable ==
  ASSUME NEW opts, NEW key, GenerateCertificateSigningRequest(opts, key) # NoCSR
  PROVE  Signable(opts)
BY Zenon DEF GenerateCertificateSigningRequest, Signable

\* The certificate Vault signs under.
LEMMA VaultInForce ==
  InForce(VaultCA) /\ VaultCA.key = VaultKey /\ VaultKey # NoKey
<1> DEFINE cert == NewAuthority(VaultKey, VaultKey, 0, DefaultCATTL).cert
<1>1. InForce(cert) /\ cert.key = VaultKey
  BY NewAuthorityInForce
<1>2. DOMAIN cert = DOMAIN NoCert
  BY DEF NewAuthority, NoCert
<1>3. VaultCA = [cert EXCEPT !.cn = "vault"]
  BY DEF VaultCA
<1>4. DOMAIN NoCert = {"serial", "key", "signer", "isCA", "usage", "cn", "dns", "uris", "from", "until"}
  BY DEF NoCert
<1> HIDE DEF cert
<1>5. /\ VaultCA.isCA = cert.isCA /\ VaultCA.key = cert.key
      /\ VaultCA.from = cert.from /\ VaultCA.until = cert.until
  BY <1>2, <1>3, <1>4
<1>6. cert.isCA = TRUE
  BY Zenon DEF cert, NewAuthority, NoCert
<1>7. NoCert.isCA = FALSE
  BY DEF NoCert
<1>8. VaultCA # NoCert
  BY <1>5, <1>6, <1>7
<1>9. QED BY <1>1, <1>5, <1>8, CAAssumption DEF InForce, ValidAt

\* Whole hours, less than one short.
LEMMA VaultTTLRounds ==
  ASSUME NEW ttl \in Int, ttl >= Hour
  PROVE  VaultTTL(ttl) \in Int /\ VaultTTL(ttl) > 0 /\ VaultTTL(ttl) <= ttl /\ VaultTTL(ttl) > ttl - Hour
<1> DEFINE q == ttl \div Hour
           r == ttl % Hour
<1>1. Hour \in Nat /\ Hour > 0 /\ ttl > 0
  BY CAAssumption
<1>2. q \in Int /\ r \in 0..(Hour - 1) /\ ttl = Hour * q + r
  BY <1>1, SMTT(30)
<1>3. VaultTTL(ttl) = q * Hour
  BY <1>1 DEF VaultTTL
<1> HIDE DEF q, r
<1>4. q * Hour = Hour * q /\ Hour * q \in Int
  BY <1>1, <1>2
<1>5. QED BY <1>1, <1>2, <1>3, <1>4

-----------------------------------------------------------------------------
(* What a step does to each part of the invariant *)

\* At most one leaf is added, and it chains to the certificate it was issued under.
Grown(under, ttl, lifetime) ==
  \/ issued' = issued
  \/ \E leaf :
       /\ issued' = issued \cup {[cert |-> leaf, ttl |-> ttl, under |-> under]}
       /\ under # NoCert /\ Chains(leaf, {under}, 0) # {}
       /\ leaf.from = 0 /\ leaf.until = lifetime

\* Recording a leaf signed by an authority in force adds a leaf that chains to it.
LEMMA SignGrows ==
  ASSUME NEW ca, InForce(ca.cert), NEW opts, opts.ttl \in Int, NEW cn, NEW key, NEW serial, NEW asked,
         Sign(ca, opts, cn, key, serial, 0) # NoCert,
         Record(Issued(Sign(ca, opts, cn, key, serial, 0), key), asked, ca.cert)
  PROVE  Grown(ca.cert, asked.ttl, ttlOr(opts.ttl, DefaultLeafTTL))
<1> DEFINE leaf == Sign(ca, opts, cn, key, serial, 0)
<1>1. leaf.from = 0 /\ leaf.until = ttlOr(opts.ttl, DefaultLeafTTL)
  BY SignedLeaf
<1>2. Chains(leaf, {ca.cert}, 0) # {}
  BY LeafChains
<1> HIDE DEF leaf
<1>3. Issued(leaf, key).ok = TRUE /\ Issued(leaf, key).cert = leaf
  BY DEF Issued
<1>4. issued' = issued \cup {[cert |-> leaf, ttl |-> asked.ttl, under |-> ca.cert]}
  <2>1. Record(Issued(leaf, key), asked, ca.cert)
    BY DEF leaf
  <2>2. QED BY <1>3, <2>1 DEF Record
<1>5. QED BY <1>1, <1>2, <1>4, Zenon DEF Grown, InForce

\* Recording what IssueCertificate returned adds at most such a leaf.
LEMMA IssueGrows ==
  ASSUME CallsInv, NEW opts, opts.ttl \in Int, NEW key, NEW serial, NEW asked,
         Record(IssueCertificate(localCA, opts, key, serial, 0), asked, localCA.cert)
  PROVE  Grown(localCA.cert, asked.ttl, ttlOr(opts.ttl, DefaultLeafTTL))
<1> DEFINE leaf == Sign(localCA, opts, opts.cn, key, serial, 0)
<1>1. CASE leaf = NoCert
  <2>1. IssueCertificate(localCA, opts, key, serial, 0) = Refused
    BY <1>1 DEF IssueCertificate
  <2>2. Refused.ok = FALSE
    BY DEF Refused
  <2>3. QED BY <2>1, <2>2 DEF Record, Grown
<1>2. CASE leaf # NoCert
  <2>1. IssueCertificate(localCA, opts, key, serial, 0) = Issued(leaf, key)
    BY <1>2 DEF IssueCertificate
  <2>2. localCA.cert # NoCert
    BY <1>2, SignedLeaf
  <2>3. InForce(localCA.cert)
    BY <2>2 DEF CallsInv
  <2>4. QED BY <1>2, <2>1, <2>3, SignGrows
<1>3. QED BY <1>1, <1>2

\* Such a leaf keeps LeavesInv.
LEMMA GrownLeaves ==
  ASSUME LeavesInv, NEW under, NEW ttl, NEW lifetime, Grown(under, ttl, lifetime)
  PROVE  LeavesInv'
BY DEF LeavesInv, Grown

\* Such a leaf keeps LifetimesAreAsAsked when it lives as long as was asked.
LEMMA GrownLifetimes ==
  ASSUME LifetimesAreAsAsked, kind' = kind, NEW under, NEW ttl \in Int, NEW lifetime \in Int,
         Grown(under, ttl, lifetime),
         (IF kind = "vault" THEN ttl >= Hour ELSE ttl > 0) => lifetime <= ttl /\ lifetime > ttl - Hour
  PROVE  LifetimesAreAsAsked'
<1>1. CASE issued' = issued
  BY <1>1 DEF LifetimesAreAsAsked
<1>2. ASSUME NEW leaf, issued' = issued \cup {[cert |-> leaf, ttl |-> ttl, under |-> under]},
             leaf.from = 0, leaf.until = lifetime
      PROVE  LifetimesAreAsAsked'
  <2>1. leaf.until - leaf.from = lifetime
    BY <1>2
  <2>2. QED BY <1>2, <2>1 DEF LifetimesAreAsAsked
<1>3. QED BY <1>1, <1>2 DEF Grown

\* Such a leaf keeps OneAuthority when it was issued under the present authority.
LEMMA GrownAuthority ==
  ASSUME OneAuthority, Authority' = Authority, roots' = roots, NEW ttl, NEW lifetime,
         Grown(Authority, ttl, lifetime)
  PROVE  OneAuthority'
BY DEF OneAuthority, Grown

\* The call of c is the only one that changes.
LEMMA CallChanges ==
  ASSUME CallsInv, NEW c \in Callers, NEW k, calls' = [calls EXCEPT ![c] = k],
         UNCHANGED << kind, localCA >>, drawn' \in Nat, CallInv(k)
  PROVE  CallsInv'
<1>1. DOMAIN calls' = Callers
  BY DEF CallsInv
<1>2. ASSUME NEW d \in Callers PROVE CallInv(calls[d])'
  <2>1. CASE d = c
    <3>1. calls'[d] = k
      BY <2>1 DEF CallsInv
    <3>2. QED BY <3>1 DEF CallInv
  <2>2. CASE d # c
    <3>1. calls'[d] = calls[d] /\ CallInv(calls[d])
      BY <2>2 DEF CallsInv
    <3>2. QED BY <3>1 DEF CallInv
  <2>3. QED BY <2>1, <2>2
<1>3. QED BY <1>1, <1>2 DEF CallsInv, InForce

\* A call that is in no first use, before or after, changes nothing about them.
LEMMA FirstUseKept ==
  ASSUME CallsInv, OneFirstUse, NEW c \in Callers, NEW k, calls' = [calls EXCEPT ![c] = k],
         UNCHANGED << kind, localCA >>, ~InFirstUse(c), k.pc \notin {"generate", "assign"}
  PROVE  OneFirstUse'
<1>1. calls'[c] = k /\ \A d \in Callers \ {c} : calls'[d] = calls[d]
  BY DEF CallsInv
<1>2. \A d \in Callers : InFirstUse(d)' <=> InFirstUse(d)
  BY <1>1 DEF InFirstUse
<1>3. \A d \in Callers : InFirstUse(d)' => d # c /\ calls'[d] = calls[d]
  BY <1>1 DEF InFirstUse
<1>4. QED BY <1>1, <1>2, <1>3 DEF OneFirstUse, InFirstUse

\* Agreement is kept if it is kept where it is promised.
LEMMA AgreementStep ==
  ASSUME AgreementInv, UNCHANGED handed, overlap => overlap',
         ~overlap' /\ ~KeyMissing /\ OneAuthority /\ OneFirstUse => OneAuthority' /\ OneFirstUse'
  PROVE  AgreementInv'
BY DEF AgreementInv, KeyMissing

-----------------------------------------------------------------------------
(* One lemma per action *)

\* The fields of the options of a call.
LEMMA OptsTyped ==
  ASSUME NEW opts \in Requests \cup {NoOpts}
  PROVE  opts.ttl \in Int /\ DOMAIN opts = {"profile", "cn", "dns", "uris", "ttl"}
<1>1. NoOpts.ttl \in Int /\ DOMAIN NoOpts = {"profile", "cn", "dns", "uris", "ttl"}
  <2>1. NoOpts.ttl = 0 /\ DOMAIN NoOpts = {"profile", "cn", "dns", "uris", "ttl"}
    BY Zenon DEF NoOpts
  <2>2. QED BY <2>1
<1>2. ASSUME opts \in Requests
      PROVE  opts.ttl \in Int /\ DOMAIN opts = {"profile", "cn", "dns", "uris", "ttl"}
  <2>1. opts = [ profile |-> opts.profile, cn |-> opts.cn, dns |-> opts.dns,
                 uris |-> opts.uris, ttl |-> opts.ttl ] /\ opts.ttl \in Int
    BY <1>2, CAAssumption
  <2>2. QED BY <2>1
<1>3. QED BY <1>1, <1>2

\* A call as it begins.
LEMMA BegunCall ==
  ASSUME NEW pc, NEW op, NEW opts
  PROVE  LET k == [Idle EXCEPT !.pc = pc, !.op = op, !.opts = opts] IN
         k.pc = pc /\ k.opts = opts /\ DOMAIN k = DOMAIN Idle
BY DEF Idle

\* A caller that does nothing meets the invariant of a call.
LEMMA IdleCall == CallInv(Idle) /\ Idle.pc = "idle"
<1>1. Idle.pc = "idle" /\ Idle.opts = NoOpts
  BY Zenon DEF Idle
<1>2. QED BY <1>1, Zenon DEF CallInv

\* Both operations of the local provider and Vault's TrustRoots are one step.
LEMMA QuietCall ==
  ASSUME CallsInv, NEW c \in Callers, NEW pc, NEW op, NEW opts, pc = "idle", opts = NoOpts,
         Begin(c, pc, op, opts), UNCHANGED << kind, localCA >>, drawn' \in Nat
  PROVE  CallsInv' /\ (OneFirstUse => OneFirstUse')
<1> DEFINE k == [Idle EXCEPT !.pc = pc, !.op = op, !.opts = opts]
<1>1. calls' = [calls EXCEPT ![c] = k] /\ calls[c].pc = "idle"
  BY DEF Begin
<1>2. k.pc = pc /\ k.opts = opts /\ DOMAIN k = DOMAIN Idle
  BY BegunCall
<1> HIDE DEF k
<1>3. CallInv(k)
  BY <1>2, Zenon DEF CallInv
<1>4. CallsInv'
  BY <1>1, <1>3, CallChanges, Zenon
<1>5. OneFirstUse => OneFirstUse'
  <2>1. ~InFirstUse(c) /\ k.pc \notin {"generate", "assign"}
    BY <1>1, <1>2 DEF InFirstUse
  <2>2. QED BY <1>1, <2>1, FirstUseKept, Zenon
<1>6. QED BY <1>4, <1>5

\* Issuing by the file-based provider keeps the invariant.
LEMMA LocalFSIssueKeeps ==
  ASSUME CAIndInv, NEW c \in Callers, NEW opts \in Requests, LocalFSIssue(c, opts)
  PROVE  CAIndInv'
<1> USE DEF CAIndInv
<1>1. /\ kind = "localfs" /\ Begin(c, "idle", "", NoOpts) /\ drawn' = drawn + 1
      /\ Record(IssueCertificate(localCA, opts, drawn', drawn', 0), opts, localCA.cert)
      /\ UNCHANGED << kind, handed, localCA, roots, overlap >>
  BY Zenon DEF LocalFSIssue
<1>2. opts.ttl \in Int
  BY OptsTyped
<1>3. Grown(localCA.cert, opts.ttl, ttlOr(opts.ttl, DefaultLeafTTL))
  BY <1>1, <1>2, IssueGrows, Zenon
<1>4. CallsInv' /\ (OneFirstUse => OneFirstUse')
  <2>1. drawn \in Nat /\ drawn' = drawn + 1
    BY <1>1, Zenon DEF CallsInv
  <2>2. drawn' \in Nat
    BY ONLY <2>1
  <2>3. QED BY <1>1, <2>2, QuietCall, Zenon
<1>5. LeavesInv'
  BY <1>3, GrownLeaves
<1>6. LifetimesAreAsAsked'
  <2>1. /\ ttlOr(opts.ttl, DefaultLeafTTL) \in Int
        /\ opts.ttl > 0 => ttlOr(opts.ttl, DefaultLeafTTL) = opts.ttl
    BY <1>2, CertificateAssumption DEF ttlOr
  <2>2. opts.ttl > opts.ttl - Hour
    BY <1>2, CAAssumption
  <2>3. kind' = kind /\ kind # "vault"
    BY <1>1, Zenon
  <2>4. QED BY <1>2, <1>3, <2>1, <2>2, <2>3, GrownLifetimes
<1>7. AgreementInv'
  <2>1. Authority = localCA.cert /\ Authority' = Authority
    BY <1>1, Zenon DEF Authority
  <2>2. OneAuthority => OneAuthority'
    BY <1>1, <1>3, <2>1, GrownAuthority, Zenon
  <2>3. QED BY <1>1, <1>4, <2>2, AgreementStep, Zenon
<1>8. QED BY <1>4, <1>5, <1>6, <1>7

\* Asking the file-based provider for its roots keeps the invariant.
LEMMA LocalFSTrustRootsKeeps ==
  ASSUME CAIndInv, NEW c \in Callers, LocalFSTrustRoots(c)
  PROVE  CAIndInv'
<1> USE DEF CAIndInv
<1>1. /\ kind = "localfs" /\ Begin(c, "idle", "", NoOpts)
      /\ roots' = roots \cup ({localCA.cert} \ {NoCert})
      /\ UNCHANGED << kind, handed, localCA, drawn, issued, overlap >>
  BY Zenon DEF LocalFSTrustRoots
<1>2. CallsInv' /\ (OneFirstUse => OneFirstUse')
  <2>1. drawn' \in Nat
    BY <1>1, Zenon DEF CallsInv
  <2>2. QED BY <1>1, <2>1, QuietCall, Zenon
<1>3. LeavesInv' /\ LifetimesAreAsAsked'
  BY <1>1, Zenon DEF LeavesInv, LifetimesAreAsAsked
<1>4. AgreementInv'
  <2>1. OneAuthority => OneAuthority'
    BY <1>1, Zenon DEF OneAuthority, Authority
  <2>2. QED BY <1>1, <1>2, <2>1, AgreementStep, Zenon
<1>5. QED BY <1>2, <1>3, <1>4

\* Asking Vault for its roots keeps the invariant, whatever it answers.
LEMMA VaultTrustRootsKeeps ==
  ASSUME CAIndInv, NEW c \in Callers, NEW body, VaultTrustRoots(c, body)
  PROVE  CAIndInv'
<1> USE DEF CAIndInv
<1>1. /\ kind = "vault" /\ Begin(c, "idle", "", NoOpts)
      /\ roots' \subseteq roots \cup {VaultCA}
      /\ UNCHANGED << kind, handed, localCA, drawn, issued, overlap >>
  BY Zenon DEF VaultTrustRoots, VaultRootsOf
<1>2. CallsInv' /\ (OneFirstUse => OneFirstUse')
  <2>1. drawn' \in Nat
    BY <1>1, Zenon DEF CallsInv
  <2>2. QED BY <1>1, <2>1, QuietCall, Zenon
<1>3. LeavesInv' /\ LifetimesAreAsAsked'
  BY <1>1, Zenon DEF LeavesInv, LifetimesAreAsAsked
<1>4. AgreementInv'
  <2>1. VaultCA # NoCert
    BY VaultInForce DEF InForce
  <2>2. OneAuthority => OneAuthority'
    BY <1>1, <2>1, Zenon DEF OneAuthority, Authority
  <2>3. QED BY <1>1, <1>2, <2>2, AgreementStep, Zenon
<1>5. QED BY <1>2, <1>3, <1>4

\* What IssueCertificate and TrustRoots of the SPIRE provider do before their
\* test, and where the test sends them.
LEMMA SpireBegins ==
  ASSUME CAIndInv, NEW c \in Callers, NEW pc \in {"idle", "generate", "answer"}, NEW op,
         NEW opts \in Requests \cup {NoOpts}, Begin(c, pc, op, opts), kind = "spire",
         UNCHANGED << kind, handed, localCA, drawn, issued, roots >>, overlap => overlap',
         pc = "answer" => localCA.cert # NoCert,
         pc = "generate" => /\ localCA.cert = NoCert \/ localCA.key = NoKey
                            /\ overlap' \/ \A d \in Callers \ {c} : ~InFirstUse(d)
  PROVE  CAIndInv'
<1> USE DEF CAIndInv
<1> DEFINE k == [Idle EXCEPT !.pc = pc, !.op = op, !.opts = opts]
<1>1. calls' = [calls EXCEPT ![c] = k] /\ calls[c].pc = "idle"
  BY DEF Begin
<1>2. k.pc = pc /\ k.opts = opts /\ DOMAIN k = DOMAIN Idle
  BY BegunCall
<1> HIDE DEF k
<1>3. CallInv(k)
  BY <1>2, Zenon DEF CallInv
<1>4. CallsInv'
  <2>1. drawn' \in Nat
    BY DEF CallsInv
  <2>2. QED BY <1>1, <1>3, <2>1, CallChanges, Zenon
<1>5. LeavesInv' /\ LifetimesAreAsAsked'
  BY DEF LeavesInv, LifetimesAreAsAsked
<1>6. AgreementInv'
  <2>1. OneAuthority => OneAuthority'
    BY DEF OneAuthority, Authority
  <2>2. ASSUME OneFirstUse, ~overlap' PROVE OneFirstUse'
    <3>0. ~InFirstUse(c)
      BY <1>1 DEF InFirstUse
    <3>1. CASE pc # "generate"
      <4>1. k.pc \notin {"generate", "assign"}
        BY <1>2, <3>1
      <4>2. QED BY <1>1, <2>2, <3>0, <4>1, FirstUseKept, Zenon
    <3>2. CASE pc = "generate"
      <4>1. \A d \in Callers : ~InFirstUse(d)
        BY <2>2, <3>0, <3>2
      <4>2. localCA.cert = NoCert
        BY <2>2, <3>2, <4>1 DEF OneFirstUse
      <4>3. calls'[c].pc = "generate" /\ \A d \in Callers \ {c} : calls'[d] = calls[d]
        BY <1>1, <1>2, <3>2 DEF CallsInv
      <4>4. \A d \in Callers : InFirstUse(d)' => d = c
        BY <4>1, <4>3 DEF InFirstUse
      <4>5. \A d \in Callers : calls'[d].pc # "assign"
        BY <4>1, <4>3 DEF InFirstUse
      <4>6. localCA'.cert = NoCert
        BY <4>2
      <4>7. \A a, b \in Callers : InFirstUse(a)' /\ InFirstUse(b)' => a = b
        BY <4>4
      <4>8. QED BY <4>5, <4>6, <4>7, Zenon DEF OneFirstUse
    <3>3. QED BY <3>1, <3>2
  <2>3. QED BY <2>1, <2>2, AgreementStep
<1>7. QED BY <1>4, <1>5, <1>6

\* The first step of IssueCertificate of the SPIRE provider keeps the invariant: it
\* refuses, goes on to the answer, or sets out to make an authority.
LEMMA SpireIssueKeeps ==
  ASSUME CAIndInv, NEW c \in Callers, NEW opts \in Requests, SpireIssue(c, opts)
  PROVE  CAIndInv'
<1> DEFINE unset == localCA.cert = NoCert \/ localCA.key = NoKey
           pc == IF ~SpireHostsMatch(opts) THEN "idle" ELSE IF unset THEN "generate" ELSE "answer"
<1>1. /\ kind = "spire" /\ Begin(c, pc, "issue", opts)
      /\ overlap' = (overlap \/ (SpireHostsMatch(opts) /\ unset /\ \E d \in Callers \ {c} : InFirstUse(d)))
      /\ UNCHANGED << kind, handed, localCA, drawn, issued, roots >>
  BY Zenon DEF SpireIssue
<1>2. /\ pc \in {"idle", "generate", "answer"}
      /\ pc = "answer" => localCA.cert # NoCert
      /\ pc = "generate" => SpireHostsMatch(opts) /\ unset
  OBVIOUS
<1>3. pc = "generate" => /\ localCA.cert = NoCert \/ localCA.key = NoKey
                         /\ overlap' \/ \A d \in Callers \ {c} : ~InFirstUse(d)
  BY <1>1, <1>2, Zenon
<1> HIDE DEF pc
<1>4. QED BY <1>1, <1>2, <1>3, SpireBegins, Zenon

\* The first step of TrustRoots of the SPIRE provider keeps the invariant.
LEMMA SpireTrustRootsKeeps ==
  ASSUME CAIndInv, NEW c \in Callers, SpireTrustRoots(c)
  PROVE  CAIndInv'
<1> DEFINE unset == localCA.cert = NoCert
           pc == IF unset THEN "generate" ELSE "answer"
<1>1. /\ kind = "spire" /\ Begin(c, pc, "roots", NoOpts)
      /\ overlap' = (overlap \/ (unset /\ \E d \in Callers \ {c} : InFirstUse(d)))
      /\ UNCHANGED << kind, handed, localCA, drawn, issued, roots >>
  BY Zenon DEF SpireTrustRoots
<1>2. /\ pc \in {"idle", "generate", "answer"}
      /\ pc = "answer" => localCA.cert # NoCert
      /\ pc = "generate" => unset
  OBVIOUS
<1>3. pc = "generate" => /\ localCA.cert = NoCert \/ localCA.key = NoKey
                         /\ overlap' \/ \A d \in Callers \ {c} : ~InFirstUse(d)
  BY <1>1, <1>2, Zenon
<1>4. NoOpts \in Requests \cup {NoOpts}
  OBVIOUS
<1> HIDE DEF pc
<1>5. QED BY <1>1, <1>2, <1>3, <1>4, SpireBegins, Zenon

\* The fields of a call.
LEMMA IdleDomain == DOMAIN Idle = {"pc", "op", "opts", "own", "left"}
BY Zenon DEF Idle

\* A call that ends, from where it was in no first use.
LEMMA ReturnKeeps ==
  ASSUME CallsInv, NEW c \in Callers, Return(c), UNCHANGED << kind, localCA >>, drawn' \in Nat
  PROVE  CallsInv' /\ (OneFirstUse /\ ~InFirstUse(c) => OneFirstUse')
<1>1. calls' = [calls EXCEPT ![c] = Idle]
  BY DEF Return
<1>2. CallInv(Idle) /\ Idle.pc \notin {"generate", "assign"}
  BY IdleCall
<1>3. QED BY <1>1, <1>2, CallChanges, FirstUseKept, Zenon

\* Making an authority, not yet assigned, keeps the invariant.
LEMMA SpireGenerateKeeps ==
  ASSUME CAIndInv, NEW c \in Callers, SpireGenerate(c)
  PROVE  CAIndInv'
<1> USE DEF CAIndInv
<1>1. /\ calls[c].pc = "generate"
      /\ UNCHANGED << kind, handed, localCA, begun, issued, roots, overlap >>
  BY DEF SpireGenerate
<1>2. LeavesInv' /\ LifetimesAreAsAsked'
  BY <1>1 DEF LeavesInv, LifetimesAreAsAsked
<1>3. OneAuthority => OneAuthority'
  BY <1>1 DEF OneAuthority, Authority
<1>4. CallInv(calls[c]) /\ drawn \in Nat
  BY DEF CallsInv
<1>5. CASE Return(c) /\ UNCHANGED drawn
  <2>1. CallsInv'
    BY <1>1, <1>4, <1>5, ReturnKeeps
  <2>2. ASSUME OneFirstUse PROVE OneFirstUse'
    <3>1. localCA'.cert = NoCert /\ \A d \in Callers : InFirstUse(d) => d = c
      BY <1>1, <2>2 DEF OneFirstUse, InFirstUse
    <3>2. calls'[c].pc = "idle" /\ \A d \in Callers \ {c} : calls'[d] = calls[d]
      BY <1>5, IdleCall DEF Return, CallsInv
    <3>3. \A d \in Callers : calls'[d].pc \notin {"generate", "assign"}
      BY <3>1, <3>2 DEF InFirstUse
    <3>4. QED BY <3>1, <3>3 DEF OneFirstUse, InFirstUse
  <2>3. QED BY <1>1, <1>2, <1>3, <2>1, <2>2, AgreementStep
<1>6. CASE /\ drawn' = drawn + 1
           /\ calls' = [calls EXCEPT ![c].pc = "assign", ![c].left = Fields,
                                     ![c].own = NewAuthority(drawn', drawn', 0, DefaultCATTL)]
  <2> DEFINE own == NewAuthority(drawn', drawn', 0, DefaultCATTL)
             k == calls'[c]
  <2>1. drawn' \in Nat /\ drawn' # NoKey
    BY <1>4, <1>6 DEF NoKey
  <2>2. InForce(own.cert) /\ own.key = drawn'
    BY NewAuthorityInForce
  <2> HIDE DEF own
  <2>3. calls' = [calls EXCEPT ![c].pc = "assign", ![c].left = Fields, ![c].own = own]
    BY <1>6 DEF own
  <2>4. DOMAIN calls[c] = {"pc", "op", "opts", "own", "left"} /\ DOMAIN calls = Callers
    BY <1>4, IdleDomain DEF CallInv, CallsInv
  <2>5. /\ k.pc = "assign" /\ k.left = Fields /\ k.own = own /\ k.opts = calls[c].opts
        /\ DOMAIN k = DOMAIN calls[c]
        /\ \A d \in Callers \ {c} : calls'[d] = calls[d]
        /\ DOMAIN calls' = Callers
    BY <2>3, <2>4
  <2>6. calls' = [calls EXCEPT ![c] = k]
    BY <2>3, <2>4, <2>5, Zenon
  <2> HIDE DEF k
  <2>7. CallInv(k)
    <3>1. Fields # {} /\ "cert" \in Fields
      BY DEF Fields
    <3>2. k.opts \in Requests \cup {NoOpts} /\ DOMAIN k = DOMAIN Idle /\ kind = "spire"
      BY <1>1, <1>4, <2>5 DEF CallInv
    <3>3. InForce(k.own.cert) /\ k.own.key # NoKey
      BY <2>1, <2>2, <2>5
    <3>4. QED BY <2>5, <3>1, <3>2, <3>3, Zenon DEF CallInv
  <2>8. CallsInv'
    BY <1>1, <2>1, <2>6, <2>7, CallChanges, Zenon
  <2>9. ASSUME OneFirstUse PROVE OneFirstUse'
    <3>1. localCA'.cert = NoCert /\ \A d \in Callers : InFirstUse(d) => d = c
      BY <1>1, <2>9 DEF OneFirstUse, InFirstUse
    <3>2. calls'[c].pc = "assign" /\ calls'[c].left = Fields
      BY <2>5 DEF k
    <3>3. \A d \in Callers : InFirstUse(d)' => d = c
      BY <2>5, <3>1 DEF InFirstUse
    <3>4. QED BY <3>1, <3>2, <3>3 DEF OneFirstUse, InFirstUse, Fields
  <2>10. QED BY <1>1, <1>2, <1>3, <2>8, <2>9, AgreementStep
<1>7. QED BY <1>5, <1>6, Zenon DEF SpireGenerate

\* The one step that changes LocalCA.  Without overlap it happens while there
\* is no certificate, so before any leaf and any root.
LEMMA SpireAssignKeeps ==
  ASSUME CAIndInv, NEW c \in Callers, NEW field \in Fields, SpireAssign(c, field)
  PROVE  CAIndInv'
<1> USE DEF CAIndInv
<1> DEFINE k == calls'[c]
           own == calls[c].own
           left == calls[c].left
<1>1. /\ calls[c].pc = "assign" /\ field \in left
      /\ localCA' = [localCA EXCEPT ![field] = own[field]]
      /\ UNCHANGED << kind, handed, drawn, begun, issued, roots, overlap >>
  BY DEF SpireAssign
<1>2. /\ DOMAIN calls[c] = {"pc", "op", "opts", "own", "left"} /\ DOMAIN calls = Callers
      /\ calls[c].opts \in Requests \cup {NoOpts} /\ kind = "spire"
      /\ InForce(own.cert) /\ own.key # NoKey /\ left \subseteq Fields
      /\ "cert" \notin left => localCA.cert # NoCert
      /\ DOMAIN localCA = Fields
  BY <1>1, IdleDomain DEF CallInv, CallsInv
<1>3. /\ k.pc = (IF left = {field} THEN "answer" ELSE "assign") /\ k.left = left \ {field}
      /\ k.own = own /\ k.opts = calls[c].opts /\ DOMAIN k = DOMAIN calls[c]
      /\ \A d \in Callers \ {c} : calls'[d] = calls[d]
      /\ DOMAIN calls' = Callers
  BY <1>2 DEF SpireAssign
<1>4. /\ localCA'.cert = (IF field = "cert" THEN own.cert ELSE localCA.cert)
      /\ localCA'.key = (IF field = "key" THEN own.key ELSE localCA.key)
      /\ DOMAIN localCA' = Fields
  BY <1>1, <1>2 DEF Fields
<1>5. own.cert # NoCert
  BY <1>2 DEF InForce
<1> HIDE DEF k, own, left
<1>6. localCA.cert # NoCert => localCA'.cert # NoCert
  BY <1>4, <1>5
<1>7. "cert" \notin left \ {field} => localCA'.cert # NoCert
  BY <1>2, <1>4, <1>5
<1>8. CallsInv'
  <2>1. ASSUME NEW d \in Callers PROVE CallInv(calls[d])'
    <3>1. CASE d = c
      <4>1. calls'[d] = k
        BY <3>1 DEF k
      <4>2. CASE left = {field}
        <5>1. k.pc = "answer" /\ localCA'.cert # NoCert
          BY <1>3, <1>7, <4>2
        <5>2. QED BY <1>1, <1>2, <1>3, <4>1, <5>1, IdleDomain DEF CallInv
      <4>3. CASE left # {field}
        <5>1. k.pc = "assign" /\ k.left = left \ {field} /\ k.left # {} /\ k.left \subseteq Fields
          BY <1>1, <1>2, <1>3, <4>3
        <5>2. k.opts \in Requests \cup {NoOpts} /\ DOMAIN k = DOMAIN Idle /\ kind' = "spire"
          BY <1>1, <1>2, <1>3, IdleDomain
        <5>3. InForce(k.own.cert) /\ k.own.key # NoKey
          BY <1>2, <1>3
        <5>4. QED BY <1>7, <4>1, <5>1, <5>2, <5>3, Zenon DEF CallInv
      <4>4. QED BY <4>2, <4>3
    <3>2. CASE d # c
      <4>1. calls'[d] = calls[d] /\ CallInv(calls[d]) /\ kind' = kind
        BY <1>1, <1>3, <3>2 DEF CallsInv
      <4>2. QED BY <1>6, <4>1, SMTT(30) DEF CallInv
    <3>3. QED BY <3>1, <3>2
  <2>2. localCA'.cert # NoCert => InForce(localCA'.cert)
    BY <1>2, <1>4 DEF CallsInv
  <2>3. drawn' \in Nat
    BY <1>1 DEF CallsInv
  <2>4. QED BY <1>3, <1>4, <2>1, <2>2, <2>3 DEF CallsInv, InForce
<1>9. LeavesInv' /\ LifetimesAreAsAsked'
  BY <1>1 DEF LeavesInv, LifetimesAreAsAsked
<1>10. ASSUME OneAuthority, OneFirstUse PROVE OneAuthority' /\ OneFirstUse'
  <2>1. OneAuthority'
    <3>1. CASE field = "cert"
      <4>1. Authority = NoCert
        BY <1>1, <1>2, <1>10, <3>1 DEF Authority, OneFirstUse, left
      <4>2. issued = {} /\ roots = {}
        BY <1>10, <4>1, Zenon DEF OneAuthority, LeavesInv
      <4>3. QED BY <1>1, <4>2 DEF OneAuthority
    <3>2. CASE field # "cert"
      <4>1. Authority' = Authority
        BY <1>1, <1>4, <3>2 DEF Authority
      <4>2. QED BY <1>1, <1>10, <4>1 DEF OneAuthority
    <3>3. QED BY <3>1, <3>2
  <2>2. \A d \in Callers : InFirstUse(d) => d = c
    BY <1>1, <1>10 DEF OneFirstUse, InFirstUse
  <2>3. \A d \in Callers : InFirstUse(d)' => d = c
    BY <1>3, <2>2 DEF InFirstUse
  <2>4. \A d \in Callers : calls'[d].pc = "generate" => FALSE
    <3>1. k.pc # "generate"
      BY <1>3
    <3>2. QED BY <1>3, <2>2, <3>1 DEF k, InFirstUse
  <2>5. /\ "cert" \in left \ {field} => localCA'.cert = NoCert
        /\ "key" \notin left \ {field} => localCA'.key # NoKey
    BY <1>1, <1>2, <1>4, <1>10 DEF OneFirstUse, left
  <2>6. \A d \in Callers : calls'[d].pc = "assign" =>
          /\ "cert" \in calls'[d].left => localCA'.cert = NoCert
          /\ "key" \notin calls'[d].left => localCA'.key # NoKey
    BY <1>3, <2>3, <2>5 DEF k, InFirstUse
  <2>7. (\A d \in Callers : ~InFirstUse(d)') => localCA'.key # NoKey
    <3>1. k.pc # "assign" => left = {field}
      BY <1>3
    <3>2. k.pc = "assign" => InFirstUse(c)'
      BY DEF k, InFirstUse
    <3>3. left = {field} => "key" \notin left \ {field}
      OBVIOUS
    <3>4. QED BY <2>5, <3>1, <3>2, <3>3
  <2>8. \A a, b \in Callers : InFirstUse(a)' /\ InFirstUse(b)' => a = b
    BY <2>3
  <2>9. QED BY <2>1, <2>4, <2>6, <2>7, <2>8, Zenon DEF OneFirstUse
<1>11. AgreementInv'
  BY <1>1, <1>10, AgreementStep
<1>12. QED BY <1>8, <1>9, <1>11

\* Answering from LocalCA as it is read keeps the invariant.
LEMMA SpireAnswerKeeps ==
  ASSUME CAIndInv, NEW c \in Callers, SpireAnswer(c)
  PROVE  CAIndInv'
<1> USE DEF CAIndInv
<1> DEFINE asked == calls[c].opts
           opts == [asked EXCEPT !.ttl = ttlOr(@, SpireDefaultTTL)]
<1>1. /\ calls[c].pc = "answer" /\ Return(c)
      /\ UNCHANGED << kind, handed, localCA, begun, overlap >>
  BY DEF SpireAnswer
<1>2. localCA.cert # NoCert /\ kind = "spire" /\ asked \in Requests \cup {NoOpts} /\ drawn \in Nat
  BY <1>1 DEF CallsInv, CallInv
<1>3. asked.ttl \in Int /\ DOMAIN asked = {"profile", "cn", "dns", "uris", "ttl"}
  BY <1>2, OptsTyped
<1>4. ~InFirstUse(c)
  BY <1>1 DEF InFirstUse
<1>5. Authority = localCA.cert /\ Authority' = Authority
  BY <1>1, <1>2 DEF Authority
<1>6. CASE /\ drawn' = drawn + 1 /\ UNCHANGED roots
           /\ Record(IssueCertificate(localCA, opts, drawn', drawn', 0), asked, localCA.cert)
  <2> HIDE DEF asked
  <2>1. opts.ttl = ttlOr(asked.ttl, SpireDefaultTTL)
    BY <1>3
  <2>2. opts.ttl \in Int /\ (asked.ttl > 0 => opts.ttl = asked.ttl)
    BY <1>3, <2>1, CAAssumption DEF ttlOr
  <2> HIDE DEF opts
  <2>3. Grown(localCA.cert, asked.ttl, ttlOr(opts.ttl, DefaultLeafTTL))
    BY <1>6, <2>2, IssueGrows, Zenon
  <2>4. CallsInv' /\ (OneFirstUse => OneFirstUse')
    <3>1. drawn' = drawn + 1
      BY <1>6, Zenon
    <3>2. drawn' \in Nat
      BY <1>2, <3>1
    <3>3. QED BY <1>1, <1>4, <3>2, ReturnKeeps
  <2>5. LeavesInv'
    BY <2>3, GrownLeaves
  <2>6. LifetimesAreAsAsked'
    <3>1. /\ ttlOr(opts.ttl, DefaultLeafTTL) \in Int
          /\ asked.ttl > 0 => ttlOr(opts.ttl, DefaultLeafTTL) = asked.ttl
      BY <1>3, <2>2, CertificateAssumption DEF ttlOr
    <3>2. asked.ttl > asked.ttl - Hour
      BY <1>3, CAAssumption
    <3>3. kind' = kind /\ kind # "vault"
      BY <1>1, <1>2
    <3>4. QED BY <1>3, <2>3, <3>1, <3>2, <3>3, GrownLifetimes
  <2>7. OneAuthority => OneAuthority'
    <3>1. roots' = roots
      BY <1>6, Zenon
    <3>2. QED BY <1>5, <2>3, <3>1, GrownAuthority
  <2>8. QED BY <1>1, <2>4, <2>5, <2>6, <2>7, AgreementStep
<1>7. CASE roots' = roots \cup {localCA.cert} /\ UNCHANGED << drawn, issued >>
  <2>1. CallsInv' /\ (OneFirstUse => OneFirstUse')
    BY <1>1, <1>2, <1>4, <1>7, ReturnKeeps, SMTT(30)
  <2>2. LeavesInv' /\ LifetimesAreAsAsked'
    BY <1>1, <1>7 DEF LeavesInv, LifetimesAreAsAsked
  <2>3. OneAuthority => OneAuthority'
    BY <1>2, <1>5, <1>7 DEF OneAuthority
  <2>4. QED BY <1>1, <2>1, <2>2, <2>3, AgreementStep
<1>8. QED BY <1>6, <1>7, Zenon DEF SpireAnswer

\* Sending a request to Vault, or refusing to, keeps the invariant.
LEMMA VaultIssueKeeps ==
  ASSUME CAIndInv, NEW c \in Callers, NEW opts \in Requests, VaultIssue(c, opts)
  PROVE  CAIndInv'
<1> USE DEF CAIndInv
<1> DEFINE csr == GenerateCertificateSigningRequest(opts, drawn + 1)
           posted == [Idle EXCEPT !.pc = "post", !.opts = opts, !.own.key = csr.key]
           k == IF csr = NoCSR THEN Idle ELSE posted
<1>1. /\ kind = "vault" /\ calls[c].pc = "idle"
      /\ calls' = [calls EXCEPT ![c] = k]
      /\ UNCHANGED << kind, handed, localCA, issued, roots, overlap >>
  BY Zenon DEF VaultIssue
<1>2. drawn' \in Nat
  <2>1. drawn' = drawn + 1 /\ drawn \in Nat
    BY Zenon DEF VaultIssue, CallsInv
  <2>2. QED BY <2>1
<1>3. CallInv(k) /\ k.pc \notin {"generate", "assign"}
  <2>1. CASE csr = NoCSR
    BY <2>1, IdleCall, Zenon
  <2>2. CASE csr # NoCSR
    <3>1. Signable(opts)
      BY <2>2, RequestIsSignable
    <3> HIDE DEF csr
    <3>2. posted.pc = "post" /\ posted.opts = opts /\ DOMAIN posted = DOMAIN Idle
      BY DEF Idle
    <3> HIDE DEF posted
    <3>3. k = posted
      BY <2>2
    <3> HIDE DEF k
    <3>4. CallInv(k)
      BY <1>1, <3>1, <3>2, <3>3, Zenon DEF CallInv
    <3>5. QED BY <3>2, <3>3, <3>4
  <2>3. QED BY <2>1, <2>2, Zenon
<1> HIDE DEF k
<1>4. CallsInv'
  BY <1>1, <1>2, <1>3, CallChanges, Zenon
<1>5. OneFirstUse => OneFirstUse'
  <2>1. ~InFirstUse(c)
    BY <1>1, SMTT(30) DEF InFirstUse
  <2>2. QED BY <1>1, <1>3, <2>1, FirstUseKept, Zenon
<1>6. LeavesInv' /\ LifetimesAreAsAsked' /\ (OneAuthority => OneAuthority')
  BY <1>1, SMTT(30) DEF LeavesInv, LifetimesAreAsAsked, OneAuthority, Authority
<1>7. QED BY <1>1, <1>4, <1>5, <1>6, AgreementStep

\* What Vault answers, or that it fails to, keeps the invariant.
LEMMA VaultAnswerKeeps ==
  ASSUME CAIndInv, NEW c \in Callers, VaultAnswer(c)
  PROVE  CAIndInv'
<1> USE DEF CAIndInv
<1> DEFINE asked == calls[c].opts
           lifetime == ttlOr(VaultTTL(asked.ttl), VaultDefaultTTL)
           opts == [asked EXCEPT !.ttl = lifetime]
           vault == [cert |-> VaultCA, key |-> VaultKey]
           key == calls[c].own.key
           leaf == Sign(vault, opts, asked.cn, key, key, 0)
<1>1. /\ calls[c].pc = "post" /\ Return(c)
      /\ Record(Issued(leaf, key), asked, VaultCA) \/ UNCHANGED issued
      /\ UNCHANGED << kind, handed, localCA, drawn, begun, roots, overlap >>
  BY Zenon DEF VaultAnswer
<1>2. kind = "vault" /\ Signable(asked) /\ asked \in Requests \cup {NoOpts} /\ drawn \in Nat
  BY <1>1 DEF CallsInv, CallInv
<1>3. asked.ttl \in Int /\ DOMAIN asked = {"profile", "cn", "dns", "uris", "ttl"}
  BY <1>2, OptsTyped
<1>4. ~InFirstUse(c)
  BY <1>1 DEF InFirstUse
<1> HIDE DEF asked
<1>5. lifetime \in Int /\ (asked.ttl >= Hour => lifetime = VaultTTL(asked.ttl))
  <2>1. CASE asked.ttl >= Hour
    <3>1. VaultTTL(asked.ttl) \in Int /\ VaultTTL(asked.ttl) > 0
      BY <1>3, <2>1, VaultTTLRounds
    <3>2. QED BY <3>1 DEF ttlOr
  <2>2. CASE ~(asked.ttl >= Hour)
    <3>1. VaultTTL(asked.ttl) \in Int
      BY <1>3, CAAssumption DEF VaultTTL
    <3>2. QED BY <2>2, <3>1, CAAssumption DEF ttlOr
  <2>3. QED BY <2>1, <2>2
<1> HIDE DEF lifetime
<1>6. /\ opts.ttl = lifetime /\ opts.cn = asked.cn /\ opts.profile = asked.profile
      /\ opts.dns = asked.dns /\ opts.uris = asked.uris
  BY <1>3
<1> HIDE DEF opts
<1>7. Signable(opts)
  BY <1>2, <1>6, Zenon DEF Signable
<1>8. vault.cert = VaultCA /\ vault.key = VaultKey
  OBVIOUS
<1> HIDE DEF vault
<1>9. leaf # NoCert
  BY <1>6, <1>7, <1>8, VaultInForce, SignableIsSigned DEF InForce
<1>10. Grown(VaultCA, asked.ttl, ttlOr(lifetime, DefaultLeafTTL))
  <2>1. CASE UNCHANGED issued
    BY <2>1 DEF Grown
  <2>2. CASE Record(Issued(leaf, key), asked, VaultCA)
    <3>1. InForce(vault.cert) /\ opts.ttl \in Int
      BY <1>5, <1>6, <1>8, VaultInForce
    <3>2. Record(Issued(leaf, key), asked, vault.cert)
      BY <1>8, <2>2
    <3>3. Grown(vault.cert, asked.ttl, ttlOr(opts.ttl, DefaultLeafTTL))
      BY <1>9, <3>1, <3>2, SignGrows, SMTT(30)
    <3>4. QED BY <1>6, <1>8, <3>3
  <2>3. QED BY <1>1, <2>1, <2>2, Zenon
<1>11. CallsInv' /\ (OneFirstUse => OneFirstUse')
  <2>1. drawn' \in Nat
    BY <1>1, <1>2
  <2>2. QED BY <1>1, <1>4, <2>1, ReturnKeeps
<1>12. LeavesInv'
  BY <1>10, GrownLeaves
<1>13. LifetimesAreAsAsked'
  <2>1. ttlOr(lifetime, DefaultLeafTTL) \in Int
    BY <1>5, CertificateAssumption DEF ttlOr
  <2>2. ASSUME asked.ttl >= Hour
        PROVE  /\ ttlOr(lifetime, DefaultLeafTTL) <= asked.ttl
               /\ ttlOr(lifetime, DefaultLeafTTL) > asked.ttl - Hour
    <3>1. /\ lifetime \in Int /\ lifetime > 0 /\ lifetime <= asked.ttl
          /\ lifetime > asked.ttl - Hour
      BY <1>3, <1>5, <2>2, VaultTTLRounds
    <3>2. ttlOr(lifetime, DefaultLeafTTL) = lifetime
      BY <3>1 DEF ttlOr
    <3>3. QED BY <3>1, <3>2
  <2>3. kind' = kind /\ kind = "vault"
    BY <1>1, <1>2
  <2>4. QED BY <1>3, <1>10, <2>1, <2>2, <2>3, GrownLifetimes
<1>14. OneAuthority => OneAuthority'
  <2>1. Authority = VaultCA /\ Authority' = Authority /\ roots' = roots
    BY <1>1, <1>2 DEF Authority
  <2>2. QED BY <1>10, <2>1, GrownAuthority
<1>15. QED BY <1>1, <1>11, <1>12, <1>13, <1>14, AgreementStep, Zenon

-----------------------------------------------------------------------------
(* The theorems about the providers *)

\* A provider as constructed meets the invariant.
LEMMA CAInitHolds ==
  ASSUME CAInit PROVE CAIndInv
<1>1. handed = [cert |-> handed.cert, key |-> handed.key] /\ (handed.cert # NoCert => InForce(handed.cert))
  BY CAAssumption DEF CAInit, InForce
<1>2. DOMAIN localCA = Fields
  BY <1>1 DEF CAInit, Fields
<1>3. \A c \in Callers : calls[c] = Idle
  BY DEF CAInit
<1>4. CallsInv
  BY <1>1, <1>2, <1>3, IdleCall DEF CAInit, CallsInv
<1>5. LeavesInv /\ LifetimesAreAsAsked /\ OneAuthority
  BY DEF CAInit, LeavesInv, LifetimesAreAsAsked, OneAuthority
<1>6. ~KeyMissing => OneFirstUse
  BY <1>3, IdleCall DEF CAInit, KeyMissing, OneFirstUse, InFirstUse
<1>7. QED BY <1>4, <1>5, <1>6 DEF CAIndInv, AgreementInv

\* Every step of a caller keeps the invariant.
LEMMA CAStepKeeps ==
  ASSUME CAIndInv, [CANext]_caVars PROVE CAIndInv'
<1>1. CASE UNCHANGED caVars
  <2>1. CallsInv'
    BY <1>1, SMTT(30) DEF caVars, CAIndInv, CallsInv, CallInv, InForce
  <2>2. LeavesInv' /\ LifetimesAreAsAsked'
    BY <1>1 DEF caVars, CAIndInv, LeavesInv, LifetimesAreAsAsked
  <2>3. AgreementInv'
    BY <1>1 DEF caVars, CAIndInv, AgreementInv, KeyMissing, OneAuthority, Authority, OneFirstUse, InFirstUse
  <2>4. QED BY <2>1, <2>2, <2>3, SMTT(30) DEF CAIndInv
<1>2. CASE CANext
  BY <1>2, LocalFSIssueKeeps, LocalFSTrustRootsKeeps, SpireIssueKeeps, SpireTrustRootsKeeps,
     SpireGenerateKeeps, SpireAssignKeeps, SpireAnswerKeeps, VaultIssueKeeps, VaultAnswerKeeps,
     VaultTrustRootsKeeps, Zenon DEF CANext
<1>3. QED BY <1>1, <1>2

\* The invariant always holds.
LEMMA CAInvariant == CASpec => []CAIndInv
BY CAInitHolds, CAStepKeeps, PTL DEF CASpec

\* Every leaf a provider returned chains to every trust root it returned, unless
\* two first uses of the SPIRE provider overlapped or it was handed a certificate
\* without its key; and always to the certificate it was issued under.
THEOREM RootsVouchForLeavesAlways == CASpec => []RootsVouchForLeaves
<1>1. CAIndInv => RootsVouchForLeaves
  <2> SUFFICES ASSUME CAIndInv PROVE RootsVouchForLeaves
    OBVIOUS
  <2>1. \A r \in issued : Chains(r.cert, {r.under}, 0) # {}
    BY DEF CAIndInv, LeavesInv
  <2>2. OneAuthority => \A r \in issued, root \in roots : root = r.under
    BY DEF OneAuthority
  <2>3. QED BY <2>1, <2>2 DEF CAIndInv, AgreementInv, KeyMissing, RootsVouchForLeaves
<1>2. QED BY <1>1, CAInvariant, PTL

\* No leaf outlives the lifetime its caller asked for, and none falls short of
\* it by an hour or more, below an hour of Vault excepted.
THEOREM LifetimesAreAsAskedAlways == CASpec => []LifetimesAreAsAsked
<1>1. CAIndInv => LifetimesAreAsAsked
  BY DEF CAIndInv
<1>2. QED BY <1>1, CAInvariant, PTL

\* A complete authority that no first use is about to replace is never replaced,
\* and no call sets out to.
THEOREM SettledAuthorityStandsAlways == CASpec => SettledAuthorityStands
<1> DEFINE Settled == /\ localCA.cert # NoCert /\ localCA.key # NoKey
                      /\ \A c \in Callers : ~InFirstUse(c)
           Stands == localCA' = localCA /\ \A c \in Callers : ~InFirstUse(c)'
<1>1. ASSUME CAIndInv, [CANext]_caVars PROVE [Settled => Stands]_caVars
  <2> SUFFICES ASSUME CANext, Settled PROVE Stands
    BY <1>1
  <2>1. ASSUME NEW c \in Callers, NEW k, calls' = [calls EXCEPT ![c] = k],
               k.pc \notin {"generate", "assign"}
        PROVE  \A d \in Callers : ~InFirstUse(d)'
    BY <1>1, <2>1 DEF InFirstUse, CAIndInv, CallsInv
  <2>2. ASSUME NEW c \in Callers, NEW pc, NEW op, NEW opts, Begin(c, pc, op, opts), pc # "generate",
               pc # "assign"
        PROVE  \A d \in Callers : ~InFirstUse(d)'
    <3> DEFINE k == [Idle EXCEPT !.pc = pc, !.op = op, !.opts = opts]
    <3>1. calls' = [calls EXCEPT ![c] = k]
      BY <2>2 DEF Begin
    <3>2. k.pc = pc
      BY BegunCall
    <3> HIDE DEF k
    <3>3. QED BY <2>1, <2>2, <3>1, <3>2, Zenon
  <2>3. ASSUME NEW c \in Callers, Return(c) PROVE \A d \in Callers : ~InFirstUse(d)'
    <3>1. Idle.pc \notin {"generate", "assign"}
      BY IdleCall
    <3>2. calls' = [calls EXCEPT ![c] = Idle]
      BY <2>3 DEF Return
    <3>3. QED BY <2>1, <3>1, <3>2, Zenon
  <2>4. ASSUME NEW c \in Callers, NEW opts \in Requests, LocalFSIssue(c, opts) PROVE Stands
    BY <2>2, <2>4, Zenon DEF LocalFSIssue
  <2>5. ASSUME NEW c \in Callers, LocalFSTrustRoots(c) PROVE Stands
    BY <2>2, <2>5, Zenon DEF LocalFSTrustRoots
  <2>6. ASSUME NEW c \in Callers, NEW body, VaultTrustRoots(c, body) PROVE Stands
    BY <2>2, <2>6, Zenon DEF VaultTrustRoots
  <2>7. ASSUME NEW c \in Callers, NEW opts \in Requests, SpireIssue(c, opts) PROVE Stands
    <3> DEFINE pc == IF ~SpireHostsMatch(opts) THEN "idle"
                     ELSE IF localCA.cert = NoCert \/ localCA.key = NoKey THEN "generate" ELSE "answer"
    <3>1. pc # "generate" /\ pc # "assign"
      OBVIOUS
    <3>2. Begin(c, pc, "issue", opts) /\ localCA' = localCA
      BY <2>7, Zenon DEF SpireIssue
    <3> HIDE DEF pc
    <3>3. QED BY <2>2, <3>1, <3>2
  <2>8. ASSUME NEW c \in Callers, SpireTrustRoots(c) PROVE Stands
    <3> DEFINE pc == IF localCA.cert = NoCert THEN "generate" ELSE "answer"
    <3>1. pc # "generate" /\ pc # "assign"
      OBVIOUS
    <3>2. Begin(c, pc, "roots", NoOpts) /\ localCA' = localCA
      BY <2>8, Zenon DEF SpireTrustRoots
    <3> HIDE DEF pc
    <3>3. QED BY <2>2, <3>1, <3>2
  <2>9. ASSUME NEW c \in Callers, SpireGenerate(c) PROVE FALSE
    BY <2>9 DEF SpireGenerate, InFirstUse
  <2>10. ASSUME NEW c \in Callers, NEW field \in Fields, SpireAssign(c, field) PROVE FALSE
    BY <2>10 DEF SpireAssign, InFirstUse
  <2>11. ASSUME NEW c \in Callers, SpireAnswer(c) PROVE Stands
    BY <2>3, <2>11, Zenon DEF SpireAnswer
  <2>12. ASSUME NEW c \in Callers, NEW opts \in Requests, VaultIssue(c, opts) PROVE Stands
    <3> DEFINE csr == GenerateCertificateSigningRequest(opts, drawn + 1)
               posted == [Idle EXCEPT !.pc = "post", !.opts = opts, !.own.key = csr.key]
               k == IF csr = NoCSR THEN Idle ELSE posted
    <3>1. calls' = [calls EXCEPT ![c] = k] /\ localCA' = localCA
      BY <2>12, Zenon DEF VaultIssue
    <3> HIDE DEF csr
    <3>2. posted.pc = "post" /\ Idle.pc = "idle"
      BY DEF Idle
    <3> HIDE DEF posted
    <3>3. k.pc \notin {"generate", "assign"}
      BY <3>2
    <3> HIDE DEF k
    <3>4. QED BY <2>1, <3>1, <3>3, Zenon
  <2>13. ASSUME NEW c \in Callers, VaultAnswer(c) PROVE Stands
    BY <2>3, <2>13, Zenon DEF VaultAnswer
  <2> HIDE DEF Stands, Settled
  <2>14. QED
    BY <2>4, <2>5, <2>6, <2>7, <2>8, <2>9, <2>10, <2>11, <2>12, <2>13, Zenon DEF CANext
<1>2. QED BY <1>1, CAInvariant, PTL DEF CASpec, SettledAuthorityStands

=============================================================================
