------------------------- MODULE ControlPlaneProofs -------------------------
(***************************************************************************)
(* What the parts an operator works with guarantee: peer rosters, for any  *)
(* number of daemons, relays, claims, keys and rosters, in any order; the  *)
(* registry, for any approvals, pins and partner links; and the tool that  *)
(* signs manifests, for any number of runs, cut short anywhere, and any    *)
(* key ids.                                                                *)
(***************************************************************************)
EXTENDS PeerRoster, ApprovalRegistry, ManifestSign, FiniteSetTheorems, WellFoundedInduction, TLAPS

-----------------------------------------------------------------------------
(* Rosters: the loop over the claims *)

\* A set of naturals that has 0, and the successor of each of its members, has
\* every natural.
LEMMA SetInduction ==
  ASSUME NEW S, 0 \in S, \A n \in Nat : n \in S => n + 1 \in S
  PROVE  Nat \subseteq S
<1>1. SUFFICES ASSUME Nat \ S # {} PROVE FALSE
  OBVIOUS
<1>2. PICK x \in Nat \ S : \A y \in Nat \ S : <<y, x>> \notin OpToRel(<, Nat)
  <2>1. Nat \ S \subseteq Nat
    OBVIOUS
  <2>2. QED BY <1>1, <2>1, WFMin, NatLessThanWellFounded, Zenon
<1>3. x # 0 /\ x - 1 \in Nat /\ x - 1 < x
  OBVIOUS
<1>4. x - 1 \in S
  BY <1>2, <1>3, Zenon DEF OpToRel
<1>5. (x - 1) + 1 = x
  BY <1>3
<1>6. QED BY <1>2, <1>3, <1>4, <1>5, Zenon

\* f follows the loop of Latest over the first n claims.
Follows(f, n, cs, tomb) ==
  f = [ i \in 0..n |-> IF i = 0 THEN <<>>
                       ELSE IF cs[i].key \in tomb THEN f[i - 1]
                       ELSE KeepFreshest(f[i - 1], cs[i]) ]

\* The loop of BuildFabricPeerRoster can be followed as far as one likes.
LEMMA LoopRuns ==
  ASSUME NEW cs, NEW tomb
  PROVE  \A n \in Nat : \E f : Follows(f, n, cs, tomb)
<1> DEFINE S == { n \in Nat : \E f : Follows(f, n, cs, tomb) }
<1>1. 0 \in S
  <2>1. Follows([i \in 0..0 |-> <<>>], 0, cs, tomb)
    BY DEF Follows
  <2>2. QED BY <2>1
<1>2. ASSUME NEW n \in Nat, n \in S PROVE n + 1 \in S
  <2>1. PICK f : Follows(f, n, cs, tomb)
    BY <1>2
  <2> DEFINE last == IF cs[n + 1].key \in tomb THEN f[n] ELSE KeepFreshest(f[n], cs[n + 1])
             g == [i \in 0..(n + 1) |-> IF i = n + 1 THEN last ELSE f[i]]
  <2>2. \A i \in 0..n : g[i] = f[i]
    OBVIOUS
  <2>3. \A i \in 0..n : f[i] = IF i = 0 THEN <<>>
                               ELSE IF cs[i].key \in tomb THEN f[i - 1]
                               ELSE KeepFreshest(f[i - 1], cs[i])
    BY <2>1 DEF Follows
  <2>4. ASSUME NEW i \in 0..(n + 1)
        PROVE  g[i] = IF i = 0 THEN <<>>
                      ELSE IF cs[i].key \in tomb THEN g[i - 1]
                      ELSE KeepFreshest(g[i - 1], cs[i])
    <3>1. CASE i = n + 1
      <4>1. g[i] = last /\ g[i - 1] = f[n] /\ i # 0
        BY <3>1
      <4>2. QED BY <3>1, <4>1
    <3>2. CASE i \in 0..n
      <4>1. i # 0 => i - 1 \in 0..n
        BY <3>2
      <4>2. g[i] = f[i] /\ (i # 0 => g[i - 1] = f[i - 1])
        BY <2>2, <3>2, <4>1
      <4> HIDE DEF g
      <4>3. QED BY <2>3, <3>2, <4>2
    <3>3. QED BY <3>1, <3>2
  <2>5. Follows(g, n + 1, cs, tomb)
    <3>1. g = [i \in 0..(n + 1) |-> g[i]]
      OBVIOUS
    <3> HIDE DEF g
    <3>2. QED BY <2>4, <3>1 DEF Follows
  <2>6. QED BY <2>5
<1>3. Nat \subseteq S
  BY <1>1, <1>2, SetInduction, Zenon
<1>4. QED BY <1>3

\* What Latest returns is the last value of a run of the loop.
LEMMA LatestFollows ==
  ASSUME NEW cs, Len(cs) \in Nat, NEW tomb
  PROVE  \E f : Follows(f, Len(cs), cs, tomb) /\ Latest(cs, tomb) = f[Len(cs)]
<1> DEFINE L == CHOOSE f : Follows(f, Len(cs), cs, tomb)
<1>1. Follows(L, Len(cs), cs, tomb)
  BY LoopRuns
<1>2. Latest(cs, tomb) = L[Len(cs)]
  BY Zenon DEF Latest, Follows
<1>3. QED BY <1>1, <1>2, Zenon

\* What the loop has in hand after the first n claims: one claim for every mesh
\* key that was registered and is not de-peered, and none of them is fresher.
Kept(latest, n, cs, tomb) ==
  /\ \A k \in DOMAIN latest :
       k \notin tomb /\ \E i \in 1..n : latest[k] = cs[i] /\ cs[i].key = k
  /\ \A i \in 1..n : cs[i].key \notin tomb =>
       cs[i].key \in DOMAIN latest /\ Newer(latest[cs[i].key], cs[i])

\* Times and proofs of the claims can be compared.
Comparable(cs) ==
  \A i \in 1..Len(cs) : cs[i].issued \in Int /\ Rank(cs[i].pop) \in Int

\* One iteration keeps the freshest claim of each key.
LEMMA KeepFreshestKeeps ==
  ASSUME NEW cs, Len(cs) \in Nat, Comparable(cs), NEW tomb, NEW n \in 1..Len(cs),
         NEW latest, Kept(latest, n - 1, cs, tomb), cs[n].key \notin tomb
  PROVE  Kept(KeepFreshest(latest, cs[n]), n, cs, tomb)
<1> DEFINE c == cs[n]
           next == KeepFreshest(latest, c)
<1>1. \A i \in 1..n : i = n \/ i \in 1..(n - 1)
  OBVIOUS
<1>2. \A i \in 1..n : cs[i].issued \in Int /\ Rank(cs[i].pop) \in Int
  BY DEF Comparable
<1>3. CASE c.key \in DOMAIN latest /\ Newer(latest[c.key], c)
  <2>1. next = latest
    BY <1>3 DEF KeepFreshest, Newer
  <2>2. QED BY <1>1, <1>3, <2>1 DEF Kept
<1>4. CASE ~(c.key \in DOMAIN latest /\ Newer(latest[c.key], c))
  <2>1. next = MapPut(latest, c.key, c)
    BY <1>4 DEF KeepFreshest, Newer
  <2>2. DOMAIN next = DOMAIN latest \cup {c.key} /\ next[c.key] = c
    BY <2>1 DEF MapPut
  <2>3. \A k \in DOMAIN latest : k # c.key => next[k] = latest[k]
    BY <2>1 DEF MapPut
  <2>4. ASSUME NEW k \in DOMAIN next
        PROVE  k \notin tomb /\ \E i \in 1..n : next[k] = cs[i] /\ cs[i].key = k
    BY <1>1, <2>2, <2>3, <2>4 DEF Kept
  <2>5. ASSUME NEW i \in 1..n, cs[i].key \notin tomb
        PROVE  cs[i].key \in DOMAIN next /\ Newer(next[cs[i].key], cs[i])
    <3>1. CASE i = n
      <4>1. Newer(c, c)
        BY <1>2 DEF Newer
      <4>2. QED BY <2>2, <3>1, <4>1
    <3>2. CASE i \in 1..(n - 1)
      <4>1. cs[i].key \in DOMAIN latest /\ Newer(latest[cs[i].key], cs[i])
        BY <2>5, <3>2 DEF Kept
      <4>2. CASE cs[i].key = c.key
        <5>1. PICK j \in 1..(n - 1) : latest[c.key] = cs[j]
          BY <4>1, <4>2 DEF Kept
        <5>2. ~Newer(cs[j], c) /\ Newer(cs[j], cs[i])
          BY <1>4, <4>1, <4>2, <5>1
        <5>3. Newer(c, cs[i])
          <6>1. i \in 1..n /\ j \in 1..n /\ n \in 1..n
            BY <1>1
          <6>2. /\ c.issued \in Int /\ Rank(c.pop) \in Int
                /\ cs[i].issued \in Int /\ Rank(cs[i].pop) \in Int
                /\ cs[j].issued \in Int /\ Rank(cs[j].pop) \in Int
            BY <1>2, <6>1, Zenon
          <6>3. QED BY <5>2, <6>2, SMTT(30) DEF Newer
        <5>4. QED BY <2>2, <4>2, <5>3
      <4>3. CASE cs[i].key # c.key
        BY <2>2, <2>3, <4>1, <4>3
      <4>4. QED BY <4>2, <4>3
    <3>3. QED BY <1>1, <3>1, <3>2
  <2>6. QED BY <2>4, <2>5 DEF Kept
<1>5. QED BY <1>3, <1>4

\* The whole loop does.
LEMMA LatestKeeps ==
  ASSUME NEW cs, Len(cs) \in Nat, Comparable(cs), NEW tomb
  PROVE  Kept(Latest(cs, tomb), Len(cs), cs, tomb)
<1>1. PICK f : Follows(f, Len(cs), cs, tomb) /\ Latest(cs, tomb) = f[Len(cs)]
  BY LatestFollows
<1> DEFINE S == { n \in Nat : n \in 0..Len(cs) => Kept(f[n], n, cs, tomb) }
<1>2. 0 \in S
  <2>1. f[0] = <<>>
    BY <1>1 DEF Follows
  <2>2. DOMAIN <<>> = {}
    OBVIOUS
  <2>3. Kept(f[0], 0, cs, tomb)
    BY <2>1, <2>2 DEF Kept
  <2>4. QED BY <2>3
<1>3. ASSUME NEW n \in Nat, n \in S PROVE n + 1 \in S
  <2>1. SUFFICES ASSUME n + 1 \in 0..Len(cs) PROVE Kept(f[n + 1], n + 1, cs, tomb)
    OBVIOUS
  <2>2. n + 1 \in 1..Len(cs) /\ n \in 0..Len(cs) /\ (n + 1) - 1 = n /\ n + 1 # 0
    BY <2>1
  <2>3. Kept(f[n], n, cs, tomb)
    BY <1>3, <2>2
  <2>4. f[n + 1] = IF cs[n + 1].key \in tomb THEN f[n] ELSE KeepFreshest(f[n], cs[n + 1])
    BY <1>1, <2>1, <2>2 DEF Follows
  <2>5. CASE cs[n + 1].key \in tomb
    <3>1. \A i \in 1..(n + 1) : i = n + 1 \/ i \in 1..n
      OBVIOUS
    <3>2. \A i \in 1..n : i \in 1..(n + 1)
      OBVIOUS
    <3>3. QED BY <2>3, <2>4, <2>5, <3>1, <3>2 DEF Kept
  <2>6. CASE cs[n + 1].key \notin tomb
    BY <2>2, <2>3, <2>4, <2>6, KeepFreshestKeeps
  <2>7. QED BY <2>5, <2>6
<1>4. Nat \subseteq S
  BY <1>2, <1>3, SetInduction, Zenon
<1>5. QED BY <1>1, <1>4

-----------------------------------------------------------------------------
(* Rosters: the inductive invariant *)

IsClaim(c) ==
  /\ c = [ key |-> c.key, wg |-> c.wg, ip |-> c.ip, name |-> c.name, issued |-> c.issued,
           pop |-> c.pop ]
  /\ c.issued \in Int

\* Claim c carries a proof of possession of key, for an identity.
ProvenBy(c, key, identity) ==
  c.pop = Ed25519Sign(key, meshRegistrationChallenge(identity, c))

\* A registration on its way: its proof binds it to the identity of the daemon
\* whose key signed it.
SentInv ==
  \A m \in sent :
    /\ IsClaim(m.claim) /\ m.claim.pop \in Proofs
    /\ ProvenBy(m.claim, m.daemon, Identity[m.daemon])

\* A claim the control plane keeps: it verified, with a proof a daemon made.
Vouched(c) ==
  /\ IsClaim(c)
  /\ \E d \in DOMAIN Identity : AsVerified(Identity[d], c)
  /\ \E m \in sent : m.claim.pop = c.pop

ClaimsInv ==
  /\ claims \in Seq(UNION { Carried(m.claim) : m \in sent })
  /\ \A i \in 1..Len(claims) : Vouched(claims[i])

\* What an entry of a roster rests on.
AttestedEntry(e) ==
  \E m \in sent : m.daemon = e.key /\ UpToSpelling(ToRosterEntry(m.claim)) = UpToSpelling(e)

IsRoster(r) ==
  r = [ epoch |-> r.epoch, issued |-> r.issued, notAfter |-> r.notAfter, entries |-> r.entries,
        tombstones |-> r.tombstones, signer |-> r.signer, sig |-> r.sig ]

\* Rosters that were signed: their epochs tell them apart.
PublishedInv ==
  /\ epoch \in Nat
  /\ \A r \in published :
       /\ IsRoster(r) /\ r.epoch \in 1..epoch
       /\ \E s \in Signers : s.id = r.signer
                             /\ r.sig = Ed25519Sign(s.key, peerRosterCanonicalBytes(r))
       /\ \A e \in r.entries : AttestedEntry(e)
       /\ \A q \in published : q.epoch = r.epoch => q = r

\* Rosters relays are on.
AppliedInv ==
  /\ applied = [d \in Relays |-> applied[d]]
  /\ \A d \in Relays : \A r \in applied[d] :
       /\ r \in published
       /\ \E s \in Signers : s.id = r.signer /\ s.id \in DOMAIN Trusted /\ s.key = Trusted[s.id]

RosterInv == nowMS \in Nat /\ SentInv /\ ClaimsInv /\ PublishedInv /\ AppliedInv

-----------------------------------------------------------------------------
(* What proofs of possession bind *)

\* Two claims with one proof are by one key, and equal but for the spelling of
\* the address.
LEMMA ProofBinds ==
  ASSUME NEW c, NEW d, NEW k, NEW l, NEW i, NEW j,
         ProvenBy(c, k, i), ProvenBy(d, l, j), c.pop = d.pop
  PROVE  k = l /\ UpToSpelling(ToRosterEntry(c)) = UpToSpelling(ToRosterEntry(d))
<1>1. k = l /\ meshRegistrationChallenge(i, c) = meshRegistrationChallenge(j, d)
  BY DEF ProvenBy, Ed25519Sign
<1>2. << i, c.key, c.wg, Canonical(c.ip), c.name, c.issued >>
        = << j, d.key, d.wg, Canonical(d.ip), d.name, d.issued >>
  BY <1>1 DEF meshRegistrationChallenge, Digest
<1>3. c.key = d.key /\ c.wg = d.wg /\ Canonical(c.ip) = Canonical(d.ip) /\ c.name = d.name
  BY <1>2
<1>4. ASSUME NEW x
      PROVE  UpToSpelling(ToRosterEntry(x))
               = [key |-> x.key, wg |-> x.wg, ip |-> Canonical(x.ip), name |-> x.name]
  BY DEF UpToSpelling, ToRosterEntry
<1>5. QED BY <1>1, <1>3, <1>4

\* A claim the control plane keeps is what the holder of its key declared.
LEMMA VouchedIsAttested ==
  ASSUME SentInv, NEW c, Vouched(c)
  PROVE  AttestedEntry(ToRosterEntry(c))
<1>1. PICK d \in DOMAIN Identity : AsVerified(Identity[d], c)
  BY DEF Vouched
<1>2. PICK m \in sent : m.claim.pop = c.pop
  BY DEF Vouched
<1>3. ProvenBy(c, c.key, Identity[d])
  BY <1>1 DEF ProvenBy, AsVerified, VerifyProofOfPossession
<1>4. ProvenBy(m.claim, m.daemon, Identity[m.daemon])
  BY DEF SentInv
<1>5. /\ m.daemon = c.key
      /\ UpToSpelling(ToRosterEntry(m.claim)) = UpToSpelling(ToRosterEntry(c))
  BY <1>2, <1>3, <1>4, ProofBinds
<1>6. ToRosterEntry(c).key = c.key
  BY DEF ToRosterEntry
<1>7. QED BY <1>5, <1>6 DEF AttestedEntry

\* Kept claims can be compared: their proofs are among those that are ordered.
LEMMA ClaimsAreComparable ==
  ASSUME SentInv, ClaimsInv
  PROVE  Len(claims) \in Nat /\ Comparable(claims)
<1>1. Len(claims) \in Nat
  BY DEF ClaimsInv
<1>2. ASSUME NEW i \in 1..Len(claims)
      PROVE  claims[i].issued \in Int /\ Rank(claims[i].pop) \in Int
  <2>1. Vouched(claims[i])
    BY DEF ClaimsInv
  <2>2. claims[i].pop \in Proofs
    BY <2>1 DEF Vouched, SentInv
  <2>3. QED BY <2>1, <2>2, RosterAssumption DEF Vouched, IsClaim
<1>3. QED BY <1>1, <1>2 DEF Comparable

\* A claim altered on its way is a claim, with the same proof.
LEMMA CarriedIsClaim ==
  ASSUME NEW c, IsClaim(c), NEW x \in Carried(c)
  PROVE  IsClaim(x) /\ x.pop = c.pop
BY DEF IsClaim, Carried

-----------------------------------------------------------------------------
(* Rosters: the steps *)

\* The invariant holds before anything is registered.
LEMMA RosterInitInv == RosterInit => RosterInv
<1>1. SUFFICES ASSUME RosterInit PROVE RosterInv
  OBVIOUS
<1>2. ClaimsInv
  BY <1>1 DEF RosterInit, ClaimsInv
<1>3. QED BY <1>1, <1>2 DEF RosterInit, RosterInv, SentInv, PublishedInv, AppliedInv

\* More registrations vouch for no less.
LEMMA MoreSent ==
  ASSUME ClaimsInv, PublishedInv, sent \subseteq sent', UNCHANGED <<claims, epoch, published>>
  PROVE  ClaimsInv' /\ PublishedInv'
<1>1. ASSUME NEW c, Vouched(c) PROVE Vouched(c)'
  BY <1>1 DEF Vouched
<1>2. ASSUME NEW e, AttestedEntry(e) PROVE AttestedEntry(e)'
  BY <1>2 DEF AttestedEntry
<1>3. claims' \in Seq(UNION { Carried(m.claim) : m \in sent' })
  BY DEF ClaimsInv
<1>4. ClaimsInv'
  BY <1>1, <1>3 DEF ClaimsInv
<1>5. PublishedInv'
  BY <1>2 DEF PublishedInv
<1>6. QED BY <1>4, <1>5

\* Signing a registration keeps the invariant.
LEMMA RegisterStep ==
  ASSUME RosterInv, NEW d \in DOMAIN Identity, NEW draft \in Drafts, Register(d, draft)
  PROVE  RosterInv'
<1>1. PICK c \in SignMeshRegistration(d, Identity[d], draft) :
        sent' = sent \cup {[daemon |-> d, claim |-> c]}
  BY DEF Register
<1>2. c = [draft EXCEPT !.pop = Ed25519Sign(d, meshRegistrationChallenge(Identity[d], draft))]
  BY DEF SignMeshRegistration
<1>3. draft \in [ key : Int, wg : Int, ip : Int \X Int, name : STRING, issued : Int, pop : {NoPoP} ]
  BY RosterAssumption
<1>4. /\ c = [ key |-> draft.key, wg |-> draft.wg, ip |-> draft.ip, name |-> draft.name,
               issued |-> draft.issued, pop |-> c.pop ]
      /\ c.pop = Ed25519Sign(d, meshRegistrationChallenge(Identity[d], draft))
  BY <1>2, <1>3
<1>5. IsClaim(c)
  BY <1>3, <1>4 DEF IsClaim
<1>6. meshRegistrationChallenge(Identity[d], c) = meshRegistrationChallenge(Identity[d], draft)
  BY <1>4 DEF meshRegistrationChallenge
<1>7. c.pop \in Proofs
  BY DEF Proofs
<1>8. SentInv'
  BY <1>1, <1>4, <1>5, <1>6, <1>7 DEF RosterInv, SentInv, ProvenBy
<1>9. ClaimsInv' /\ PublishedInv'
  BY <1>1, MoreSent DEF RosterInv, Register
<1>10. QED BY <1>8, <1>9 DEF RosterInv, AppliedInv, Register

\* Accepting a claim that verifies, altered on its way or not, keeps the invariant.
LEMMA AcceptStep ==
  ASSUME RosterInv, NEW d \in DOMAIN Identity, NEW m \in sent, NEW c, Accept(d, m, c)
  PROVE  RosterInv'
<1>1. IsClaim(c) /\ m.claim.pop = c.pop
  <2>1. IsClaim(m.claim) /\ c \in Carried(m.claim)
    BY DEF RosterInv, SentInv, Accept
  <2>2. QED BY <2>1, CarriedIsClaim
<1>2. Vouched(c)
  BY <1>1 DEF Vouched, Accept
<1> DEFINE S == UNION { Carried(x.claim) : x \in sent }
<1>3. claims \in Seq(S) /\ c \in S /\ claims' = Append(claims, c)
  BY DEF RosterInv, ClaimsInv, Accept
<1> HIDE DEF S
<1>4. /\ claims' \in Seq(S) /\ Len(claims') = Len(claims) + 1
      /\ \A i \in 1..Len(claims') : claims'[i] = IF i = Len(claims) + 1 THEN c ELSE claims[i]
  BY <1>3
<1>5. \A i \in 1..Len(claims') : i = Len(claims) + 1 \/ i \in 1..Len(claims)
  BY <1>3, <1>4
<1>6. ASSUME NEW i \in 1..Len(claims') PROVE Vouched(claims[i])'
  <2>1. CASE i = Len(claims) + 1
    <3>1. claims'[i] = c
      BY <1>4, <1>6, <2>1
    <3>2. QED BY <1>2, <3>1 DEF Vouched, Accept
  <2>2. CASE i \in 1..Len(claims)
    <3>1. claims'[i] = claims[i]
      BY <1>3, <1>4, <1>6, <2>2
    <3>2. Vouched(claims[i])
      BY <2>2 DEF RosterInv, ClaimsInv
    <3>3. QED BY <3>1, <3>2 DEF Vouched, Accept
  <2>3. QED BY <1>5, <1>6, <2>1, <2>2
<1>7. claims' \in Seq(UNION { Carried(x.claim) : x \in sent' })
  BY <1>4 DEF S, Accept
<1>8. ClaimsInv'
  BY <1>6, <1>7 DEF ClaimsInv
<1>9. QED BY <1>8 DEF RosterInv, SentInv, PublishedInv, AppliedInv, AttestedEntry, Accept

\* The entries of an assembled roster are those of kept claims.
LEMMA EntriesAreOfClaims ==
  ASSUME SentInv, ClaimsInv, NEW tomb, NEW k \in DOMAIN Latest(claims, tomb)
  PROVE  LET c == Latest(claims, tomb)[k] IN Vouched(c) /\ c.key = k /\ k \notin tomb
<1>1. Kept(Latest(claims, tomb), Len(claims), claims, tomb)
  BY ClaimsAreComparable, LatestKeeps
<1>2. PICK i \in 1..Len(claims) : Latest(claims, tomb)[k] = claims[i] /\ claims[i].key = k
  BY <1>1 DEF Kept
<1>3. Vouched(claims[i])
  BY DEF ClaimsInv
<1>4. QED BY <1>1, <1>2, <1>3 DEF Kept

\* A signed roster is the one that was assembled, with its signer and signature.
LEMMA SignedRoster ==
  ASSUME NEW r, IsRoster(r), NEW id, NEW key
  PROVE  LET q == SignFabricPeerRoster(id, key, r) IN
         /\ IsRoster(q) /\ q.epoch = r.epoch /\ q.entries = r.entries /\ q.signer = id
         /\ q.issued = r.issued /\ q.notAfter = r.notAfter /\ q.tombstones = r.tombstones
         /\ q.sig = Ed25519Sign(key, peerRosterCanonicalBytes(q))
<1> DEFINE st == [r EXCEPT !.signer = id]
           q == SignFabricPeerRoster(id, key, r)
<1>1. /\ IsRoster(st) /\ st.epoch = r.epoch /\ st.entries = r.entries /\ st.signer = id
      /\ st.issued = r.issued /\ st.notAfter = r.notAfter /\ st.tombstones = r.tombstones
  BY DEF IsRoster
<1>2. q = [st EXCEPT !.sig = Ed25519Sign(key, peerRosterCanonicalBytes(st))]
  BY DEF SignFabricPeerRoster
<1> HIDE DEF st, q
<1>3. /\ IsRoster(q) /\ q.epoch = st.epoch /\ q.entries = st.entries /\ q.signer = st.signer
      /\ q.issued = st.issued /\ q.notAfter = st.notAfter /\ q.tombstones = st.tombstones
      /\ q.sig = Ed25519Sign(key, peerRosterCanonicalBytes(st))
  BY <1>1, <1>2 DEF IsRoster
<1>4. [q EXCEPT !.sig = NoSig] = [st EXCEPT !.sig = NoSig]
  BY <1>1, <1>2, Zenon DEF IsRoster
<1>5. peerRosterCanonicalBytes(q) = peerRosterCanonicalBytes(st)
  BY <1>4 DEF peerRosterCanonicalBytes
<1>6. QED BY <1>1, <1>3, <1>5 DEF q

\* Assembling and signing a roster keeps the invariant.
LEMMA AssembleStep ==
  ASSUME RosterInv, NEW tombs \in TombstoneInputs, NEW ttl \in TTLs, NEW s \in Signers,
         Assemble(tombs, ttl, s)
  PROVE  RosterInv'
<1>1. PICK r \in BuildFabricPeerRoster(epoch + 1, nowMS, ttl, claims, tombs) :
        published' = published \cup {SignFabricPeerRoster(s.id, s.key, r)}
  BY DEF Assemble
<1> DEFINE latest == Latest(claims, Range(tombs))
           q == SignFabricPeerRoster(s.id, s.key, r)
<1>2. /\ IsRoster(r) /\ r.epoch = epoch + 1
      /\ r.entries = { ToRosterEntry(latest[k]) : k \in DOMAIN latest }
  <2>1. r = [ epoch |-> epoch + 1, issued |-> nowMS, notAfter |-> NotAfter(nowMS, ttl),
              entries |-> { ToRosterEntry(latest[k]) : k \in DOMAIN latest },
              tombstones |-> Range(tombs), signer |-> "", sig |-> NoSig ]
    BY Zenon DEF BuildFabricPeerRoster
  <2>2. QED BY <2>1, Zenon DEF IsRoster
<1>3. /\ IsRoster(q) /\ q.epoch = epoch + 1 /\ q.entries = r.entries /\ q.signer = s.id
      /\ q.sig = Ed25519Sign(s.key, peerRosterCanonicalBytes(q))
  BY <1>2, SignedRoster
<1>4. ASSUME NEW k \in DOMAIN latest PROVE AttestedEntry(ToRosterEntry(latest[k]))
  BY EntriesAreOfClaims, VouchedIsAttested, Zenon DEF RosterInv
<1>5. \A e \in q.entries : AttestedEntry(e)
  BY <1>2, <1>3, <1>4
<1> HIDE DEF latest, q
<1>6. epoch' = epoch + 1 /\ published' = published \cup {q} /\ sent' = sent
  BY <1>1, Zenon DEF Assemble, q
<1>7. ASSUME NEW x \in published'
      PROVE  /\ IsRoster(x) /\ x.epoch \in 1..epoch'
             /\ \E z \in Signers : z.id = x.signer
                                   /\ x.sig = Ed25519Sign(z.key, peerRosterCanonicalBytes(x))
             /\ \A e \in x.entries : AttestedEntry(e)
             /\ \A y \in published' : y.epoch = x.epoch => y = x
  <2>1. ASSUME NEW z \in published PROVE z.epoch \in 1..epoch
    BY Zenon DEF RosterInv, PublishedInv
  <2>2. epoch \in Nat
    BY Zenon DEF RosterInv, PublishedInv
  <2>3. CASE x \in published
    <3>1. x.epoch \in 1..epoch' /\ x.epoch # q.epoch
      BY <1>3, <1>6, <2>1, <2>3, <2>2
    <3>2. QED BY <1>6, <2>3, <3>1, Zenon DEF RosterInv, PublishedInv
  <2>4. CASE x = q
    <3>1. x.epoch \in 1..epoch' /\ \A y \in published : y.epoch # x.epoch
      BY <1>3, <1>6, <2>1, <2>4, <2>2, SMTT(30)
    <3>2. QED BY <1>3, <1>5, <1>6, <2>4, <3>1, Zenon
  <2>5. QED BY <1>6, <1>7, <2>3, <2>4, Zenon
<1>8. PublishedInv'
  BY <1>6, <1>7 DEF RosterInv, PublishedInv, AttestedEntry
<1>9. QED BY <1>6, <1>8 DEF RosterInv, SentInv, ClaimsInv, Vouched, AppliedInv, Assemble

\* A relay that verifies a roster has it as it was signed: nothing about it can
\* be altered on its way.
LEMMA VerifiedIsPublished ==
  ASSUME PublishedInv, NEW p \in published, NEW r \in Delivered(p), VerifyRoster(r)
  PROVE  /\ r = p
         /\ \E s \in Signers : s.id = r.signer /\ s.id \in DOMAIN Trusted /\ s.key = Trusted[s.id]
<1>1. PICK s \in Signers : s.id = p.signer /\ p.sig = Ed25519Sign(s.key, peerRosterCanonicalBytes(p))
  BY DEF PublishedInv
<1>2. IsRoster(p)
  BY DEF PublishedInv
<1>3. IsRoster(r) /\ r.sig = p.sig
  BY <1>2 DEF Delivered, IsRoster
<1>4. /\ r.signer \in DOMAIN Trusted
      /\ r.sig = Ed25519Sign(Trusted[r.signer], peerRosterCanonicalBytes(r))
  BY DEF VerifyRoster
<1>5. s.key = Trusted[r.signer] /\ peerRosterCanonicalBytes(p) = peerRosterCanonicalBytes(r)
  BY <1>1, <1>3, <1>4 DEF Ed25519Sign
<1>6. [p EXCEPT !.sig = NoSig] = [r EXCEPT !.sig = NoSig]
  BY <1>5 DEF peerRosterCanonicalBytes, Digest
<1>7. r = p
  <2> DEFINE bare(x) == [x EXCEPT !.sig = NoSig]
  <2>1. ASSUME NEW x, IsRoster(x)
        PROVE  /\ bare(x).epoch = x.epoch /\ bare(x).issued = x.issued
               /\ bare(x).notAfter = x.notAfter /\ bare(x).entries = x.entries
               /\ bare(x).tombstones = x.tombstones /\ bare(x).signer = x.signer
    BY <2>1 DEF IsRoster
  <2> HIDE DEF bare
  <2>2. /\ r.epoch = p.epoch /\ r.issued = p.issued /\ r.notAfter = p.notAfter
        /\ r.entries = p.entries /\ r.tombstones = p.tombstones /\ r.signer = p.signer
    <3>1. bare(p) = bare(r)
      BY <1>6, SMTT(30) DEF bare
    <3>2. QED BY <1>2, <1>3, <2>1, <3>1
  <2>3. QED BY <1>2, <1>3, <2>2 DEF IsRoster
<1>8. QED BY <1>1, <1>4, <1>5, <1>7

\* Pulling a roster, altered on its way or not, keeps the invariant.
LEMMA PullStep ==
  ASSUME RosterInv, NEW d \in Relays, NEW p \in published, NEW r \in Delivered(p), Pull(d, r)
  PROVE  RosterInv'
<1>1. /\ r = p
      /\ \E s \in Signers : s.id = r.signer /\ s.id \in DOMAIN Trusted /\ s.key = Trusted[s.id]
  BY VerifiedIsPublished DEF RosterInv, Pull
<1>2. /\ applied' = [x \in Relays |-> applied'[x]]
      /\ \A x \in Relays : applied'[x] = IF x = d THEN {r} ELSE applied[x]
  BY DEF RosterInv, AppliedInv, Pull
<1>3. AppliedInv'
  BY <1>1, <1>2 DEF RosterInv, AppliedInv, Pull
<1>4. QED BY <1>3, Zenon DEF RosterInv, SentInv, ClaimsInv, Vouched, PublishedInv, AttestedEntry, Pull

\* Every step preserves the invariant.
LEMMA RosterStep == RosterInv /\ [RosterNext]_rosterVars => RosterInv'
<1>1. SUFFICES ASSUME RosterInv, [RosterNext]_rosterVars PROVE RosterInv'
  OBVIOUS
<1>2. ASSUME NEW d \in DOMAIN Identity, NEW draft \in Drafts, Register(d, draft) PROVE RosterInv'
  BY <1>1, <1>2, RegisterStep
<1>3. ASSUME NEW d \in DOMAIN Identity, NEW m \in sent, NEW c \in Carried(m.claim), Accept(d, m, c)
      PROVE  RosterInv'
  BY <1>1, <1>3, AcceptStep
<1>4. ASSUME NEW tombs \in TombstoneInputs, NEW ttl \in TTLs, NEW s \in Signers,
             Assemble(tombs, ttl, s)
      PROVE  RosterInv'
  BY <1>1, <1>4, AssembleStep
<1>5. ASSUME NEW d \in Relays, NEW p \in published, NEW r \in Delivered(p), Pull(d, r)
      PROVE  RosterInv'
  BY <1>1, <1>5, PullStep
<1>6. CASE Tick \/ UNCHANGED rosterVars
  BY <1>1, <1>6 DEF RosterInv, SentInv, ClaimsInv, Vouched, PublishedInv, AppliedInv,
                    AttestedEntry, Tick, rosterVars
<1>7. QED BY <1>1, <1>2, <1>3, <1>4, <1>5, <1>6 DEF RosterNext

\* The invariant always holds.
LEMMA RosterInvHolds == RosterSpec => []RosterInv
<1>1. QED BY RosterInitInv, RosterStep, PTL DEF RosterSpec

-----------------------------------------------------------------------------
(* Rosters: what the invariant gives *)

\* Relays that are on one epoch are on one roster, which the control plane
\* signed with a trusted key, whatever was altered on the way and in whatever
\* order rosters were pulled.
THEOREM RelaysAgreeAlways == RosterSpec => []RelaysAgree
<1>1. RosterInv => RelaysAgree
  BY DEF RosterInv, PublishedInv, AppliedInv, RelaysAgree
<1>2. QED BY <1>1, RosterInvHolds, PTL

\* What a relay peers with is what the holder of that mesh key declared under
\* its own identity: proof of possession, assembly and signature together let
\* nothing else into a roster that is applied.
THEOREM EntriesAreAttestedAlways == RosterSpec => []EntriesAreAttested
<1>1. RosterInv => EntriesAreAttested
  BY DEF RosterInv, PublishedInv, AppliedInv, AttestedEntry, EntriesAreAttested
<1>2. QED BY <1>1, RosterInvHolds, PTL

\* BuildFabricPeerRoster never fails on verified claims: what it assembles from
\* any of them, with any well-formed tombstones, passes Validate.
THEOREM VerifiedClaimsAssembleAlways == RosterSpec => []VerifiedClaimsAssemble
<1>1. ASSUME RosterInv PROVE VerifiedClaimsAssemble
  <2>1. SUFFICES ASSUME NEW tombs \in TombstoneInputs, NEW ttl \in TTLs,
                        nowMS > 0, ttl > 0, nowMS + ttl <= MaxInt, 0 \notin Range(tombs)
                 PROVE  BuildFabricPeerRoster(epoch + 1, nowMS, ttl, claims, tombs) # {}
    BY Zenon DEF VerifiedClaimsAssemble
  <2> DEFINE latest == Latest(claims, Range(tombs))
             r == [ epoch |-> epoch + 1, issued |-> nowMS, notAfter |-> NotAfter(nowMS, ttl),
                    entries |-> { ToRosterEntry(latest[k]) : k \in DOMAIN latest },
                    tombstones |-> Range(tombs), signer |-> "", sig |-> NoSig ]
  <2>2. ASSUME NEW k \in DOMAIN latest
        PROVE  /\ ToRosterEntry(latest[k]).key = k /\ k \notin Range(tombs) /\ k # 0
               /\ ToRosterEntry(latest[k]).wg # 0 /\ IsAddress(ToRosterEntry(latest[k]).ip)
    <3>1. Vouched(latest[k]) /\ latest[k].key = k /\ k \notin Range(tombs)
      BY <1>1, EntriesAreOfClaims, SMTT(30) DEF RosterInv
    <3>2. ValidClaim(latest[k])
      BY <3>1, SMTT(30) DEF Vouched, AsVerified
    <3>3. QED BY <3>1, <3>2 DEF ValidClaim, ToRosterEntry
  <2> HIDE DEF latest
  <2>3. ValidRoster(r)
    <3>1. r.epoch >= 1
      <4>1. epoch \in Nat
        BY <1>1, Zenon DEF RosterInv, PublishedInv
      <4>2. r.epoch = epoch + 1
        BY Zenon
      <4> HIDE DEF r
      <4>3. QED BY <4>1, <4>2
    <3>2. r.entries = { ToRosterEntry(latest[k]) : k \in DOMAIN latest } /\ r.tombstones = Range(tombs)
      BY SMTT(30)
    <3> HIDE DEF r
    <3>3. ASSUME NEW e \in r.entries
          PROVE  /\ e.key # 0 /\ e.wg # 0 /\ IsAddress(e.ip) /\ e.key \notin Range(tombs)
                 /\ e = ToRosterEntry(latest[e.key])
      BY <2>2, <3>2, <3>3
    <3>4. \A t \in r.tombstones : t # 0
      BY <2>1, <3>2
    <3>5. QED BY <3>1, <3>2, <3>3, <3>4 DEF ValidRoster
  <2>4. ~(nowMS <= 0 \/ ttl <= 0 \/ ttl > MaxInt - nowMS)
    BY <1>1, <2>1, RosterAssumption DEF RosterInv
  <2>5. BuildFabricPeerRoster(epoch + 1, nowMS, ttl, claims, tombs) = {r}
    BY <2>3, <2>4, Zenon DEF BuildFabricPeerRoster, RefusedLifetime, latest
  <2>6. QED BY <2>5, Zenon
<1>2. QED BY <1>1, RosterInvHolds, PTL

\* A lifetime that is not refused ends where the exact sum says.
LEMMA LifetimeEnds ==
  ASSUME NEW issued \in Int, NEW ttl \in Int, ~RefusedLifetime(issued, ttl)
  PROVE  issued > 0 /\ ttl > 0 /\ NotAfter(issued, ttl) = issued + ttl
<1>1. MaxInt \in Nat /\ issued > 0 /\ ttl > 0 /\ issued + ttl <= MaxInt
  BY RosterAssumption DEF RefusedLifetime
<1> DEFINE x == issued + ttl + MaxInt + 1
           n == 2 * (MaxInt + 1)
<1>2. x \in Nat /\ n \in Nat /\ n > 0 /\ x < n /\ x - (MaxInt + 1) = issued + ttl
  BY <1>1
<1>3. NotAfter(issued, ttl) = (x % n) - (MaxInt + 1)
  BY Zenon DEF NotAfter
<1> HIDE DEF x, n
<1>4. x % n = x
  BY <1>2, SMTT(30)
<1>5. QED BY <1>1, <1>2, <1>3, <1>4

\* What a published roster says of its own life.
Lasts(r) ==
  /\ r.issued > 0 /\ ValidRoster(r)
  /\ \E ttl \in TTLs : ttl > 0 /\ r.notAfter = r.issued + ttl

LastsInv == \A r \in published : r.issued \in Int /\ Lasts(r)

\* Assembly and signature give every published roster its lifetime.
LEMMA LastsAlways == RosterSpec => []LastsInv
<1>1. RosterInit => LastsInv
  BY DEF RosterInit, LastsInv
<1>2. ASSUME RosterInv, LastsInv, [RosterNext]_rosterVars PROVE LastsInv'
  <2>1. ASSUME NEW tombs \in TombstoneInputs, NEW ttl \in TTLs, NEW s \in Signers,
               Assemble(tombs, ttl, s)
        PROVE  LastsInv'
    <3>1. PICK r \in BuildFabricPeerRoster(epoch + 1, nowMS, ttl, claims, tombs) :
            published' = published \cup {SignFabricPeerRoster(s.id, s.key, r)}
      BY <2>1, Zenon DEF Assemble
    <3> DEFINE latest == Latest(claims, Range(tombs))
               q == SignFabricPeerRoster(s.id, s.key, r)
               b == [ epoch |-> epoch + 1, issued |-> nowMS, notAfter |-> NotAfter(nowMS, ttl),
                      entries |-> { ToRosterEntry(latest[k]) : k \in DOMAIN latest },
                      tombstones |-> Range(tombs), signer |-> "", sig |-> NoSig ]
    <3>2. r = b /\ ~RefusedLifetime(nowMS, ttl) /\ ValidRoster(r)
      BY Zenon DEF BuildFabricPeerRoster
    <3>3. IsRoster(r) /\ r.issued = nowMS /\ r.notAfter = NotAfter(nowMS, ttl)
      BY <3>2, Zenon DEF IsRoster
    <3> HIDE DEF b, q
    <3>4. /\ q.epoch = r.epoch /\ q.entries = r.entries /\ q.tombstones = r.tombstones
          /\ q.issued = r.issued /\ q.notAfter = r.notAfter
      BY <3>3, SignedRoster, SMTT(30) DEF q
    <3>5. ValidRoster(q)
      BY <3>2, <3>4, Zenon DEF ValidRoster
    <3>6. nowMS \in Int /\ ttl \in Int
      BY <1>2, RosterAssumption DEF RosterInv
    <3>7. nowMS > 0 /\ ttl > 0 /\ NotAfter(nowMS, ttl) = nowMS + ttl
      BY <3>2, <3>6, LifetimeEnds, Zenon
    <3>8. q.issued \in Int /\ Lasts(q)
      BY <3>3, <3>4, <3>5, <3>6, <3>7, Zenon DEF Lasts
    <3>9. QED BY <1>2, <3>1, <3>8, Zenon DEF LastsInv, Lasts, ValidRoster, q
  <2>2. CASE published' = published
    BY <1>2, <2>2, Zenon DEF LastsInv, Lasts, ValidRoster
  <2>3. QED
    BY <1>2, <2>1, <2>2, Zenon DEF RosterNext, Register, Accept, Pull, Tick, rosterVars
<1>3. QED BY <1>1, <1>2, RosterInvHolds, PTL DEF RosterSpec

\* A roster signed with a trusted key lives exactly as long as was asked: in that
\* time every relay can take it, unaltered, and from its end on none can.
THEOREM RostersLiveAsAskedAlways == RosterSpec => []RostersLiveAsAsked
<1>1. ASSUME RosterInv, LastsInv PROVE RostersLiveAsAsked
  <2>1. SUFFICES ASSUME NEW r \in published,
                        r.signer \in DOMAIN Trusted, r.sig.by = Trusted[r.signer]
        PROVE  \E ttl \in TTLs :
                 /\ ttl > 0 /\ r.notAfter = r.issued + ttl
                 /\ \A q \in Delivered(r) :
                      VerifyRoster(q) /\ ValidRoster(q) <=> q = r /\ nowMS < r.issued + ttl
    BY Zenon DEF RostersLiveAsAsked
  <2>2. PICK ttl \in TTLs : ttl > 0 /\ r.notAfter = r.issued + ttl
    BY <1>1, Zenon DEF LastsInv, Lasts
  <2>3. r.issued \in Int /\ r.issued > 0 /\ ValidRoster(r) /\ ttl \in Int /\ r.notAfter # 0
    BY <1>1, <2>2, RosterAssumption DEF LastsInv, Lasts
  <2>4. r.sig = Ed25519Sign(Trusted[r.signer], peerRosterCanonicalBytes(r))
    <3>1. PICK s \in Signers : r.sig = Ed25519Sign(s.key, peerRosterCanonicalBytes(r))
      BY <1>1, Zenon DEF RosterInv, PublishedInv
    <3>2. r.sig.by = s.key
      BY <3>1 DEF Ed25519Sign
    <3>3. QED BY <2>1, <3>1, <3>2, Zenon
  <2>5. VerifyRoster(r) <=> nowMS < r.issued + ttl
    BY <2>1, <2>2, <2>3, <2>4, Zenon DEF VerifyRoster
  <2>6. ASSUME NEW q \in Delivered(r)
        PROVE  VerifyRoster(q) /\ ValidRoster(q) <=> q = r /\ nowMS < r.issued + ttl
    <3>1. VerifyRoster(q) => q = r
      BY <1>1, VerifiedIsPublished, Zenon DEF RosterInv
    <3>2. QED BY <2>3, <2>5, <3>1, Zenon
  <2>7. QED BY <2>2, <2>6, Zenon
<1>2. QED BY <1>1, RosterInvHolds, LastsAlways, PTL

\* Two claims of one key that are each as fresh as the other have one entry, up
\* to the spelling of the address: a tie of times and of proofs is one proof.
LEMMA TiesAreEqual ==
  ASSUME SentInv, NEW c, NEW d, Vouched(c), Vouched(d), Newer(c, d), Newer(d, c)
  PROVE  UpToSpelling(ToRosterEntry(c)) = UpToSpelling(ToRosterEntry(d))
<1>1. c.issued \in Int /\ d.issued \in Int /\ c.pop \in Proofs /\ d.pop \in Proofs
  BY Zenon DEF Vouched, IsClaim, SentInv
<1>2. Rank(c.pop) \in Int /\ Rank(d.pop) \in Int /\ (Rank(c.pop) = Rank(d.pop) => c.pop = d.pop)
  BY <1>1, RosterAssumption
<1>3. c.pop = d.pop
  BY <1>1, <1>2 DEF Newer
<1>4. PICK i \in DOMAIN Identity : AsVerified(Identity[i], c)
  BY DEF Vouched
<1>5. PICK j \in DOMAIN Identity : AsVerified(Identity[j], d)
  BY DEF Vouched
<1>6. ProvenBy(c, c.key, Identity[i]) /\ ProvenBy(d, d.key, Identity[j])
  BY <1>4, <1>5 DEF ProvenBy, AsVerified, VerifyProofOfPossession
<1>7. QED BY <1>3, <1>6, ProofBinds

\* In whatever order verified registrations came, the roster has one entry for
\* every key that was registered and not de-peered, that of its freshest
\* registration: the loop of BuildFabricPeerRoster computes what a definition
\* without order says.
THEOREM FreshestClaimsWinAlways == RosterSpec => []FreshestClaimsWin
<1>1. ASSUME RosterInv PROVE FreshestClaimsWin
  <2>1. SUFFICES ASSUME NEW tombs \in TombstoneInputs
                 PROVE  LET latest == Latest(claims, Range(tombs))
                            live == { c \in Range(claims) : c.key \notin Range(tombs) }
                        IN  /\ DOMAIN latest = { c.key : c \in live }
                            /\ { UpToSpelling(ToRosterEntry(latest[k])) : k \in DOMAIN latest }
                                 = { UpToSpelling(ToRosterEntry(c)) :
                                       c \in { x \in live : \A y \in live : y.key = x.key => Newer(x, y) } }
    BY Zenon DEF FreshestClaimsWin
  <2> DEFINE tomb == Range(tombs)
             latest == Latest(claims, tomb)
             live == { c \in Range(claims) : c.key \notin tomb }
             best == { x \in live : \A y \in live : y.key = x.key => Newer(x, y) }
             Entry(c) == UpToSpelling(ToRosterEntry(c))
  <2>2. Kept(latest, Len(claims), claims, tomb)
    BY <1>1, ClaimsAreComparable, LatestKeeps DEF RosterInv
  <2>3. Range(claims) = { claims[i] : i \in 1..Len(claims) }
    BY <1>1 DEF RosterInv, ClaimsInv, Range
  <2>4. \A c \in Range(claims) : Vouched(c)
    BY <1>1, <2>3 DEF RosterInv, ClaimsInv
  <2> HIDE DEF tomb, latest
  <2>5. \A k \in DOMAIN latest : latest[k] \in live /\ latest[k].key = k
    BY <2>2, <2>3 DEF Kept
  <2>6. \A c \in live : c.key \in DOMAIN latest /\ Newer(latest[c.key], c)
    BY <2>2, <2>3 DEF Kept
  <2>7. DOMAIN latest = { c.key : c \in live }
    BY <2>5, <2>6, Zenon
  <2>8. ASSUME NEW k \in DOMAIN latest PROVE latest[k] \in best
    BY <2>5, <2>6
  <2>9. ASSUME NEW x \in best PROVE Entry(x) = Entry(latest[x.key])
    <3>1. x \in live /\ latest[x.key] \in live /\ latest[x.key].key = x.key
      BY <2>5, <2>6
    <3>2. Newer(x, latest[x.key]) /\ Newer(latest[x.key], x)
      BY <2>6, <3>1
    <3>3. Vouched(x) /\ Vouched(latest[x.key])
      BY <2>4, <3>1
    <3>4. QED BY <1>1, <3>2, <3>3, TiesAreEqual DEF RosterInv
  <2>10. \A x \in best : x.key \in DOMAIN latest
    BY <2>6
  <2> HIDE DEF best, live, Entry
  <2>11. { Entry(latest[k]) : k \in DOMAIN latest } = { Entry(c) : c \in best }
    BY <2>8, <2>9, <2>10
  <2>12. QED BY <2>7, <2>11, Zenon DEF best, live, Entry, latest, tomb
<1>2. QED BY <1>1, RosterInvHolds, PTL

-----------------------------------------------------------------------------
(* The registry *)

\* Records are filed under their manifest hash.
FiledByHash == \A h \in DOMAIN records : records[h].hash = h

\* PutApproval files the record it is given under the hash it names.
LEMMA FiledByHashAlways == RegistrySpec => []FiledByHash
<1>1. RegistryInit => FiledByHash
  BY DEF RegistryInit, FiledByHash
<1>2. ASSUME FiledByHash, [RegistryNext]_registryVars
      PROVE  FiledByHash'
  <2>1. CASE UNCHANGED records
    BY <1>2, <2>1, Zenon DEF FiledByHash
  <2>2. ASSUME NEW rec \in ApprovalInputs, PutApproval(rec)
        PROVE  FiledByHash'
    <3>1. PICK r : records' = MapPut(records, r.hash, r)
      BY <2>2, Zenon DEF PutApproval
    <3>2. SUFFICES ASSUME NEW h \in DOMAIN records' PROVE records'[h].hash = h
      BY Zenon DEF FiledByHash
    <3>3. CASE h = r.hash
      BY <3>1, <3>3 DEF MapPut
    <3>4. CASE h # r.hash
      <4>1. h \in DOMAIN records /\ records'[h] = records[h]
        BY <3>1, <3>2, <3>4 DEF MapPut
      <4>2. QED BY <1>2, <4>1, Zenon DEF FiledByHash
    <3>5. QED BY <3>3, <3>4
  <2>3. QED BY <1>2, <2>1, <2>2, Zenon DEF RegistryNext, registryVars, Pin, PutPin
<1>3. QED BY <1>1, <1>2, PTL DEF RegistrySpec

\* Pins are filed under their own tenant, link and catalog.
FiledByKey == \A k \in DOMAIN pins : k = pinKey(pins[k].tenant, pins[k].link, pins[k].catalog)

\* A pin is put under its own key, and only what is put changes.
LEMMA PinIsFiled ==
  ASSUME FiledByKey, NEW p, NEW key, key = pinKey(p.tenant, p.link, p.catalog),
         pins' = MapPut(pins, key, p)
  PROVE  FiledByKey'
<1>1. SUFFICES ASSUME NEW k \in DOMAIN pins'
      PROVE  k = pinKey(pins'[k].tenant, pins'[k].link, pins'[k].catalog)
  BY Zenon DEF FiledByKey
<1>2. CASE k = key
  <2>1. pins'[k] = p
    BY <1>2 DEF MapPut
  <2>2. QED BY <1>2, <2>1, Zenon
<1>3. CASE k # key
  <2>1. k \in DOMAIN pins /\ pins'[k] = pins[k]
    BY <1>1, <1>3 DEF MapPut
  <2>2. QED BY <2>1, Zenon DEF FiledByKey
<1>4. QED BY <1>2, <1>3

\* What Pin stores is the call's input, beside what it adds.
LEMMA NewPinKeepsInput ==
  ASSUME NEW in
  PROVE  /\ NewPin(in).tenant = in.tenant
         /\ NewPin(in).link = in.link
         /\ NewPin(in).catalog = in.catalog
BY DEF NewPin

\* Pin and PutPin file a pin under its own key, whatever was there before.
LEMMA FiledByKeyAlways == RegistrySpec => []FiledByKey
<1>1. RegistryInit => FiledByKey
  BY DEF RegistryInit, FiledByKey
<1>2. ASSUME FiledByKey, [RegistryNext]_registryVars
      PROVE  FiledByKey'
  <2>1. CASE UNCHANGED pins
    BY <1>2, <2>1, Zenon DEF FiledByKey
  <2>2. ASSUME NEW in \in PinInputs, Pin(in) PROVE FiledByKey'
    <3>1. pins' = MapPut(pins, pinKey(NewPin(in).tenant, NewPin(in).link, NewPin(in).catalog),
                         NewPin(in))
      BY <2>2, NewPinKeepsInput, Zenon DEF Pin
    <3>2. QED BY <1>2, <3>1, PinIsFiled
  <2>3. ASSUME NEW p \in PinRecords, PutPin(p) PROVE FiledByKey'
    BY <1>2, <2>3, PinIsFiled DEF PutPin, KeyOfPin
  <2>4. QED BY <1>2, <2>1, <2>2, <2>3, Zenon DEF RegistryNext, registryVars, PutApproval
<1>3. QED BY <1>1, <1>2, PTL DEF RegistrySpec

-----------------------------------------------------------------------------
(* A link uses no version but the one it is pinned to *)

UsesOnlyItsPin ==
  \A k \in DOMAIN pins : UsableVersions(k[1], k[2], k[3]) \subseteq {pins[k].hash}

\* AuthorizeContractApproval compares the record with the pin of the link: with
\* both filed where they belong, only the pinned version passes.
LEMMA UsableIsPinned ==
  ASSUME FiledByHash, FiledByKey
  PROVE  UsesOnlyItsPin
<1>1. SUFFICES ASSUME NEW k \in DOMAIN pins, NEW h \in UsableVersions(k[1], k[2], k[3])
      PROVE  h = pins[k].hash
  BY Zenon DEF UsesOnlyItsPin
<1>2. PICK c \in records[h].contracts : Usable(k[1], k[2], records[h], c)
  BY Zenon DEF UsableVersions
<1>3. records[h].catalog = k[3] /\ records[h].hash = h
  BY Zenon DEF UsableVersions, FiledByHash
<1>4. PICK t, l, c3 : k = <<t, l, c3>>
  BY Zenon DEF FiledByKey, pinKey
<1>5. k = <<k[1], k[2], k[3]>>
  BY <1>4
<1>6. QED
  BY <1>2, <1>3, <1>5, Zenon DEF Usable, AuthorizeContractApproval, pinMatches, pinKey

\* So it is in every state the three calls can reach.
LEMMA UsesOnlyItsPinAlways == RegistrySpec => []UsesOnlyItsPin
BY FiledByHashAlways, FiledByKeyAlways, UsableIsPinned, PTL

\* However Pin, PutPin and PutApproval are interleaved, on any records and
\* pins, AuthorizeContractApproval lets a partner link use at most one version
\* of a catalog.
THEOREM OneVersionPerLinkAlways == RegistrySpec => []OneVersionPerLink
<1>1. ASSUME UsesOnlyItsPin PROVE OneVersionPerLink
  <2>1. SUFFICES ASSUME NEW k \in DOMAIN pins
        PROVE  Cardinality(UsableVersions(k[1], k[2], k[3])) <= 1
    BY Zenon DEF OneVersionPerLink
  <2>2. UsableVersions(k[1], k[2], k[3]) \subseteq {pins[k].hash}
    BY <1>1, Zenon DEF UsesOnlyItsPin
  <2>3. Cardinality({pins[k].hash}) = 1 /\ IsFiniteSet({pins[k].hash})
    BY FS_Singleton, Zenon
  <2>4. QED BY <2>2, <2>3, FS_Subset
<1>2. QED BY <1>1, UsesOnlyItsPinAlways, PTL

\* A step that leaves a link's pin as it is never moves the link to another
\* version, whatever PutApproval does to the records.
THEOREM OnlyPinsMoveLinksAlways == RegistrySpec => OnlyPinsMoveLinks
<1>1. UsesOnlyItsPin /\ UsesOnlyItsPin' =>
        \A k \in DOMAIN pins \cap DOMAIN pins' :
          pins'[k] = pins[k] =>
            \A g \in UsableVersions(k[1], k[2], k[3]) :
              \A h \in UsableVersions(k[1], k[2], k[3])' : g = h
  <2>1. SUFFICES ASSUME UsesOnlyItsPin, UsesOnlyItsPin',
                        NEW k \in DOMAIN pins \cap DOMAIN pins', pins'[k] = pins[k],
                        NEW g \in UsableVersions(k[1], k[2], k[3]),
                        NEW h \in UsableVersions(k[1], k[2], k[3])'
        PROVE  g = h
    BY Zenon
  <2>2. g = pins[k].hash
    BY <2>1, Zenon DEF UsesOnlyItsPin
  <2>3. h = pins'[k].hash
    BY <2>1, Zenon DEF UsesOnlyItsPin
  <2>4. QED BY <2>1, <2>2, <2>3, Zenon
<1>2. QED BY <1>1, UsesOnlyItsPinAlways, PTL DEF OnlyPinsMoveLinks

-----------------------------------------------------------------------------
(* The signing tool *)

\* The keys a run may hold.
Keys == Nat \ {0}

-----------------------------------------------------------------------------
(* A sign run works on one key, from reading it to writing the keyring *)

SignTypes == generated \in Nat /\ keyFile \in Keys \cup {Absent, Torn}

\* What a run knows of the files, by the place it is at.
RunKnows ==
  /\ At("mint", "write key") => runKey \in Keys
  /\ At("sign", "write out") => runKey \in Keys /\ runKey = keyFile
  /\ At("sign", "write ring") =>
       runKey \in Keys /\ runKey = keyFile /\ outFile = [id |-> runId, by |-> runKey]

SignInv ==
  /\ SignTypes
  /\ RunKnows
  /\ runCmd # "" => finished = NoRun
  /\ SignedPairVerifies

\* Key numbers: the next one is a key, and a key is neither 0 nor negative.
LEMMA KeyNumbers ==
  /\ \A n \in Nat : n + 1 \in Keys /\ n + 1 \in Nat
  /\ \A k \in Keys : k > 0
  /\ 0 \in Nat /\ Absent = 0
BY DEF Keys, Absent

\* The values a run may find in finished are told apart.
LEMMA Outcomes ==
  /\ NoRun # [cmd |-> "sign", how |-> "ok"]
  /\ \A c, h : [cmd |-> c, how |-> h] = [cmd |-> "sign", how |-> "ok"] => c = "sign" /\ h = "ok"
<1>1. NoRun.cmd = "" /\ [cmd |-> "sign", how |-> "ok"].cmd = "sign" /\ "" # "sign"
  BY DEF NoRun
<1>2. ASSUME NEW c, NEW h, [cmd |-> c, how |-> h] = [cmd |-> "sign", how |-> "ok"]
      PROVE  c = "sign" /\ h = "ok"
  <2>1. [cmd |-> c, how |-> h].cmd = c /\ [cmd |-> c, how |-> h].how = h
    OBVIOUS
  <2>2. QED BY <1>2, <2>1
<1>3. QED BY <1>1, <1>2, Zenon

\* A run that ends without a successful sign leaves nothing to show.
LEMMA EndsQuietly ==
  ASSUME NEW how, End(how), runCmd # "sign" \/ how # "ok",
         keyFile' \in Keys \cup {Absent, Torn}, generated' \in Nat
  PROVE  SignInv'
<1>1. SignTypes'
  BY DEF SignTypes
<1>2. RunKnows' /\ runCmd' = ""
  BY Zenon DEF RunKnows, At, End
<1>3. SignedPairVerifies'
  BY Outcomes, Zenon DEF SignedPairVerifies, End
<1>4. QED BY <1>1, <1>2, <1>3, Zenon DEF SignInv

\* A step that leaves a run in progress shows nothing.
LEMMA StillRunning ==
  ASSUME SignTypes', RunKnows', finished' = NoRun
  PROVE  SignInv'
BY Outcomes, Zenon DEF SignInv, SignedPairVerifies

\* It holds before the first run.
LEMMA SignStart == SignInit => SignInv
BY KeyNumbers, Outcomes, Zenon DEF SignInit, SignInv, SignTypes, RunKnows, At, SignedPairVerifies

\* Every step keeps the invariant.
LEMMA SignStep ==
  ASSUME SignInv, [SignNext]_signVars
  PROVE  SignInv'
<1>1. CASE UNCHANGED signVars
  BY <1>1, Zenon DEF SignInv, SignTypes, RunKnows, SignedPairVerifies, signVars, At
<1>2. ASSUME NEW c, NEW id, Start(c, id) PROVE SignInv'
  <2>1. SignTypes'
    BY <1>2, Zenon DEF Start, files, SignInv, SignTypes
  <2>2. RunKnows' /\ finished' = NoRun
    BY <1>2, Zenon DEF Start, RunKnows, At
  <2>3. QED BY <2>1, <2>2, StillRunning
<1>3. CASE MintReadKey
  <2>1. /\ runCmd = "mint" /\ keyFile' \in Keys \cup {Absent, Torn} /\ generated \in Nat
        /\ finished = NoRun
    BY <1>3, Zenon DEF MintReadKey, files, SignInv, SignTypes, At
  <2>2. ASSUME GoTo("write key", generated + 1), generated' = generated + 1 PROVE SignInv'
    <3>1. SignTypes' /\ generated + 1 \in Keys
      BY <2>1, <2>2, KeyNumbers, Zenon DEF SignTypes
    <3>2. RunKnows' /\ finished' = NoRun
      BY <2>1, <2>2, <3>1, Zenon DEF GoTo, RunKnows, At
    <3>3. QED BY <3>1, <3>2, StillRunning
  <2>3. ASSUME NEW how, End(how), generated' = generated PROVE SignInv'
    BY <2>1, <2>3, EndsQuietly
  <2>4. QED BY <1>3, <2>2, <2>3, Zenon DEF MintReadKey
<1>4. CASE MintWriteKey
  <2>1. SignTypes'
    BY <1>4, Zenon DEF MintWriteKey, SignInv, SignTypes, RunKnows
  <2>2. RunKnows' /\ finished' = NoRun
    BY <1>4, Zenon DEF MintWriteKey, GoTo, SignInv, RunKnows, At
  <2>3. QED BY <2>1, <2>2, StillRunning
<1>5. CASE MintWritePub
  <2>1. runCmd = "mint" /\ keyFile' \in Keys \cup {Absent, Torn} /\ generated' \in Nat
    BY <1>5, Zenon DEF MintWritePub, SignInv, SignTypes, At
  <2>2. QED BY <1>5, <2>1, EndsQuietly, Zenon DEF MintWritePub
<1>6. CASE SignReadKey
  <2>1. /\ runCmd = "sign" /\ keyFile' = keyFile /\ keyFile \in Keys \cup {Absent, Torn}
        /\ generated' \in Nat /\ finished = NoRun
    BY <1>6, Zenon DEF SignReadKey, SignInv, SignTypes, At, files
  <2>2. CASE keyFile \notin {Absent, Torn} /\ GoTo("write out", keyFile)
    <3>1. SignTypes' /\ keyFile \in Keys
      BY <2>1, <2>2, Zenon DEF SignTypes
    <3>2. RunKnows' /\ finished' = NoRun
      BY <2>1, <2>2, <3>1, Zenon DEF GoTo, RunKnows, At
    <3>3. QED BY <3>1, <3>2, StillRunning
  <2>3. CASE End("err")
    BY <2>1, <2>3, EndsQuietly, Zenon
  <2>4. QED BY <1>6, <2>2, <2>3, Zenon DEF SignReadKey
<1>7. CASE SignWriteOut
  <2>1. SignTypes'
    BY <1>7, Zenon DEF SignWriteOut, SignInv, SignTypes
  <2>2. RunKnows' /\ finished' = NoRun
    BY <1>7, Zenon DEF SignWriteOut, GoTo, SignInv, RunKnows, At
  <2>3. QED BY <2>1, <2>2, StillRunning
<1>8. CASE SignWriteRing
  <2>1. SignTypes'
    BY <1>8, Zenon DEF SignWriteRing, SignInv, SignTypes
  <2>2. RunKnows' /\ runCmd' = ""
    BY <1>8, Zenon DEF SignWriteRing, RunKnows, At, End
  <2>3. /\ runKey \in Keys
        /\ outFile' = [id |-> runId, by |-> runKey]
        /\ ringFile' = [id |-> runId, by |-> runKey]
    BY <1>8, Zenon DEF SignWriteRing, SignInv, RunKnows
  <2>4. [id |-> runId, by |-> runKey].by = runKey
    OBVIOUS
  <2>5. outFile' = ringFile' /\ outFile'.by > 0
    BY <2>3, <2>4, KeyNumbers, Zenon
  <2>6. QED BY <2>1, <2>2, <2>5, Zenon DEF SignInv, SignedPairVerifies
<1>9. CASE Killed
  <2>1. PICK how \in {"killed", "err"} : End(how)
    BY <1>9, Zenon DEF Killed
  <2>2. keyFile' \in Keys \cup {Absent, Torn} /\ generated' \in Nat
    BY <1>9, Zenon DEF Killed, SignInv, SignTypes, files
  <2>3. how # "ok"
    BY <2>1, Zenon
  <2>4. QED BY <2>1, <2>2, <2>3, EndsQuietly, Zenon
<1>10. QED BY <1>1, <1>2, <1>3, <1>4, <1>5, <1>6, <1>7, <1>8, <1>9, Zenon DEF SignNext

\* sign reports success only over a pair of files that verify, for any number
\* of earlier runs of either command, cut short anywhere, with reads of files
\* that fail or not.
THEOREM SignedPairVerifiesAlways == SignSpec => []SignedPairVerifies
<1>1. SignInit => SignInv
  BY SignStart
<1>2. SignInv /\ [SignNext]_signVars => SignInv'
  BY SignStep
<1>3. SignInv => SignedPairVerifies
  BY Zenon DEF SignInv
<1>4. QED BY <1>1, <1>2, <1>3, PTL DEF SignSpec

-----------------------------------------------------------------------------
(* One key signs everything, when reading a file that exists does not fail *)

\* A key is written only where there is none, and nothing was signed before
\* there was one.
KeyStays ==
  /\ At("mint", "write key") => keyFile = Absent
  /\ keyFile \notin Keys => shipped = {}
  /\ \A x \in shipped : x.by = keyFile

\* A step that leaves the key file and what was shipped alone keeps KeyStays,
\* unless it takes a mint run to writing the key.
LEMMA KeyLeftAlone ==
  ASSUME KeyStays, keyFile' = keyFile, shipped' = shipped, ~At("mint", "write key")'
  PROVE  KeyStays'
BY Zenon DEF KeyStays, At

\* Absent and a torn file are no keys.
LEMMA NoKeys == Absent \notin Keys /\ Torn \notin Keys
BY DEF Keys, Absent, Torn

\* Every step keeps it.
LEMMA KeyStep ==
  ASSUME ReadFaults = FALSE, SignInv, KeyStays, [SignNext]_signVars
  PROVE  KeyStays'
<1>1. CASE UNCHANGED signVars
  BY <1>1, Zenon DEF KeyStays, signVars, At
<1>2. ASSUME NEW c, NEW id, Start(c, id) PROVE KeyStays'
  BY <1>2, KeyLeftAlone, Zenon DEF Start, files, At
<1>3. CASE MintReadKey
  <2>1. keyFile' = keyFile /\ shipped' = shipped
    BY <1>3, Zenon DEF MintReadKey, files
  <2>2. CASE keyFile = Absent
    BY <2>1, <2>2, Zenon DEF KeyStays
  <2>3. ASSUME NEW how, End(how) PROVE KeyStays'
    BY <2>1, <2>3, KeyLeftAlone, Zenon DEF End, At
  <2>4. QED BY <1>3, <2>2, <2>3, Zenon DEF MintReadKey
<1>4. CASE MintWriteKey
  <2>1. shipped' = {} /\ ~At("mint", "write key")' /\ keyFile' \in Keys
    BY <1>4, NoKeys, Zenon DEF MintWriteKey, GoTo, At, SignInv, RunKnows, KeyStays
  <2>2. QED BY <2>1, Zenon DEF KeyStays
<1>5. CASE MintWritePub
  BY <1>5, KeyLeftAlone, Zenon DEF MintWritePub, End, At
<1>6. CASE SignReadKey
  BY <1>6, KeyLeftAlone, Zenon DEF SignReadKey, files, GoTo, End, At
<1>7. CASE SignWriteOut
  BY <1>7, KeyLeftAlone, Zenon DEF SignWriteOut, GoTo, At
<1>8. CASE SignWriteRing
  <2>1. /\ keyFile' = keyFile /\ keyFile \in Keys /\ shipped' = shipped \cup {outFile}
        /\ outFile = [id |-> runId, by |-> runKey] /\ runKey = keyFile
        /\ ~At("mint", "write key")'
    BY <1>8, Zenon DEF SignWriteRing, SignInv, RunKnows, At, End
  <2>2. [id |-> runId, by |-> runKey].by = runKey
    OBVIOUS
  <2>3. QED BY <2>1, <2>2, Zenon DEF KeyStays
<1>9. CASE Killed
  <2>1. ~At("mint", "write key")' /\ shipped' = shipped
    BY <1>9, Zenon DEF Killed, End, At
  <2>2. CASE keyFile' = keyFile
    BY <2>1, <2>2, KeyLeftAlone, Zenon
  <2>3. CASE At("mint", "write key") /\ keyFile' = Torn
    BY <2>1, <2>3, NoKeys, Zenon DEF KeyStays
  <2>4. QED BY <1>9, <2>2, <2>3, Zenon DEF Killed, files
<1>10. QED BY <1>1, <1>2, <1>3, <1>4, <1>5, <1>6, <1>7, <1>8, <1>9, Zenon DEF SignNext

\* Whatever runs of mint and sign are made, complete or not, one key signs
\* every manifest that is ever shipped, provided reading a key file that
\* exists does not fail.
THEOREM OneAuthorityAlways ==
  ASSUME ReadFaults = FALSE
  PROVE  SignSpec => []OneAuthority
<1>1. SignInit => SignInv /\ KeyStays
  BY SignStart, Zenon DEF SignInit, KeyStays, At
<1>2. SignInv /\ KeyStays /\ [SignNext]_signVars => SignInv' /\ KeyStays'
  BY SignStep, KeyStep, Zenon
<1>3. KeyStays => OneAuthority
  BY Zenon DEF KeyStays, OneAuthority
<1>4. QED BY <1>1, <1>2, <1>3, PTL DEF SignSpec

=============================================================================
