------------------------- MODULE SignedRecordProofs -------------------------
(***************************************************************************)
(* What is taken in on a signature.  Capabilities and revocation lists of  *)
(* members, for any number of peers, signers, capabilities and lists,      *)
(* delivered late, again or out of order; the keyrings, for any            *)
(* configurations, rotations and retained files; manifests, for any        *)
(* documents, keys and clocks; and the entries of the order-to-cash pack, for*)
(* any inputs, tenants and options it is published with and any payloads.  *)
(***************************************************************************)
EXTENDS MembershipFence, KeyRing, OrderToCash, FiniteSetTheorems, WellFoundedInduction, TLAPS

-----------------------------------------------------------------------------
(* The fence: the inductive invariant *)

Binding == [epoch : Nat, revgen : Nat, active : BOOLEAN, updated : Nat]
Entry == [key : Peers, epoch : Nat, revgen : Nat, revoked : BOOLEAN]

IsCapability(c) ==
  /\ c = [ key |-> c.key, epoch |-> c.epoch, revgen |-> c.revgen, notAfter |-> c.notAfter,
           signer |-> c.signer, sig |-> c.sig ]
  /\ c.epoch \in Nat /\ c.revgen \in Nat

IsList(l) ==
  /\ l = [ generation |-> l.generation, notAfter |-> l.notAfter, entries |-> l.entries,
           signer |-> l.signer, sig |-> l.sig ]
  /\ l.generation \in Nat /\ l.notAfter \in Nat

BindingsInv ==
  /\ nowMS \in 1..MaxTime
  /\ bindings \in [Peers -> Binding]
  /\ \A k \in Peers : /\ bindings[k].epoch >= 1 /\ Changes(k) <= MaxChanges
                      /\ bindings[k].updated <= nowMS
  /\ \A k \in DOMAIN former : former[k] \in Entry

\* Some binding changed last, so the set Publish takes the maximum of has one.
NewestInv == \E k \in Peers : \A j \in Peers : bindings[k].updated >= bindings[j].updated

\* A state of a binding that is over is behind the binding.
EndedInv ==
  \A x \in DOMAIN ended :
    /\ x = <<x[1], x[2], x[3]>> /\ x[1] \in Peers /\ x[2] \in Nat /\ x[3] \in Nat
    /\ x[2] < bindings[x[1]].epoch \/ x[3] < bindings[x[1]].revgen
    /\ ended[x] \in Nat

CapsInv ==
  \A c \in caps : /\ IsCapability(c)
                  /\ \E s \in Signers : /\ c.signer = s.id
                                        /\ c.sig = Ed25519Sign(s.key, canonicalBytes(c))

\* What a list says of peer k, against what is over: an entry that does not
\* supersede a state that is over is of a list that was published before its
\* end, so its lifetime is counted from before the end and its generation is
\* no later.
Covers(l, k) ==
  \E e \in Range(l.entries) :
    /\ e \in Entry /\ e.key = k
    /\ \A x \in DOMAIN ended : x[1] = k /\ e.epoch <= x[2] /\ e.revgen <= x[3] =>
         l.notAfter <= ended[x] + ListTTL /\ l.generation <= ended[x]

ListsInv ==
  \A l \in lists :
    /\ IsList(l) /\ l.notAfter # 0 /\ l.notAfter <= nowMS + ListTTL /\ l.generation <= nowMS
    /\ \E s \in Signers : l.signer = s.id /\ l.sig = Ed25519Sign(s.key, revocationCanonicalBytes(l))
    /\ \A k \in Peers : Covers(l, k)

\* The list in force was published, but for the order of its entries.
FenceInv ==
  /\ \A l, n \in fence : l = n
  /\ \A l \in fence : \E p \in lists :
       /\ l.generation = p.generation /\ l.notAfter = p.notAfter
       /\ Range(l.entries) = Range(p.entries)

AdmittedInv ==
  \A a \in admitted :
    /\ a.at \in Nat /\ a.at <= nowMS
    /\ \A x \in DOMAIN ended : x = <<a.key, a.epoch, a.revgen>> => a.at < ended[x] + ListTTL

FenceIndInv ==
  /\ BindingsInv /\ NewestInv /\ EndedInv /\ CapsInv /\ ListsInv /\ FenceInv
  /\ AdmittedInv /\ AdmittedWereIssued

\* Each part of the invariant reads some of the variables only.
LEMMA FenceFrame ==
  /\ BindingsInv /\ UNCHANGED <<nowMS, bindings, former>> => BindingsInv'
  /\ NewestInv /\ UNCHANGED bindings => NewestInv'
  /\ EndedInv /\ UNCHANGED <<bindings, ended>> => EndedInv'
  /\ CapsInv /\ UNCHANGED caps => CapsInv'
  /\ ListsInv /\ UNCHANGED <<nowMS, lists, ended>> => ListsInv'
  /\ FenceInv /\ UNCHANGED <<fence, lists>> => FenceInv'
  /\ AdmittedInv /\ UNCHANGED <<nowMS, admitted, ended>> => AdmittedInv'
  /\ AdmittedWereIssued /\ UNCHANGED <<admitted, caps>> => AdmittedWereIssued'
<1>1. BindingsInv /\ UNCHANGED <<nowMS, bindings, former>> => BindingsInv'
  BY DEF BindingsInv, Changes
<1>2. EndedInv /\ UNCHANGED <<bindings, ended>> => EndedInv'
  BY DEF EndedInv
<1>3. CapsInv /\ UNCHANGED caps => CapsInv'
  BY DEF CapsInv
<1>4. ListsInv /\ UNCHANGED <<nowMS, lists, ended>> => ListsInv'
  BY DEF ListsInv, Covers
<1>5. FenceInv /\ UNCHANGED <<fence, lists>> => FenceInv'
  BY DEF FenceInv
<1>6. AdmittedInv /\ UNCHANGED <<nowMS, admitted, ended>> => AdmittedInv'
  BY DEF AdmittedInv
<1>7. AdmittedWereIssued /\ UNCHANGED <<admitted, caps>> => AdmittedWereIssued'
  BY DEF AdmittedWereIssued
<1>8. NewestInv /\ UNCHANGED bindings => NewestInv'
  BY DEF NewestInv
<1>9. QED BY <1>1, <1>2, <1>3, <1>4, <1>5, <1>6, <1>7, <1>8

-----------------------------------------------------------------------------
(* What signatures and checks give *)

\* A capability that verifies is one that was issued, by a trusted key.
LEMMA VerifiedWasIssued ==
  ASSUME CapsInv, NEW p \in caps, NEW c \in Presented(p), VerifyCapability(c)
  PROVE  c = p /\ c.sig.by \in { Trusted[id] : id \in DOMAIN Trusted }
<1>1. PICK s \in Signers : p.signer = s.id /\ p.sig = Ed25519Sign(s.key, canonicalBytes(p))
  BY DEF CapsInv
<1>2. IsCapability(p)
  BY DEF CapsInv
<1>3. c.signer \in DOMAIN Trusted /\ c.sig = Ed25519Sign(Trusted[c.signer], canonicalBytes(c))
  BY DEF VerifyCapability, SignedByTrusted
<1>4. c.sig = p.sig
  BY <1>2 DEF Presented, IsCapability
<1>5. [c EXCEPT !.sig = NoSig] = [p EXCEPT !.sig = NoSig]
  BY <1>1, <1>3, <1>4 DEF Ed25519Sign, canonicalBytes, Digest
<1>6. c = p
  <2>1. SUFFICES ASSUME c = [p EXCEPT !.epoch = @ + 1] PROVE FALSE
    BY DEF Presented
  <2>2. [c EXCEPT !.sig = NoSig].epoch = p.epoch + 1 /\ [p EXCEPT !.sig = NoSig].epoch = p.epoch
    BY <1>2, <2>1 DEF IsCapability
  <2>3. QED BY <1>2, <1>5, <2>2 DEF IsCapability
<1>7. QED BY <1>3, <1>6 DEF Ed25519Sign

\* A stable sort by key loses no entry and adds none.
LEMMA SortKeepsEntries ==
  ASSUME NEW s, NEW t, sortedEntries(s) = sortedEntries(t)
  PROVE  Range(s) = Range(t)
<1>1. ASSUME NEW u, NEW v, sortedEntries(u) = sortedEntries(v), NEW i \in DOMAIN u
      PROVE  u[i] \in Range(v)
  <2>1. <<Place(u, i), u[i]>> \in sortedEntries(v)
    BY <1>1, Zenon DEF sortedEntries
  <2>2. PICK j \in DOMAIN v : <<Place(u, i), u[i]>> = <<Place(v, j), v[j]>>
    BY <2>1 DEF sortedEntries
  <2>3. QED BY <2>2 DEF Range
<1>2. \A i \in DOMAIN s : s[i] \in Range(t)
  BY <1>1
<1>3. \A j \in DOMAIN t : t[j] \in Range(s)
  BY <1>1
<1>4. QED BY <1>2, <1>3 DEF Range

\* A list that verifies is one that was published, but for the order of its
\* entries.
LEMMA VerifiedWasPublished ==
  ASSUME ListsInv, NEW p \in lists, NEW l \in Carried(p), VerifyList(l)
  PROVE  /\ l.generation = p.generation /\ l.notAfter = p.notAfter
         /\ Range(l.entries) = Range(p.entries)
<1>1. PICK s \in Signers : p.signer = s.id /\ p.sig = Ed25519Sign(s.key, revocationCanonicalBytes(p))
  BY DEF ListsInv
<1>2. IsList(p)
  BY DEF ListsInv
<1>3. l.sig = Ed25519Sign(Trusted[l.signer], revocationCanonicalBytes(l))
  BY DEF VerifyList
<1>4. /\ l.sig = p.sig /\ l.generation = p.generation
      /\ l.notAfter = p.notAfter /\ DOMAIN l = DOMAIN p
  BY <1>2 DEF Carried, IsList
<1>5. [l EXCEPT !.sig = NoSig, !.entries = sortedEntries(@)]
        = [p EXCEPT !.sig = NoSig, !.entries = sortedEntries(@)]
  BY <1>1, <1>3, <1>4 DEF Ed25519Sign, revocationCanonicalBytes, Digest
<1>6. ASSUME NEW x, "entries" \in DOMAIN x, "sig" \in DOMAIN x
      PROVE  [x EXCEPT !.sig = NoSig, !.entries = sortedEntries(@)].entries = sortedEntries(x.entries)
  BY <1>6
<1>7. "entries" \in DOMAIN p /\ "sig" \in DOMAIN p
  BY <1>2 DEF IsList
<1>8. sortedEntries(l.entries) = sortedEntries(p.entries)
  BY <1>4, <1>5, <1>6, <1>7, Zenon
<1>9. QED BY <1>4, <1>8, SortKeepsEntries

\* A capability that Check finds valid is superseded by no entry of its key.
LEMMA ValidIsNotSuperseded ==
  ASSUME NEW l, NEW c, FenceStatus(l, c) = "valid", NEW e \in Range(l.entries), e.key = c.key
  PROVE  ~Supersedes(e, c)
BY DEF FenceStatus, Range

-----------------------------------------------------------------------------
(* The fence: the steps *)

\* The invariant holds of the first bindings.
LEMMA FenceInitInv == FenceInit => FenceIndInv
<1>1. SUFFICES ASSUME FenceInit PROVE FenceIndInv
  OBVIOUS
<1>2. BindingsInv
  BY <1>1, FenceAssumption DEF FenceInit, BindingsInv, Binding, Changes
<1>3. DOMAIN ended = {} /\ caps = {} /\ lists = {} /\ fence = {} /\ admitted = {}
  BY <1>1 DEF FenceInit
<1>4. NewestInv
  BY <1>1, FenceAssumption DEF FenceInit, NewestInv
<1>5. QED BY <1>2, <1>3, <1>4 DEF FenceIndInv, EndedInv, CapsInv, ListsInv, FenceInv, AdmittedInv,
                            AdmittedWereIssued

\* A binding that changes moves on: neither counter goes back and one advances.
LEMMA ChangeStep ==
  ASSUME FenceIndInv, NEW k \in Peers, NEW epoch, NEW revgen, NEW active \in BOOLEAN,
         \/ epoch = bindings[k].epoch + 1 /\ revgen = bindings[k].revgen
         \/ epoch = bindings[k].epoch /\ revgen = bindings[k].revgen + 1,
         Change(k, epoch, revgen, active)
  PROVE  FenceIndInv'
<1> DEFINE gone == <<k, bindings[k].epoch, bindings[k].revgen>>
           b == [epoch |-> epoch, revgen |-> revgen, active |-> active, updated |-> nowMS]
<1>0. b \in Binding /\ b.epoch = epoch /\ b.revgen = revgen /\ b.updated = nowMS
  BY FenceAssumption DEF FenceIndInv, BindingsInv, Binding
<1> HIDE DEF b
<1>1. /\ bindings' \in [Peers -> Binding] /\ bindings'[k] = b
      /\ \A x \in Peers : x # k => bindings'[x] = bindings[x]
      /\ UNCHANGED <<nowMS, caps, lists, fence, admitted>>
  BY <1>0 DEF Change, FenceIndInv, BindingsInv, b
<1>2. nowMS \in Nat /\ ListTTL \in Nat \ {0} /\ bindings[k] \in Binding
  BY FenceAssumption DEF FenceIndInv, BindingsInv
<1>3. /\ DOMAIN ended' \subseteq DOMAIN ended \cup {gone}
      /\ \A x \in DOMAIN ended' :
           \/ x = gone /\ ended'[x] = nowMS
           \/ x \in DOMAIN ended /\ ended'[x] = ended[x]
  BY DEF Change, MapPut
<1>4. BindingsInv'
  <2>1. EntryOf(k) \in Entry
    BY <1>2 DEF EntryOf, Entry, Binding
  <2>2. \A x \in DOMAIN former' : former'[x] \in Entry
    BY <2>1 DEF Change, MapPut, FenceIndInv, BindingsInv
  <2>3. \A x \in Peers : /\ bindings'[x].epoch >= 1
                         /\ bindings'[x].epoch + bindings'[x].revgen <= MaxChanges
                         /\ bindings'[x].updated <= nowMS
    BY <1>0, <1>1, <1>2, FenceAssumption DEF Change, Changes, FenceIndInv, BindingsInv, Binding
  <2>4. QED BY <1>1, <2>2, <2>3 DEF FenceIndInv, BindingsInv, Changes
<1>5. EndedInv'
  <2>1. ASSUME NEW x \in DOMAIN ended'
        PROVE  /\ x = <<x[1], x[2], x[3]>> /\ x[1] \in Peers /\ x[2] \in Nat /\ x[3] \in Nat
               /\ x[2] < bindings'[x[1]].epoch \/ x[3] < bindings'[x[1]].revgen
               /\ ended'[x] \in Nat
    <3>1. CASE x = gone /\ ended'[x] = nowMS
      BY <1>0, <1>1, <1>2, <3>1 DEF Binding
    <3>2. CASE x \in DOMAIN ended /\ ended'[x] = ended[x]
      <4>1. /\ x = <<x[1], x[2], x[3]>> /\ x[1] \in Peers /\ x[2] \in Nat /\ x[3] \in Nat
            /\ x[2] < bindings[x[1]].epoch \/ x[3] < bindings[x[1]].revgen
            /\ ended[x] \in Nat
        BY <3>2 DEF FenceIndInv, EndedInv
      <4>2. CASE x[1] = k
        BY <1>0, <1>1, <1>2, <3>2, <4>1, <4>2 DEF Binding
      <4>3. CASE x[1] # k
        BY <1>1, <3>2, <4>1, <4>3
      <4>4. QED BY <4>2, <4>3
    <3>3. QED BY <1>3, <3>1, <3>2
  <2>2. QED BY <2>1 DEF EndedInv
<1>6. ListsInv'
  <2>1. ASSUME NEW l \in lists, NEW j \in Peers PROVE Covers(l, j)'
    <3>1. PICK e \in Range(l.entries) :
            /\ e \in Entry /\ e.key = j
            /\ \A x \in DOMAIN ended : x[1] = j /\ e.epoch <= x[2] /\ e.revgen <= x[3] =>
                 l.notAfter <= ended[x] + ListTTL /\ l.generation <= ended[x]
      BY <2>1 DEF FenceIndInv, ListsInv, Covers
    <3>2. l.notAfter <= nowMS + ListTTL /\ l.generation <= nowMS
      BY <2>1 DEF FenceIndInv, ListsInv
    <3>3. \A x \in DOMAIN ended' : x[1] = j /\ e.epoch <= x[2] /\ e.revgen <= x[3] =>
            l.notAfter <= ended'[x] + ListTTL /\ l.generation <= ended'[x]
      BY <1>3, <3>1, <3>2
    <3>4. QED BY <3>1, <3>3 DEF Covers
  <2>2. QED BY <1>1, <2>1 DEF FenceIndInv, ListsInv
<1>7. AdmittedInv'
  <2>1. ASSUME NEW a \in admitted, NEW x \in DOMAIN ended', x = <<a.key, a.epoch, a.revgen>>
        PROVE  a.at < ended'[x] + ListTTL
    <3>1. a.at \in Nat /\ a.at <= nowMS
      BY <2>1 DEF FenceIndInv, AdmittedInv
    <3>2. CASE ended'[x] = nowMS
      BY <1>2, <3>1, <3>2
    <3>3. CASE x \in DOMAIN ended /\ ended'[x] = ended[x]
      BY <2>1, <3>3 DEF FenceIndInv, AdmittedInv
    <3>4. QED BY <1>3, <3>2, <3>3
  <2>2. QED BY <1>1, <2>1 DEF FenceIndInv, AdmittedInv
<1>8. NewestInv'
  <2>1. \A j \in Peers : nowMS >= bindings'[j].updated
    BY <1>0, <1>1, <1>2 DEF FenceIndInv, BindingsInv, Binding
  <2>2. QED BY <1>0, <1>1, <2>1, Zenon DEF NewestInv
<1>9. QED BY <1>1, <1>4, <1>5, <1>6, <1>7, <1>8, FenceFrame DEF FenceIndInv

\* A signed capability is the one that was asked for, naming its signer.
LEMMA SignedCapability ==
  ASSUME NEW c, IsCapability(c), NEW s
  PROVE  LET q == SignCapability(s, c) IN
         /\ IsCapability(q) /\ q.signer = s.id /\ q.sig = Ed25519Sign(s.key, canonicalBytes(q))
<1> DEFINE st == [c EXCEPT !.signer = s.id]
           q == SignCapability(s, c)
<1>1. IsCapability(st) /\ st.signer = s.id
  BY DEF IsCapability
<1>2. q = [st EXCEPT !.sig = Ed25519Sign(s.key, canonicalBytes(st))]
  BY DEF SignCapability
<1> HIDE DEF st, q
<1>3. /\ IsCapability(q) /\ q.signer = st.signer
      /\ q.sig = Ed25519Sign(s.key, canonicalBytes(st))
      /\ [q EXCEPT !.sig = NoSig] = [st EXCEPT !.sig = NoSig]
  BY <1>1, <1>2, Zenon DEF IsCapability
<1>4. canonicalBytes(q) = canonicalBytes(st)
  BY <1>3 DEF canonicalBytes
<1>5. QED BY <1>1, <1>3, <1>4 DEF q

\* Issuing a capability keeps the invariant.
LEMMA IssueStep ==
  ASSUME FenceIndInv, NEW k \in Peers, NEW ttl \in CapTTLs, NEW s \in Signers, Issue(k, ttl, s)
  PROVE  FenceIndInv'
<1> DEFINE c == [ key |-> k, epoch |-> bindings[k].epoch, revgen |-> bindings[k].revgen,
                  notAfter |-> IF ttl = 0 THEN 0 ELSE nowMS + ttl, signer |-> "", sig |-> NoSig ]
           q == SignCapability(s, c)
<1>1. IsCapability(c)
  BY DEF IsCapability, FenceIndInv, BindingsInv, Binding
<1>2. /\ caps' = caps \cup {q}
      /\ UNCHANGED <<nowMS, bindings, former, lists, fence, ended, admitted>>
  BY Zenon DEF Issue
<1>3. IsCapability(q) /\ q.signer = s.id /\ q.sig = Ed25519Sign(s.key, canonicalBytes(q))
  BY <1>1, SignedCapability, Zenon
<1> HIDE DEF c, q
<1>4. CapsInv'
  BY <1>2, <1>3 DEF FenceIndInv, CapsInv
<1>5. AdmittedWereIssued'
  BY <1>2 DEF FenceIndInv, AdmittedWereIssued
<1>6. QED BY <1>2, <1>4, <1>5, FenceFrame DEF FenceIndInv

\* A snapshot has the state of every binding, and nothing that is not an entry.
LEMMA SnapshotEntries ==
  ASSUME BindingsInv, NEW entries \in Snapshots, NEW k \in Peers
  PROVE  EntryOf(k) \in Range(entries) /\ EntryOf(k) \in Entry
<1> DEFINE current == { EntryOf(j) : j \in Peers }
<1>1. PICK S : current \subseteq S /\ entries \in Bijection(1..Cardinality(S), S)
  BY DEF Snapshots
<1>2. \A x \in S : \E i \in 1..Cardinality(S) : entries[i] = x
  BY <1>1 DEF Bijection, Surjection
<1>3. DOMAIN entries = 1..Cardinality(S)
  BY <1>1 DEF Bijection, Surjection
<1>4. EntryOf(k) \in S
  BY <1>1
<1>5. EntryOf(k) \in Range(entries)
  BY <1>2, <1>3, <1>4 DEF Range
<1>6. EntryOf(k) \in Entry
  BY DEF EntryOf, Entry, BindingsInv, Binding
<1>7. QED BY <1>5, <1>6

\* A signed list is the one that was assembled, naming its signer.
LEMMA SignedList ==
  ASSUME NEW l, IsList(l), NEW s
  PROVE  LET q == SignRevocationList(s, l) IN
         /\ IsList(q) /\ q.signer = s.id /\ q.sig = Ed25519Sign(s.key, revocationCanonicalBytes(q))
         /\ q.generation = l.generation /\ q.notAfter = l.notAfter /\ q.entries = l.entries
<1> DEFINE st == [l EXCEPT !.signer = s.id]
           q == SignRevocationList(s, l)
           bare(x) == [x EXCEPT !.sig = NoSig, !.entries = sortedEntries(@)]
<1>1. /\ IsList(st) /\ st.signer = s.id
      /\ st.generation = l.generation /\ st.notAfter = l.notAfter /\ st.entries = l.entries
  BY DEF IsList
<1>2. q = [st EXCEPT !.sig = Ed25519Sign(s.key, revocationCanonicalBytes(st))]
  BY DEF SignRevocationList
<1> HIDE DEF st, q
<1>3. /\ IsList(q) /\ q.signer = st.signer
      /\ q.sig = Ed25519Sign(s.key, revocationCanonicalBytes(st))
      /\ q.generation = st.generation /\ q.notAfter = st.notAfter /\ q.entries = st.entries
  BY <1>1, <1>2 DEF IsList
<1>4. [q EXCEPT !.sig = NoSig] = [st EXCEPT !.sig = NoSig]
  BY <1>1, <1>2, Zenon DEF IsList
<1>5. bare(q) = bare(st)
  <2>1. ASSUME NEW x, IsList(x)
        PROVE  bare(x) = [[x EXCEPT !.sig = NoSig] EXCEPT !.entries = sortedEntries(x.entries)]
    BY <2>1 DEF IsList
  <2>2. QED BY <1>1, <1>3, <1>4, <2>1, Zenon
<1>6. revocationCanonicalBytes(q) = revocationCanonicalBytes(st)
  BY <1>5, SMTT(30) DEF revocationCanonicalBytes
<1>7. QED BY <1>1, <1>3, <1>6 DEF q

\* Publishing a list keeps the invariant: it knows every binding as it is now.
LEMMA PublishStep ==
  ASSUME FenceIndInv, NEW entries \in Snapshots, NEW s \in Signers, PublishList(entries, s)
  PROVE  FenceIndInv'
<1> DEFINE gen == Max({ bindings[k].updated : k \in Peers })
           l == [ generation |-> gen, notAfter |-> nowMS + ListTTL, entries |-> entries,
                  signer |-> "", sig |-> NoSig ]
           q == SignRevocationList(s, l)
<1>1. gen \in Nat /\ gen <= nowMS /\ nowMS \in Nat /\ nowMS + ListTTL \in Nat \ {0}
  <2> DEFINE T == { bindings[k].updated : k \in Peers }
  <2>1. /\ T \subseteq Nat /\ nowMS \in Nat /\ \A y \in T : y <= nowMS
        /\ nowMS + ListTTL \in Nat \ {0}
    BY FenceAssumption DEF FenceIndInv, BindingsInv, Binding
  <2>2. Max(T) \in T
    BY Zenon DEF FenceIndInv, NewestInv, Max
  <2> HIDE DEF T
  <2>3. QED BY <2>1, <2>2 DEF T
<1> HIDE DEF gen
<1>2. IsList(l) /\ l.generation = gen /\ l.notAfter = nowMS + ListTTL /\ l.entries = entries
  BY <1>1 DEF IsList
<1>3. /\ lists' = lists \cup {q}
      /\ UNCHANGED <<nowMS, bindings, former, caps, fence, ended, admitted>>
  BY Zenon DEF PublishList, gen
<1> HIDE DEF l
<1>4. /\ IsList(q) /\ q.signer = s.id /\ q.sig = Ed25519Sign(s.key, revocationCanonicalBytes(q))
      /\ q.generation = gen /\ q.notAfter = nowMS + ListTTL /\ q.entries = entries
  BY <1>2, SignedList, Zenon
<1> HIDE DEF q
<1>5. ASSUME NEW k \in Peers PROVE Covers(q, k)
  <2>1. EntryOf(k) \in Range(q.entries) /\ EntryOf(k) \in Entry
    BY <1>4, SnapshotEntries DEF FenceIndInv
  <2>2. /\ EntryOf(k).key = k /\ EntryOf(k).epoch = bindings[k].epoch
        /\ EntryOf(k).revgen = bindings[k].revgen
        /\ bindings[k].epoch \in Nat /\ bindings[k].revgen \in Nat
    BY SMTT(30) DEF EntryOf, FenceIndInv, BindingsInv, Binding
  <2>3. ASSUME NEW x \in DOMAIN ended, x[1] = k
        PROVE  ~(EntryOf(k).epoch <= x[2] /\ EntryOf(k).revgen <= x[3])
    BY <2>2, <2>3, SMTT(30) DEF FenceIndInv, EndedInv
  <2>4. QED BY <2>1, <2>2, <2>3 DEF Covers
<1>6. ASSUME NEW p \in lists'
      PROVE  /\ IsList(p) /\ p.notAfter # 0 /\ p.notAfter <= nowMS + ListTTL /\ p.generation <= nowMS
             /\ \E z \in Signers : /\ p.signer = z.id
                                   /\ p.sig = Ed25519Sign(z.key, revocationCanonicalBytes(p))
             /\ \A k \in Peers : Covers(p, k)
  BY <1>1, <1>3, <1>4, <1>5, <1>6, SMTT(30) DEF FenceIndInv, ListsInv
<1>7. ListsInv'
  BY <1>3, <1>6 DEF ListsInv, Covers
<1>8. FenceInv'
  BY <1>3, Zenon DEF FenceIndInv, FenceInv
<1>9. QED BY <1>3, <1>7, <1>8, FenceFrame DEF FenceIndInv

\* Pulling a list, altered on its way or not, keeps the invariant.
LEMMA PullListStep ==
  ASSUME FenceIndInv, NEW p \in lists, NEW l \in Carried(p), PullList(l)
  PROVE  FenceIndInv'
<1>1. /\ fence' = {l}
      /\ UNCHANGED <<nowMS, bindings, former, caps, lists, ended, admitted>>
  BY DEF PullList
<1>2. /\ l.generation = p.generation /\ l.notAfter = p.notAfter
      /\ Range(l.entries) = Range(p.entries)
  BY VerifiedWasPublished DEF FenceIndInv, PullList
<1>3. FenceInv'
  BY <1>1, <1>2 DEF FenceInv
<1>4. QED BY <1>1, <1>3, FenceFrame DEF FenceIndInv

\* What a list that finds a capability valid, although it is over, says of it.
LEMMA ValidThoughOver ==
  ASSUME ListsInv, NEW p \in lists, NEW l, Range(l.entries) = Range(p.entries),
         NEW c, IsCapability(c), FenceStatus(l, c) = "valid", c.key \in Peers,
         NEW x \in DOMAIN ended, x = <<c.key, c.epoch, c.revgen>>
  PROVE  p.notAfter <= ended[x] + ListTTL /\ p.generation <= ended[x]
<1>1. PICK e \in Range(p.entries) :
        /\ e \in Entry /\ e.key = c.key
        /\ \A y \in DOMAIN ended : y[1] = c.key /\ e.epoch <= y[2] /\ e.revgen <= y[3] =>
             p.notAfter <= ended[y] + ListTTL /\ p.generation <= ended[y]
  BY DEF ListsInv, Covers
<1>2. ~Supersedes(e, c)
  BY <1>1, ValidIsNotSuperseded
<1>3. e.epoch <= c.epoch /\ e.revgen <= c.revgen
  BY <1>1, <1>2 DEF Supersedes, IsCapability, Entry
<1>4. x[1] = c.key /\ x[2] = c.epoch /\ x[3] = c.revgen
  BY Zenon
<1>5. QED BY <1>1, <1>3, <1>4, SMTT(30)

\* Admitting a peer under the list in force keeps the invariant.
LEMMA AdmitStep ==
  ASSUME FenceIndInv, NEW p \in caps, NEW c \in Presented(p), Admit(c)
  PROVE  FenceIndInv'
<1> DEFINE new == [key |-> c.key, epoch |-> c.epoch, revgen |-> c.revgen, at |-> nowMS]
<1>1. /\ admitted' = admitted \cup {new}
      /\ UNCHANGED <<nowMS, bindings, former, caps, lists, fence, ended>>
  BY DEF Admit
<1>2. c = p /\ c.sig.by \in { Trusted[id] : id \in DOMAIN Trusted }
  BY VerifiedWasIssued DEF FenceIndInv, Admit
<1>3. IsCapability(c) /\ c.key \in Peers
  BY <1>2 DEF FenceIndInv, CapsInv, Admit, VerifyCapability
<1>4. PICK l \in fence : VerifyList(l) /\ FenceStatus(l, c) = "valid"
  BY DEF Admit
<1>5. PICK q \in lists : l.notAfter = q.notAfter /\ Range(l.entries) = Range(q.entries)
  BY DEF FenceIndInv, FenceInv
<1>6. nowMS \in Nat /\ l.notAfter \in Nat /\ nowMS < l.notAfter
  BY <1>4, <1>5, FenceAssumption
     DEF FenceIndInv, BindingsInv, ListsInv, IsList, VerifyList, Expired
<1>7. ASSUME NEW x \in DOMAIN ended, x = <<c.key, c.epoch, c.revgen>>
      PROVE  nowMS < ended[x] + ListTTL
  <2>1. q.notAfter <= ended[x] + ListTTL
    BY <1>3, <1>4, <1>5, <1>7, ValidThoughOver DEF FenceIndInv
  <2>2. ended[x] \in Nat /\ ListTTL \in Nat
    BY FenceAssumption, ZenonT(30) DEF FenceIndInv, EndedInv
  <2>3. QED BY <1>5, <1>6, <2>1, <2>2, SMTT(30)
<1>8. AdmittedInv'
  BY <1>1, <1>6, <1>7, SMTT(30) DEF FenceIndInv, AdmittedInv
<1>9. AdmittedWereIssued'
  BY <1>1, <1>2 DEF FenceIndInv, AdmittedWereIssued
<1>10. QED BY <1>1, <1>8, <1>9, FenceFrame DEF FenceIndInv

\* The clock keeps the invariant.
LEMMA FenceTickStep ==
  ASSUME FenceIndInv, FenceTick
  PROVE  FenceIndInv'
<1>1. /\ nowMS \in Nat /\ nowMS' = nowMS + 1 /\ nowMS' \in 1..MaxTime /\ ListTTL \in Nat
      /\ UNCHANGED <<bindings, former, caps, lists, fence, ended, admitted>>
  BY FenceAssumption DEF FenceTick, FenceIndInv, BindingsInv
<1>2. BindingsInv'
  BY <1>1 DEF FenceIndInv, BindingsInv, Changes, Binding
<1>3. ListsInv'
  BY <1>1 DEF FenceIndInv, ListsInv, Covers, IsList
<1>4. AdmittedInv'
  BY <1>1 DEF FenceIndInv, AdmittedInv
<1>5. QED BY <1>1, <1>2, <1>3, <1>4, FenceFrame DEF FenceIndInv

\* Every step preserves the invariant.
LEMMA FenceStep == FenceIndInv /\ [FenceNext]_fenceVars => FenceIndInv'
<1>1. SUFFICES ASSUME FenceIndInv, [FenceNext]_fenceVars PROVE FenceIndInv'
  OBVIOUS
<1>2. ASSUME NEW k \in Peers, Revoke(k) \/ Enroll(k) PROVE FenceIndInv'
  BY <1>1, <1>2, ChangeStep, Zenon DEF Revoke, Enroll
<1>3. ASSUME NEW k \in Peers, NEW ttl \in CapTTLs, NEW s \in Signers, Issue(k, ttl, s)
      PROVE  FenceIndInv'
  BY <1>1, <1>3, IssueStep
<1>4. ASSUME NEW entries \in Snapshots, NEW s \in Signers, PublishList(entries, s) PROVE FenceIndInv'
  BY <1>1, <1>4, PublishStep
<1>5. ASSUME NEW p \in lists, NEW l \in Carried(p), PullList(l) PROVE FenceIndInv'
  BY <1>1, <1>5, PullListStep
<1>6. ASSUME NEW p \in caps, NEW c \in Presented(p), Admit(c) PROVE FenceIndInv'
  BY <1>1, <1>6, AdmitStep
<1>7. CASE FenceTick
  BY <1>1, <1>7, FenceTickStep, Zenon
<1>8. CASE UNCHANGED fenceVars
  BY <1>1, <1>8, FenceFrame DEF FenceIndInv, fenceVars
<1>9. QED BY <1>1, <1>2, <1>3, <1>4, <1>5, <1>6, <1>7, <1>8, SMTT(30) DEF FenceNext

\* The invariant always holds.
LEMMA FenceIndInvHolds == FenceSpec => []FenceIndInv
<1>1. QED BY FenceInitInv, FenceStep, PTL DEF FenceSpec

-----------------------------------------------------------------------------
(* The fence: what the invariant gives *)

\* The store's counters stay in range, the verifier is on one list at most, and
\* every capability and list names the key that signed it.
THEOREM FenceTypeCorrect == FenceSpec => []FenceTypeOK
<1>1. ASSUME FenceIndInv PROVE FenceTypeOK
  <2>1. \A l, n \in fence : l = n
    BY <1>1, Zenon DEF FenceIndInv, FenceInv
  <2>2. \A k \in Peers : bindings[k].epoch >= 1 /\ Changes(k) \in 1..MaxChanges
    BY <1>1, FenceAssumption DEF FenceIndInv, BindingsInv, Changes, Binding
  <2>3. ASSUME NEW x \in caps \cup lists
        PROVE  \E s \in Signers : x.signer = s.id /\ x.sig.by = s.key
    <3>1. PICK s \in Signers : x.signer = s.id /\ \E b : x.sig = Ed25519Sign(s.key, b)
      BY <1>1, Zenon DEF FenceIndInv, CapsInv, ListsInv
    <3>2. x.sig.by = s.key
      BY <3>1 DEF Ed25519Sign
    <3>3. QED BY <3>1, <3>2
  <2>4. QED BY <1>1, <2>1, <2>2, <2>3 DEF FenceTypeOK, FenceIndInv, BindingsInv
<1>2. QED BY <1>1, FenceIndInvHolds, PTL

\* A peer is admitted on a capability that is over for less than the lifetime of
\* a list, whatever happens to lists on their way and whatever duplicates they
\* carry.
THEOREM AdmissionLagIsBoundedAlways == FenceSpec => []AdmissionLagIsBounded
<1>1. FenceIndInv => AdmissionLagIsBounded
  BY DEF FenceIndInv, AdmittedInv, AdmissionLagIsBounded, Over
<1>2. QED BY <1>1, FenceIndInvHolds, PTL

\* Only what a trusted signer issued is admitted.
THEOREM AdmittedWereIssuedAlways == FenceSpec => []AdmittedWereIssued
<1>1. FenceIndInv => AdmittedWereIssued
  BY DEF FenceIndInv
<1>2. QED BY <1>1, FenceIndInvHolds, PTL

\* Once the verifier is on a list as recent as the end of a capability, no list
\* of a later generation finds the capability valid.
THEOREM FenceNeverReadmitsHolds == FenceSpec => FenceNeverReadmits
<1> DEFINE A == \A l \in fence, n \in fence', c \in caps :
                  /\ Over(c) /\ ended[<<c.key, c.epoch, c.revgen>>] <= l.generation
                  /\ l.generation < n.generation
                  => FenceStatus(n, c) # "valid"
<1>1. ASSUME FenceIndInv, [FenceNext]_fenceVars PROVE A
  <2>1. SUFFICES ASSUME NEW l \in fence, NEW n \in fence', NEW c \in caps, Over(c),
                        ended[<<c.key, c.epoch, c.revgen>>] <= l.generation,
                        l.generation < n.generation, FenceStatus(n, c) = "valid"
                 PROVE  FALSE
    OBVIOUS
  <2>2. fence' # fence
    <3>1. l.generation \in Nat
      BY <1>1 DEF FenceIndInv, FenceInv, ListsInv, IsList
    <3>2. fence' = fence => n = l
      BY <1>1, SMTT(30) DEF FenceIndInv, FenceInv
    <3>3. QED BY <2>1, <3>1, <3>2
  <2>3. PICK p \in lists : \E q \in Carried(p) : PullList(q)
    BY <1>1, <2>2, Zenon DEF FenceNext, Revoke, Enroll, Change, Issue, PublishList, Admit, FenceTick, fenceVars
  <2>4. n \in Carried(p) /\ PullList(n)
    BY <2>3, SMTT(30) DEF PullList
  <2>5. n.generation = p.generation /\ Range(n.entries) = Range(p.entries)
    BY <1>1, <2>4, VerifiedWasPublished, SMTT(30) DEF FenceIndInv, PullList
  <2> DEFINE x == <<c.key, c.epoch, c.revgen>>
  <2>6. x \in DOMAIN ended /\ ended[x] \in Nat /\ c.key \in Peers
    BY <1>1, <2>1 DEF Over, FenceIndInv, EndedInv
  <2>7. IsCapability(c)
    BY <1>1 DEF FenceIndInv, CapsInv
  <2>8. p.generation <= ended[x]
    BY <1>1, <2>1, <2>5, <2>6, <2>7, ValidThoughOver, SMTT(30) DEF FenceIndInv
  <2>9. l.generation \in Nat /\ p.generation \in Nat
    BY <1>1 DEF FenceIndInv, FenceInv, ListsInv, IsList
  <2>10. QED BY <2>1, <2>5, <2>6, <2>8, <2>9
<1>2. QED BY <1>1, FenceIndInvHolds, PTL DEF FenceSpec, FenceNeverReadmits

-----------------------------------------------------------------------------
(* The keyrings: retained keys stay trusted *)

\* What was signed for a purpose with a retained directory names its key.
SignedNamed == \A x \in signed : x.purpose \in Kept => x.id # ""

\* AuditSigningMaterial and MembershipSigningMaterialFromConfig never return
\* material without a key id.
LEMMA MaterialNamed ==
  ASSUME NEW purpose \in Kept, NEW m \in Material(purpose)
  PROVE  m.id # ""
<1>1. CASE purpose = "audit"
  <2>1. m \in AuditSigningMaterial(cfg)
    BY <1>1, SMTT(30) DEF Material
  <2>2. CASE m = DevLocal("audit")
    BY <2>2 DEF DevLocal, DevLocalKeyID
  <2>3. ASSUME NEW key, ProviderFromConfig(cfg) = "MountedSecretProvider",
               m = [id |-> cfg.audit.id, key |-> key]
        PROVE  m.id # ""
    <3>1. cfg.audit.id # ""
      BY <2>3, Zenon DEF ProviderFromConfig
    <3>2. QED BY <2>3, <3>1, Zenon
  <2>4. QED BY <2>1, <2>2, <2>3, Zenon DEF AuditSigningMaterial
<1>2. CASE purpose = "membership"
  <2>1. m \in MaterialFromConfig(cfg, "membership", "mounted-ed25519-membership-key")
    BY <1>2 DEF Material, MembershipSigningMaterialFromConfig
  <2>2. CASE m = DevLocal("membership")
    BY <2>2 DEF DevLocal, DevLocalKeyID
  <2>3. ASSUME NEW key,
               m = [ id |-> IF cfg["membership"].id = "" THEN "mounted-ed25519-membership-key"
                            ELSE cfg["membership"].id, key |-> key ]
        PROVE  m.id # ""
    BY <2>3, Zenon
  <2>4. QED BY <2>1, <2>2, <2>3, Zenon DEF MaterialFromConfig
<1>3. QED BY <1>1, <1>2, Zenon DEF Kept

\* LoadAuditPublicKeys and LoadMembershipPublicKeys: a file with a comment is
\* found under it, with the key it holds.
LEMMA LoadedUnderComment ==
  ASSUME NEW stored, NEW f \in stored, f.comment # "", NEW T \in LoadPublicKeys(stored)
  PROVE  f.comment \in DOMAIN T /\ T[f.comment] = f.key
<1>1. FileKeyId(f) = f.comment
  BY Zenon DEF FileKeyId
<1>2. /\ \A g, h \in stored : FileKeyId(g) = FileKeyId(h) => g = h
      /\ T = [ id \in { FileKeyId(g) : g \in stored } |->
                 (CHOOSE g \in stored : FileKeyId(g) = id).key ]
  BY Zenon DEF LoadPublicKeys
<1>3. f.comment \in { FileKeyId(g) : g \in stored }
  BY <1>1, Zenon
<1>4. (CHOOSE g \in stored : FileKeyId(g) = f.comment) = f
  BY <1>1, <1>2, Zenon
<1>5. QED BY <1>2, <1>3, <1>4, Zenon

\* AuditPublicKeys and MembershipPublicKeys: the active key never hides a
\* retained one.
LEMMA RetainedPrevails ==
  ASSUME NEW active, NEW stored, NEW T \in PublicKeys(active, stored)
  PROVE  \E kept \in LoadPublicKeys(stored) : \A id \in DOMAIN kept : id \in DOMAIN T /\ T[id] = kept[id]
<1>1. PICK kept \in LoadPublicKeys(stored) :
        T = [ id \in ({active.id} \ {""}) \cup DOMAIN kept |->
                IF id \in DOMAIN kept THEN kept[id] ELSE active.key ]
  BY Zenon DEF PublicKeys
<1>2. QED BY <1>1, Zenon

\* Through any number of rotations, whatever is signed for audit or membership
\* verifies while its key is retained under the id it names, for a verifier
\* that loads the retained keys with the active one or without it.
THEOREM RetainedKeysStayTrustedAlways == RingSpec => []RetainedKeysStayTrusted
<1>1. RingInit => SignedNamed
  BY Zenon DEF RingInit, SignedNamed
<1>2. ASSUME SignedNamed, [RingNext]_ringVars PROVE SignedNamed'
  <2>1. CASE signed' = signed
    BY <1>2, <2>1, Zenon DEF SignedNamed
  <2>2. ASSUME NEW purpose \in Purposes, SignOne(purpose) PROVE SignedNamed'
    <3>1. PICK m \in Material(purpose) : signed' = {[purpose |-> purpose, id |-> m.id, key |-> m.key]}
      BY <2>2, Zenon DEF SignOne
    <3>2. \A x \in signed' : x.purpose = purpose /\ x.id = m.id
      BY <3>1
    <3>3. purpose \in Kept => m.id # ""
      BY <3>1, MaterialNamed, Zenon
    <3>4. QED BY <3>2, <3>3, Zenon DEF SignedNamed
  <2>3. QED BY <1>2, <2>1, <2>2, Zenon DEF RingNext, ringVars, Retain, Switch, Discard
<1>3. ASSUME SignedNamed PROVE RetainedKeysStayTrusted
  <2>1. SUFFICES ASSUME NEW x \in signed, x.purpose \in Kept, NEW T \in Current(x.purpose),
                        NEW f \in dir[x.purpose], f.key = x.key, f.comment = x.id
        PROVE  x.id \in DOMAIN T /\ T[x.id] = x.key
    BY Zenon DEF RetainedKeysStayTrusted
  <2>2. f.comment # ""
    BY <1>3, <2>1, Zenon DEF SignedNamed
  <2>3. ASSUME NEW kept \in LoadPublicKeys(dir[x.purpose])
        PROVE  x.id \in DOMAIN kept /\ kept[x.id] = x.key
    BY <2>1, <2>2, <2>3, LoadedUnderComment, Zenon
  <2>4. PICK kept \in LoadPublicKeys(dir[x.purpose]) :
          \A id \in DOMAIN kept : id \in DOMAIN T /\ T[id] = kept[id]
    <3>1. CASE T \in LoadPublicKeys(dir[x.purpose])
      BY <3>1, Zenon
    <3>2. ASSUME NEW m, T \in PublicKeys(m, dir[x.purpose])
          PROVE  \E kept \in LoadPublicKeys(dir[x.purpose]) :
                   \A id \in DOMAIN kept : id \in DOMAIN T /\ T[id] = kept[id]
      BY <3>2, RetainedPrevails
    <3>3. T \in LoadPublicKeys(dir[x.purpose]) \/ \E m \in Material(x.purpose) : T \in PublicKeys(m, dir[x.purpose])
      BY <2>1, Zenon DEF Current
    <3>4. QED BY <3>1, <3>2, <3>3, Zenon
  <2>5. QED BY <2>3, <2>4, Zenon
<1>4. QED BY <1>1, <1>2, <1>3, PTL DEF RingSpec

-----------------------------------------------------------------------------
(* The order contracts are sorted by *)

Keyed(c) == c.id \in Int /\ c.version \in Int /\ ActionRank(c.action) \in Int

KeyedSeq(s, n) ==
  /\ n \in Nat
  /\ s = [i \in 1..n |-> s[i]]
  /\ \A i \in 1..n : Keyed(s[i])

\* An action name has a place in the order of the names.
LEMMA RankIsNumber == ASSUME NEW a \in Actions PROVE ActionRank(a) \in Int
<1>1. PICK i \in DOMAIN ActionOrder : ActionOrder[i] = a
  BY Zenon DEF Actions
<1>2. ActionRank(a) \in DOMAIN ActionOrder
  BY <1>1, Zenon DEF ActionRank
<1>3. DOMAIN ActionOrder \subseteq Int
  BY SMTT(30) DEF ActionOrder
<1>4. QED BY <1>2, <1>3

\* ContractBefore is irreflexive and transitive, and what it cannot tell apart
\* it treats alike.
LEMMA KeyOrder ==
  ASSUME NEW c, NEW d, NEW e, Keyed(c), Keyed(d), Keyed(e)
  PROVE  /\ ~ContractBefore(c, c)
         /\ ContractBefore(c, d) => ~ContractBefore(d, c)
         /\ ContractBefore(c, d) /\ ContractBefore(d, e) => ContractBefore(c, e)
         /\ ContractBefore(c, d) => ContractBefore(c, e) \/ ContractBefore(e, d)
BY DEF Keyed, ContractBefore

\* The stable order is a strict total order on the positions of a sequence.
LEMMA StableOrder ==
  ASSUME NEW s, NEW n, KeyedSeq(s, n)
  PROVE  /\ \A i \in 1..n : ~StablyBefore(s, i, i)
         /\ \A i, j \in 1..n : i # j => StablyBefore(s, i, j) \/ StablyBefore(s, j, i)
         /\ \A i, j \in 1..n : StablyBefore(s, i, j) => ~StablyBefore(s, j, i)
         /\ \A i, j, k \in 1..n :
              StablyBefore(s, i, j) /\ StablyBefore(s, j, k) => StablyBefore(s, i, k)
<1> USE DEF KeyedSeq
<1>1. ASSUME NEW i \in 1..n, NEW j \in 1..n, NEW k \in 1..n
      PROVE  /\ ~ContractBefore(s[i], s[i])
             /\ ContractBefore(s[i], s[j]) => ~ContractBefore(s[j], s[i])
             /\ ContractBefore(s[i], s[j]) /\ ContractBefore(s[j], s[k]) => ContractBefore(s[i], s[k])
             /\ ContractBefore(s[i], s[j]) => ContractBefore(s[i], s[k]) \/ ContractBefore(s[k], s[j])
  BY KeyOrder
<1>2. \A i \in 1..n : ~StablyBefore(s, i, i)
  BY <1>1 DEF StablyBefore
<1>3. ASSUME NEW i \in 1..n, NEW j \in 1..n
      PROVE  /\ i # j => StablyBefore(s, i, j) \/ StablyBefore(s, j, i)
             /\ StablyBefore(s, i, j) => ~StablyBefore(s, j, i)
  BY <1>1 DEF StablyBefore
<1>4. ASSUME NEW i \in 1..n, NEW j \in 1..n, NEW k \in 1..n,
             StablyBefore(s, i, j), StablyBefore(s, j, k)
      PROVE  StablyBefore(s, i, k)
  BY <1>1, <1>4 DEF StablyBefore
<1>5. QED BY <1>2, <1>3, <1>4

-----------------------------------------------------------------------------
(* sort.SliceStable: every contract has a place of its own *)

\* There are n positions in a sequence of n.
LEMMA IntervalSize == ASSUME NEW n \in Nat PROVE IsFiniteSet(1..n) /\ Cardinality(1..n) = n
BY FS_Interval

Before(s, n, i) == {j \in 1..n : StablyBefore(s, j, i)}

\* Places are positions of the sequence, and they follow the stable order.
LEMMA PlacesFollow ==
  ASSUME NEW s, NEW n, KeyedSeq(s, n)
  PROVE  /\ \A i \in 1..n : PlaceOf(s, i) \in 1..n
         /\ \A i, j \in 1..n : StablyBefore(s, i, j) => PlaceOf(s, i) < PlaceOf(s, j)
<1> USE DEF KeyedSeq
<1>1. DOMAIN s = 1..n
  OBVIOUS
<1>2. IsFiniteSet(1..n) /\ Cardinality(1..n) = n
  BY IntervalSize
<1>3. \A i \in 1..n : PlaceOf(s, i) = 1 + Cardinality(Before(s, n, i))
  BY <1>1, Zenon DEF PlaceOf, Before
<1>4. ASSUME NEW i \in 1..n
      PROVE  IsFiniteSet(Before(s, n, i)) /\ Cardinality(Before(s, n, i)) \in 0..(n - 1)
  <2>1. IsFiniteSet((1..n) \ {i}) /\ Cardinality((1..n) \ {i}) = n - 1
    BY <1>2, FS_RemoveElement
  <2>2. Before(s, n, i) \in SUBSET ((1..n) \ {i})
    BY StableOrder DEF Before
  <2>3. IsFiniteSet(Before(s, n, i)) /\ Cardinality(Before(s, n, i)) <= n - 1
    BY <2>1, <2>2, FS_Subset
  <2>4. Cardinality(Before(s, n, i)) \in Nat
    BY <2>3, FS_CardinalityType
  <2>5. QED BY <2>3, <2>4
<1>5. ASSUME NEW i \in 1..n, NEW j \in 1..n, StablyBefore(s, i, j)
      PROVE  Cardinality(Before(s, n, i)) < Cardinality(Before(s, n, j))
  <2>1. i \notin Before(s, n, i)
    BY StableOrder DEF Before
  <2>2. Cardinality(Before(s, n, i) \cup {i}) = Cardinality(Before(s, n, i)) + 1
    BY <1>4, <2>1, FS_AddElement
  <2>3. Before(s, n, i) \cup {i} \in SUBSET Before(s, n, j)
    BY <1>5, StableOrder DEF Before
  <2>4. Cardinality(Before(s, n, i) \cup {i}) <= Cardinality(Before(s, n, j))
    BY <1>4, <2>3, FS_Subset, SMTT(30)
  <2>5. QED BY <1>4, <2>2, <2>4
<1>6. QED BY <1>3, <1>4, <1>5, SMTT(30)

At(s, k) == CHOOSE i \in DOMAIN s : PlaceOf(s, i) = k

\* Every place is taken, by one contract; the sorted sequence has the contracts
\* of the sequence it sorts, each once, in the stable order.
LEMMA SortPermutes ==
  ASSUME NEW s, NEW n, KeyedSeq(s, n)
  PROVE  /\ sortContracts(s) = [k \in 1..n |-> s[At(s, k)]]
         /\ \A k \in 1..n : At(s, k) \in 1..n /\ PlaceOf(s, At(s, k)) = k
         /\ \A i \in 1..n : PlaceOf(s, i) \in 1..n /\ At(s, PlaceOf(s, i)) = i
         /\ \A k, l \in 1..n : k < l => StablyBefore(s, At(s, k), At(s, l))
<1> USE DEF KeyedSeq
<1> DEFINE place == [i \in 1..n |-> PlaceOf(s, i)]
<1>1. DOMAIN s = 1..n
  OBVIOUS
<1>2. /\ \A i \in 1..n : PlaceOf(s, i) \in 1..n
      /\ \A i, j \in 1..n : PlaceOf(s, i) = PlaceOf(s, j) => i = j
  BY PlacesFollow, StableOrder, SMTT(30)
<1>3. place \in Injection(1..n, 1..n)
  BY <1>2, Zenon DEF Injection, IsInjective
<1>4. place \in Surjection(1..n, 1..n)
  BY <1>3, FS_Injection, IntervalSize
<1>5. \A k \in 1..n : \E i \in 1..n : PlaceOf(s, i) = k
  BY <1>4, Zenon DEF Surjection
<1>6. \A k \in 1..n : At(s, k) \in 1..n /\ PlaceOf(s, At(s, k)) = k
  BY <1>1, <1>5, Zenon DEF At
<1>7. \A i \in 1..n : PlaceOf(s, i) \in 1..n /\ At(s, PlaceOf(s, i)) = i
  BY <1>2, <1>6, Zenon
<1>8. sortContracts(s) = [k \in 1..n |-> s[At(s, k)]]
  BY <1>1, Zenon DEF sortContracts, At
<1>9. ASSUME NEW k \in 1..n, NEW l \in 1..n, k < l
      PROVE  StablyBefore(s, At(s, k), At(s, l))
  <2>1. At(s, k) # At(s, l)
    BY <1>6, <1>9
  <2>2. ~StablyBefore(s, At(s, l), At(s, k))
    BY <1>6, <1>9, PlacesFollow
  <2>3. QED BY <1>6, <2>1, <2>2, StableOrder
<1>10. QED BY <1>6, <1>7, <1>8, <1>9, SMTT(30)

\* What is in order is left as it is.
LEMMA SortKeepsSorted ==
  ASSUME NEW s, NEW n, KeyedSeq(s, n),
         \A i, j \in 1..n : i < j => ~ContractBefore(s[j], s[i])
  PROVE  sortContracts(s) = s
<1> USE DEF KeyedSeq
<1>1. ASSUME NEW i \in 1..n PROVE Before(s, n, i) = 1..(i - 1)
  <2>1. ASSUME NEW j \in 1..n PROVE StablyBefore(s, j, i) <=> j < i
    <3>1. j < i => StablyBefore(s, j, i)
      BY DEF StablyBefore
    <3>2. i < j => StablyBefore(s, i, j)
      BY DEF StablyBefore
    <3>3. QED BY <3>1, <3>2, StableOrder
  <2>2. QED BY <2>1 DEF Before
<1>2. DOMAIN s = 1..n
  OBVIOUS
<1>3. ASSUME NEW i \in 1..n PROVE PlaceOf(s, i) = i
  <2>1. PlaceOf(s, i) = 1 + Cardinality(1..(i - 1))
    BY <1>1, <1>2, Zenon DEF PlaceOf, Before
  <2>2. Cardinality(1..(i - 1)) = i - 1
    <3>1. i - 1 \in Nat
      OBVIOUS
    <3>2. QED BY <3>1, IntervalSize
  <2>3. QED BY <2>1, <2>2
<1>4. \A k \in 1..n : At(s, k) = k
  BY <1>3, SortPermutes
<1>5. QED BY <1>4, SortPermutes, SMTT(30)

\* Sorting twice is sorting once.
LEMMA SortTwice ==
  ASSUME NEW s, NEW n, KeyedSeq(s, n)
  PROVE  KeyedSeq(sortContracts(s), n) /\ sortContracts(sortContracts(s)) = sortContracts(s)
<1> DEFINE t == sortContracts(s)
<1>1. /\ t = [k \in 1..n |-> s[At(s, k)]]
      /\ \A k \in 1..n : At(s, k) \in 1..n
      /\ \A k, l \in 1..n : k < l => StablyBefore(s, At(s, k), At(s, l))
  BY SortPermutes
<1> HIDE DEF t
<1>2. KeyedSeq(t, n)
  BY <1>1 DEF KeyedSeq
<1>3. ASSUME NEW k \in 1..n, NEW l \in 1..n, k < l PROVE ~ContractBefore(t[l], t[k])
  <2>1. StablyBefore(s, At(s, k), At(s, l)) /\ At(s, k) \in 1..n /\ At(s, l) \in 1..n
    BY <1>1, <1>3
  <2>2. ~ContractBefore(s[At(s, l)], s[At(s, k)])
    BY <2>1, KeyOrder DEF StablyBefore, KeyedSeq
  <2>3. QED BY <1>1, <2>2
<1>4. sortContracts(t) = t
  BY <1>2, <1>3, SortKeepsSorted
<1>5. QED BY <1>2, <1>4 DEF t

-----------------------------------------------------------------------------
(* Normal form *)

\* Dropping the empty string twice is dropping it once.
LEMMA NormalStrings ==
  ASSUME NEW v
  PROVE  normalizeStringSlice(normalizeStringSlice(v)) = normalizeStringSlice(v)
BY Zenon DEF normalizeStringSlice

\* Normalisation of a contract, field by field.
LEMMA NormalRecord ==
  ASSUME NEW c, IsContract(c)
  PROVE  normalizeContract(c) =
           [ id |-> c.id, version |-> c.version, action |-> c.action, schema |-> c.schema,
             maxBytes |-> c.maxBytes, idempotent |-> c.idempotent,
             links |-> normalizeStringSlice(c.links), scopes |-> normalizeStringSlice(c.scopes),
             topologyAllowed |-> c.topologyAllowed, complete |-> c.complete ]
<1> DEFINE links == normalizeStringSlice(c.links)
           scopes == normalizeStringSlice(c.scopes)
           linked == [c EXCEPT !.links = links]
<1>1. normalizeContract(c) = [linked EXCEPT !.scopes = scopes]
  BY Zenon DEF normalizeContract
<1> HIDE DEF links, scopes
<1>2. linked = [ id |-> c.id, version |-> c.version, action |-> c.action, schema |-> c.schema,
                 maxBytes |-> c.maxBytes, idempotent |-> c.idempotent, links |-> links,
                 scopes |-> c.scopes, topologyAllowed |-> c.topologyAllowed,
                 complete |-> c.complete ]
  BY DEF IsContract
<1> HIDE DEF linked
<1>3. [linked EXCEPT !.scopes = scopes] =
        [ id |-> c.id, version |-> c.version, action |-> c.action, schema |-> c.schema,
          maxBytes |-> c.maxBytes, idempotent |-> c.idempotent, links |-> links,
          scopes |-> scopes, topologyAllowed |-> c.topologyAllowed, complete |-> c.complete ]
  BY <1>2
<1>4. QED BY <1>1, <1>3 DEF links, scopes

\* A normal contract keeps what it is sorted and resolved by, and is left alone.
LEMMA NormalContract ==
  ASSUME NEW c, IsContract(c)
  PROVE  /\ IsContract(normalizeContract(c))
         /\ normalizeContract(normalizeContract(c)) = normalizeContract(c)
         /\ Keyed(normalizeContract(c))
         /\ normalizeContract(c) =
              [ id |-> c.id, version |-> c.version, action |-> c.action, schema |-> c.schema,
                maxBytes |-> c.maxBytes, idempotent |-> c.idempotent,
                links |-> normalizeStringSlice(c.links), scopes |-> normalizeStringSlice(c.scopes),
                topologyAllowed |-> c.topologyAllowed, complete |-> c.complete ]
<1> DEFINE d == normalizeContract(c)
<1>1. d = [ id |-> c.id, version |-> c.version, action |-> c.action, schema |-> c.schema,
            maxBytes |-> c.maxBytes, idempotent |-> c.idempotent,
            links |-> normalizeStringSlice(c.links), scopes |-> normalizeStringSlice(c.scopes),
            topologyAllowed |-> c.topologyAllowed, complete |-> c.complete ]
  BY NormalRecord
<1> HIDE DEF d
<1>2. IsContract(d)
  BY <1>1, SMTT(30) DEF IsContract
<1>3. normalizeStringSlice(d.links) = d.links /\ normalizeStringSlice(d.scopes) = d.scopes
  BY <1>1, NormalStrings
<1>4. normalizeContract(d) = d
  BY <1>2, <1>3, NormalRecord DEF IsContract
<1>5. Keyed(d)
  BY <1>2, RankIsNumber DEF Keyed, IsContract
<1>6. QED BY <1>1, <1>2, <1>4, <1>5, SMTT(30) DEF d

\* Normalisation permutes the normal contracts, keeps every other field, and
\* leaves what is normal alone.
LEMMA NormalDocument ==
  ASSUME NEW d, IsDocument(d)
  PROVE  LET m == normalizeManifest(d)
             positions == 1..Len(d.contracts)
         IN  /\ IsDocument(m)
             /\ normalizeManifest(m) = m
             /\ m = [d EXCEPT !.contracts = m.contracts]
             /\ DOMAIN m.contracts = positions
             /\ \E p \in [positions -> positions] :
                  /\ \A j, k \in positions : p[j] = p[k] => j = k
                  /\ \A i \in positions : \E k \in positions : p[k] = i
                  /\ \A k \in positions : m.contracts[k] = normalizeContract(d.contracts[p[k]])
<1> DEFINE n == Len(d.contracts)
           s == [i \in 1..n |-> normalizeContract(d.contracts[i])]
           t == sortContracts(s)
           m == normalizeManifest(d)
<1>1. n \in Nat /\ DOMAIN d.contracts = 1..n /\ \A i \in 1..n : IsContract(d.contracts[i])
  BY DEF IsDocument
<1>2. m = [d EXCEPT !.contracts = t]
  BY <1>1, Zenon DEF normalizeManifest
<1> HIDE DEF n, m, t
<1>3. \A i \in 1..n : IsContract(s[i]) /\ Keyed(s[i]) /\ normalizeContract(s[i]) = s[i]
  BY <1>1, NormalContract, SMTT(30)
<1>4. KeyedSeq(s, n)
  BY <1>1, <1>3, SMTT(30) DEF KeyedSeq
<1>5. /\ t = [k \in 1..n |-> s[At(s, k)]]
      /\ \A k \in 1..n : At(s, k) \in 1..n /\ PlaceOf(s, At(s, k)) = k
      /\ \A i \in 1..n : PlaceOf(s, i) \in 1..n /\ At(s, PlaceOf(s, i)) = i
  BY <1>4, SortPermutes DEF t
<1>6. KeyedSeq(t, n) /\ sortContracts(t) = t
  BY <1>4, SortTwice DEF t
<1> HIDE DEF s
<1>7. \A k \in 1..n : IsContract(t[k]) /\ normalizeContract(t[k]) = t[k]
  BY <1>3, <1>5
<1>8. DOMAIN t = 1..n /\ t \in Seq({t[k] : k \in DOMAIN t}) /\ Len(t) = n
  BY <1>1, <1>5, <1>7
<1>9. m = [ schemaOk |-> d.schemaOk, tenant |-> d.tenant, id |-> d.id, catalog |-> d.catalog,
            keyId |-> d.keyId, issued |-> d.issued, expires |-> d.expires,
            contracts |-> t, hash |-> d.hash, sig |-> d.sig ]
  BY <1>2 DEF IsDocument
<1>10. m.contracts = t /\ IsDocument(m)
  <2>1. m.contracts = t /\ m.expires = d.expires /\ d.expires \in Int
    BY <1>9 DEF IsDocument
  <2>2. QED BY <1>7, <1>8, <1>9, <2>1, Zenon DEF IsDocument
<1>11. normalizeManifest(m) = m
  <2>1. [i \in DOMAIN t |-> normalizeContract(t[i])] = t
    BY <1>5, <1>7, <1>8
  <2>2. normalizeManifest(m) = [m EXCEPT !.contracts = sortContracts(t)]
    BY <1>10, <2>1, Zenon DEF normalizeManifest
  <2>3. QED BY <1>6, <1>9, <2>2
<1>12. \E p \in [1..n -> 1..n] :
         /\ \A j, k \in 1..n : p[j] = p[k] => j = k
         /\ \A i \in 1..n : \E k \in 1..n : p[k] = i
         /\ \A k \in 1..n : t[k] = normalizeContract(d.contracts[p[k]])
  <2> DEFINE p == [k \in 1..n |-> At(s, k)]
  <2>1. p \in [1..n -> 1..n]
    BY <1>5
  <2>2. \A j, k \in 1..n : p[j] = p[k] => j = k
    BY <1>5
  <2>3. \A i \in 1..n : \E k \in 1..n : p[k] = i
    BY <1>5
  <2>4. \A k \in 1..n : t[k] = normalizeContract(d.contracts[p[k]])
    BY <1>5 DEF s
  <2> HIDE DEF p
  <2>5. QED BY <2>1, <2>2, <2>3, <2>4
<1>13. QED BY <1>2, <1>8, <1>10, <1>11, <1>12, Zenon DEF m, n

-----------------------------------------------------------------------------
(* The cache *)

CacheInv ==
  /\ nowMS \in 1..MaxTime
  /\ \A h \in DOMAIN manifests :
       /\ IsDocument(manifests[h])
       /\ manifests[h].hash = h
       /\ normalizeManifest(manifests[h]) = manifests[h]
       /\ Authentic(manifests[h])

\* What PutVerified files is normal and authentic, under its own hash; what was
\* filed under another hash stays.
LEMMA PutFiles ==
  ASSUME NEW doc, IsDocument(doc), PutVerified(doc)
  PROVE  LET m == normalizeManifest(doc) IN
         /\ IsDocument(m) /\ normalizeManifest(m) = m /\ Authentic(m)
         /\ DOMAIN manifests' = DOMAIN manifests \cup {m.hash}
         /\ manifests'[m.hash] = m
         /\ \A h \in DOMAIN manifests : h # m.hash => manifests'[h] = manifests[h]
         /\ nowMS' = nowMS
<1> DEFINE m == normalizeManifest(doc)
<1>1. IsDocument(m) /\ normalizeManifest(m) = m
  BY NormalDocument, Zenon
<1>2. Authentic(m) /\ manifests' = MapPut(manifests, m.hash, m) /\ nowMS' = nowMS
  BY Zenon DEF PutVerified, Verify
<1> HIDE DEF m
<1>3. /\ DOMAIN manifests' = DOMAIN manifests \cup {m.hash}
      /\ manifests'[m.hash] = m
      /\ \A h \in DOMAIN manifests : h # m.hash => manifests'[h] = manifests[h]
  BY <1>2 DEF MapPut
<1>4. QED BY <1>1, <1>2, <1>3, Zenon DEF m

\* PutVerified and the clock keep the cache authentic.
LEMMA PutKeeps ==
  ASSUME CacheInv, NEW doc, IsDocument(doc), PutVerified(doc)
  PROVE  CacheInv'
<1> DEFINE m == normalizeManifest(doc)
<1>1. /\ IsDocument(m) /\ normalizeManifest(m) = m /\ Authentic(m)
      /\ DOMAIN manifests' = DOMAIN manifests \cup {m.hash}
      /\ manifests'[m.hash] = m
      /\ \A h \in DOMAIN manifests : h # m.hash => manifests'[h] = manifests[h]
      /\ nowMS' = nowMS
  BY PutFiles, Zenon
<1> HIDE DEF m
<1>2. ASSUME NEW h \in DOMAIN manifests'
      PROVE  /\ IsDocument(manifests'[h])
             /\ manifests'[h].hash = h
             /\ normalizeManifest(manifests'[h]) = manifests'[h]
             /\ Authentic(manifests'[h])
  <2>1. CASE h = m.hash
    BY <1>1, <2>1, Zenon
  <2>2. CASE h # m.hash
    BY <1>1, <2>2, Zenon DEF CacheInv
  <2>3. QED BY <2>1, <2>2
<1>3. QED BY <1>1, <1>2, Zenon DEF CacheInv

\* Time and stuttering keep the cache.
LEMMA TickKeeps ==
  ASSUME CacheInv, Tick \/ UNCHANGED cacheVars
  PROVE  CacheInv'
<1>1. manifests' = manifests
  BY DEF Tick, cacheVars
<1>2. nowMS' \in 1..MaxTime
  BY MaxTimeAssumption DEF CacheInv, Tick, cacheVars
<1>3. QED BY <1>1, <1>2, Zenon DEF CacheInv

\* The cache starts empty.
LEMMA CacheInitInv == CacheInit => CacheInv
BY MaxTimeAssumption DEF CacheInit, CacheInv

\* The invariant of the cache by itself.
LEMMA CacheInvHolds == CacheSpec => []CacheInv
<1>1. CacheInv /\ [CacheNext]_cacheVars => CacheInv'
  BY PutKeeps, TickKeeps, DocumentsAssumption, Zenon DEF CacheNext
<1>2. QED BY CacheInitInv, <1>1, PTL DEF CacheSpec

\* PutVerified: whatever is filed under a hash is in normal form, hashes to it,
\* and was signed by the trusted key it names.
THEOREM CachedDocumentsAuthenticAlways == CacheSpec => []CachedDocumentsAuthentic
<1>1. CacheInv => CachedDocumentsAuthentic
  BY Zenon DEF CacheInv, CachedDocumentsAuthentic
<1>2. QED BY <1>1, CacheInvHolds, PTL

\* A normal document that is authentic carries its own hash.
LEMMA AuthenticHash ==
  ASSUME NEW m, normalizeManifest(m) = m, Authentic(m)
  PROVE  ComputeManifestHash(m) = m.hash
BY Zenon DEF Authentic

\* The hash a cached document has is the hash it is filed under.
LEMMA CachedHash ==
  ASSUME CacheInv, NEW h \in DOMAIN manifests
  PROVE  ComputeManifestHash(manifests[h]) = h
BY AuthenticHash, Zenon DEF CacheInv

\* PutVerified overwrites by hash: no later document changes what a hash already
\* in the cache stands for, nor makes the entry disappear.
THEOREM CachedContentNeverChangesHolds == CacheSpec => CachedContentNeverChanges
<1> DEFINE Whole == \A h \in DOMAIN manifests :
                     /\ h \in DOMAIN manifests'
                     /\ ComputeManifestHash(manifests'[h]) = ComputeManifestHash(manifests[h])
<1>1. ASSUME CacheInv, CacheInv', [CacheNext]_cacheVars PROVE [Whole]_manifests
  <2>1. \A h \in DOMAIN manifests' : ComputeManifestHash(manifests'[h]) = h
    BY <1>1, AuthenticHash, Zenon DEF CacheInv
  <2>2. DOMAIN manifests \subseteq DOMAIN manifests'
    <3>1. ASSUME NEW doc \in Documents, PutVerified(doc)
          PROVE  DOMAIN manifests \subseteq DOMAIN manifests'
      BY <3>1, PutFiles, DocumentsAssumption, Zenon
    <3>2. (Tick \/ UNCHANGED cacheVars) => manifests' = manifests
      BY Zenon DEF Tick, cacheVars
    <3>3. QED BY <1>1, <3>1, <3>2, Zenon DEF CacheNext
  <2>3. QED BY <1>1, <2>1, <2>2, CachedHash, Zenon
<1>2. QED BY <1>1, CacheInvHolds, PTL DEF CacheSpec, CachedContentNeverChanges

-----------------------------------------------------------------------------
(* Resolving a contract *)

OnlyOne(m, i) ==
  \A j \in DOMAIN m.contracts : j # i =>
    <<m.contracts[j].id, m.contracts[j].version>> # <<m.contracts[i].id, m.contracts[i].version>>

\* A contract that no other shares identifier and version with is the one found.
LEMMA Found ==
  ASSUME NEW m, IsDocument(m), NEW i \in DOMAIN m.contracts, OnlyOne(m, i)
  PROVE  findContract(m, ReferenceTo(m, m.contracts[i])) = {m.contracts[i]}
<1> DEFINE ref == ReferenceTo(m, m.contracts[i])
           hits == { j \in DOMAIN m.contracts :
                       m.contracts[j].id = ref.id /\ m.contracts[j].version = ref.version }
<1>1. ref.id = m.contracts[i].id /\ ref.version = m.contracts[i].version
  BY DEF ReferenceTo
<1> HIDE DEF ref
<1>2. hits = {i}
  BY <1>1 DEF OnlyOne
<1>3. i <= i
  BY DEF IsDocument
<1>4. { j \in hits : \A k \in hits : j <= k } = {i}
  BY <1>2, <1>3, Zenon
<1>5. findContract(m, ref) = { m.contracts[k] : k \in { j \in hits : \A k \in hits : j <= k } }
  BY Zenon DEF findContract
<1> HIDE DEF hits
<1>6. QED BY <1>4, <1>5 DEF ref

\* It resolves to its own exchange manifest until the document expires, and to
\* nothing from then on.
LEMMA Resolves ==
  ASSUME CacheInv, NEW h \in DOMAIN manifests, NEW i \in DOMAIN manifests[h].contracts,
         OnlyOne(manifests[h], i)
  PROVE  LET m == manifests[h]
             c == m.contracts[i]
             resolved == ResolveManifest(ReferenceTo(m, c))
         IN  IF nowMS < m.expires THEN resolved = {toExchangeManifest(m, c)} ELSE resolved = {}
<1> DEFINE m == manifests[h]
           c == m.contracts[i]
           ref == ReferenceTo(m, c)
           chosen == {d \in findContract(m, ref) : Verify(m, nowMS) /\ d.schema = ref.schema}
<1>1. /\ IsDocument(m) /\ m.hash = h /\ Authentic(m)
      /\ m.expires \in Int /\ nowMS \in Int
  BY DEF CacheInv, IsDocument
<1>2. findContract(m, ref) = {c}
  BY <1>1, Found, Zenon
<1>3. ref.hash = h /\ ref.schema = c.schema
  BY <1>1, Zenon DEF ReferenceTo
<1>4. Verify(m, nowMS) <=> nowMS < m.expires
  BY <1>1 DEF Verify
<1>5. ResolveManifest(ref) = { toExchangeManifest(m, d) : d \in chosen }
  BY <1>3, Zenon DEF ResolveManifest
<1>6. chosen = IF nowMS < m.expires THEN {c} ELSE {}
  BY <1>2, <1>3, <1>4, Zenon
<1> HIDE DEF m, c, ref, chosen
<1>7. ResolveManifest(ref) = IF nowMS < m.expires THEN {toExchangeManifest(m, c)} ELSE {}
  BY <1>5, <1>6, ZenonT(30)
<1>8. QED BY <1>7, ZenonT(30) DEF m, c, ref

\* ResolveManifest and findContract: a declared contract resolves to its own
\* action until its document expires, and to nothing from that instant.
THEOREM DeclaredContractsResolveAlways == CacheSpec => []DeclaredContractsResolve
<1>1. ASSUME CacheInv PROVE DeclaredContractsResolve
  <2>1. SUFFICES ASSUME NEW h \in DOMAIN manifests, NEW i \in DOMAIN manifests[h].contracts,
                        OnlyOne(manifests[h], i)
                 PROVE  LET m == manifests[h]
                            c == m.contracts[i]
                            resolved == ResolveManifest(ReferenceTo(m, c))
                        IN  IF nowMS < m.expires
                              THEN \E x \in resolved : DOMAIN x.actions = {c.action}
                              ELSE resolved = {}
    BY Zenon DEF DeclaredContractsResolve, OnlyOne
  <2>2. ASSUME NEW m, NEW c PROVE DOMAIN toExchangeManifest(m, c).actions = {c.action}
    BY Zenon DEF toExchangeManifest
  <2>3. CASE nowMS < manifests[h].expires
    <3> DEFINE m == manifests[h]
               c == m.contracts[i]
    <3>1. ResolveManifest(ReferenceTo(m, c)) = {toExchangeManifest(m, c)}
      BY <1>1, <2>1, <2>3, Resolves, Zenon
    <3> HIDE DEF m, c
    <3>2. \E x \in ResolveManifest(ReferenceTo(m, c)) : DOMAIN x.actions = {c.action}
      BY <2>2, <3>1, Zenon
    <3>3. QED BY <2>3, <3>2, Zenon DEF m, c
  <2>4. CASE ~(nowMS < manifests[h].expires)
    BY <1>1, <2>1, <2>4, Resolves, Zenon
  <2>5. QED BY <2>3, <2>4
<1>2. QED BY <1>1, CacheInvHolds, PTL

-----------------------------------------------------------------------------
(* The compiled pack *)

\* The contracts are numbered 1 to 7, and each is listed once.
LEMMA Numbered ==
  /\ Ids = 1..7 /\ DOMAIN Listed = 1..7 /\ \A k \in 1..7 : Listed[k] \in 1..7
  /\ \A j, k \in 1..7 : Listed[j] = Listed[k] => j = k
  /\ \A i \in 1..7 : \E k \in 1..7 : Listed[k] = i
  /\ Invoice = 1 /\ OrderConfirmation = 2 /\ PaymentStatus = 3 /\ PurchaseOrder = 4
  /\ QuoteResponse = 5 /\ RequestForQuote = 6 /\ ShipmentStatus = 7
BY SMTT(30) DEF Ids, Listed, Invoice, OrderConfirmation, PaymentStatus, PurchaseOrder, QuoteResponse,
       RequestForQuote, ShipmentStatus

\* Their actions and kinds, by number.
ActionOf ==
  << "issue_invoice", "confirm_order", "update_payment_status", "submit_purchase_order",
     "submit_quote", "request_for_quote", "update_shipment_status" >>
KindOf ==
  << "order_to_cash.invoice", "order_to_cash.order_confirmation", "order_to_cash.payment_status",
     "order_to_cash.purchase_order", "order_to_cash.quote", "order_to_cash.request_for_quote",
     "order_to_cash.shipment_status" >>

\* What an interaction of the pack is like.
Formed(x, id) ==
  /\ x.action = ActionOf[id] /\ x.kind = KindOf[id] /\ x.results \subseteq Ids
  /\ Common \subseteq x.schema.required /\ x.schema.required \subseteq DOMAIN x.schema.types
  /\ DOMAIN x.schema.types \cap TopologyKeys = {}
  /\ \A p \in DOMAIN x.schema.types : x.schema.types[p] = TypeOf(p)

\* Interaction makes one like it.
LEMMA MakesFormed ==
  ASSUME NEW id \in Ids, NEW required, NEW optional, NEW results \in SUBSET Ids,
         (required \cup optional) \cap TopologyKeys = {}
  PROVE  Formed(Interaction(ActionOf[id], KindOf[id], required, optional, results), id)
<1>1. Common \cap TopologyKeys = {}
  BY DEF Common, TopologyKeys
<1>2. QED BY <1>1 DEF Formed, Interaction

\* All seven are.
LEMMA Compiled == \A id \in Ids : Formed(interactions[id], id)
<1>1. Formed(interactions[1], 1)
  BY Numbered, MakesFormed, SMTT(30) DEF interactions, ActionOf, KindOf, TopologyKeys
<1>2. Formed(interactions[2], 2)
  BY Numbered, MakesFormed, SMTT(30) DEF interactions, ActionOf, KindOf, TopologyKeys
<1>3. Formed(interactions[3], 3)
  BY Numbered, MakesFormed, SMTT(30) DEF interactions, ActionOf, KindOf, TopologyKeys
<1>4. Formed(interactions[4], 4)
  BY Numbered, MakesFormed, SMTT(30) DEF interactions, ActionOf, KindOf, TopologyKeys
<1>5. Formed(interactions[5], 5)
  BY Numbered, MakesFormed, SMTT(30) DEF interactions, ActionOf, KindOf, TopologyKeys
<1>6. Formed(interactions[6], 6)
  BY Numbered, MakesFormed, SMTT(30) DEF interactions, ActionOf, KindOf, TopologyKeys
<1>7. Formed(interactions[7], 7)
  BY Numbered, MakesFormed, SMTT(30) DEF interactions, ActionOf, KindOf, TopologyKeys
<1>8. QED BY <1>1, <1>2, <1>3, <1>4, <1>5, <1>6, <1>7, Numbered, SMTT(30)

\* No two contracts of the pack share an action or a kind.
LEMMA Distinct ==
  \A i, j \in Ids : i # j => /\ interactions[i].action # interactions[j].action
                             /\ interactions[i].kind # interactions[j].kind
<1>1. \A i, j \in 1..7 : i # j => ActionOf[i] # ActionOf[j] /\ KindOf[i] # KindOf[j]
  BY DEF ActionOf, KindOf
<1>2. Ids = 1..7 /\ \A i \in Ids : /\ interactions[i].action = ActionOf[i]
                                  /\ interactions[i].kind = KindOf[i]
  BY Compiled, Numbered, Zenon DEF Formed
<1>3. ASSUME NEW i \in Ids, NEW j \in Ids, i # j
      PROVE  /\ interactions[i].action # interactions[j].action
             /\ interactions[i].kind # interactions[j].kind
  <2>1. ActionOf[i] # ActionOf[j] /\ KindOf[i] # KindOf[j]
    BY <1>1, <1>2, <1>3, Zenon
  <2>2. /\ interactions[i].action = ActionOf[i] /\ interactions[j].action = ActionOf[j]
        /\ interactions[i].kind = KindOf[i] /\ interactions[j].kind = KindOf[j]
    BY <1>2, Zenon
  <2>3. QED BY <2>1, <2>2, SMTT(30)
<1>4. QED BY <1>3, Zenon

\* Trimming changes none of their texts.
LEMMA Plain ==
  ASSUME NEW id \in Ids
  PROVE  /\ Trim(interactions[id].action) = interactions[id].action
         /\ Trim(interactions[id].kind) = interactions[id].kind
         /\ interactions[id].action # ""
         /\ interactions[id].kind \notin TopologyStrings
<1>1. \A i \in 1..7 : /\ ActionOf[i] \in {"issue_invoice", "confirm_order", "update_payment_status",
                            "submit_purchase_order", "submit_quote", "request_for_quote",
                            "update_shipment_status"}
                      /\ KindOf[i] \in {"order_to_cash.invoice", "order_to_cash.order_confirmation",
                            "order_to_cash.payment_status", "order_to_cash.purchase_order",
                            "order_to_cash.quote", "order_to_cash.request_for_quote",
                            "order_to_cash.shipment_status"}
  BY DEF ActionOf, KindOf
<1>2. interactions[id].action = ActionOf[id] /\ interactions[id].kind = KindOf[id] /\ id \in 1..7
  BY Compiled, Numbered, Zenon DEF Formed
<1>3. Trim(ActionOf[id]) = ActionOf[id] /\ ActionOf[id] # ""
  BY <1>1, <1>2, ZenonT(30) DEF Trim
<1>4. Trim(KindOf[id]) = KindOf[id]
  BY <1>1, <1>2, ZenonT(30) DEF Trim
<1>5. KindOf[id] \notin TopologyStrings
  BY <1>1, <1>2, ZenonT(30) DEF TopologyStrings
<1>6. QED BY <1>2, <1>3, <1>4, <1>5, Zenon

\* The hash of a schema is the number of a contract of the pack.
LEMMA SchemaHashIsId ==
  ASSUME NEW id \in Ids
  PROVE  PayloadSchemaHash(id) \in Ids
<1> DEFINE same == {k \in Ids : PayloadSchema(k) = PayloadSchema(id)}
<1>1. id \in same /\ same \subseteq Nat
  BY Numbered
<1>2. PICK k \in same : \A j \in same : <<j, k>> \notin OpToRel(<, Nat)
  BY <1>1, WFMin, NatLessThanWellFounded, Zenon
<1>3. \A j \in same : k <= j
  <2>1. \A j \in same : ~(j < k)
    BY <1>1, <1>2, Zenon DEF OpToRel
  <2>2. QED BY <1>1, <2>1
<1>4. k \in Ids /\ PayloadSchema(k) = PayloadSchema(id)
      /\ \A j \in Ids : PayloadSchema(j) = PayloadSchema(id) => k <= j
  BY <1>3, Zenon
<1>5. QED BY <1>4, Zenon DEF PayloadSchemaHash

-----------------------------------------------------------------------------
(* The contracts of the pack *)

\* What the pack offers under a contract, whatever its manifest is built from.
PackContract(c) ==
  /\ c.id \in Ids /\ c.version = 1 /\ c.schema = PayloadSchemaHash(c.id)
  /\ c.action = "open_federation_transaction" /\ c.idempotent = TRUE /\ c.topologyAllowed = FALSE

\* All contracts of the pack, each once, in some order.
WholePack(s) ==
  /\ DOMAIN s = 1..7
  /\ \A k \in 1..7 : PackContract(s[k])
  /\ \A j, k \in 1..7 : s[j].id = s[k].id => j = k
  /\ \A id \in Ids : \E k \in 1..7 : s[k].id = id

\* The pack's manifest is a document, and has the whole pack.
LEMMA PackManifest ==
  ASSUME NEW input \in ManifestInputs
  PROVE  IsDocument(Manifest(input)) /\ WholePack(Manifest(input).contracts)
<1> DEFINE d == Manifest(input)
<1>1. input.expires \in Int
  BY PackAssumption, Zenon
<1>2. d.contracts = [k \in 1..7 |-> ContractFor(input, Listed[k])] /\ d.expires = input.expires
  <2>1. DOMAIN Listed = 1..7
    BY Numbered, Zenon
  <2>2. d.contracts = Contracts(input) /\ d.expires = input.expires
    BY Zenon DEF Manifest
  <2> HIDE DEF d
  <2>3. QED BY <2>1, <2>2, Zenon DEF Contracts
<1>3. d = [ schemaOk |-> d.schemaOk, tenant |-> d.tenant, id |-> d.id, catalog |-> d.catalog,
            keyId |-> d.keyId, issued |-> d.issued, expires |-> d.expires,
            contracts |-> d.contracts, hash |-> d.hash, sig |-> d.sig ]
  BY Zenon DEF Manifest
<1> HIDE DEF d
<1>4. "open_federation_transaction" \in Actions
  BY DEF Actions, ActionOrder
<1>5. ASSUME NEW id \in Ids
      PROVE  /\ IsContract(ContractFor(input, id))
             /\ PackContract(ContractFor(input, id)) /\ ContractFor(input, id).id = id
  <2> DEFINE c == ContractFor(input, id)
  <2>1. id \in Nat
    BY <1>5, Numbered, SMTT(30)
  <2>2. /\ c.id = id /\ c.version = 1 /\ c.action = "open_federation_transaction"
        /\ c.schema = PayloadSchemaHash(id) /\ c.idempotent = TRUE /\ c.topologyAllowed = FALSE
    BY SMTT(30) DEF ContractFor
  <2>3. c = [ id |-> c.id, version |-> c.version, action |-> c.action, schema |-> c.schema,
              maxBytes |-> c.maxBytes, idempotent |-> c.idempotent, links |-> c.links,
              scopes |-> c.scopes, topologyAllowed |-> c.topologyAllowed, complete |-> c.complete ]
    BY SMTT(30) DEF ContractFor
  <2> HIDE DEF c
  <2>4. IsContract(c)
    BY <1>4, <2>1, <2>2, <2>3 DEF IsContract
  <2>5. PackContract(c) /\ c.id = id
    BY <1>5, <2>2, Zenon DEF PackContract
  <2>6. QED BY <2>4, <2>5 DEF c
<1>6. d.contracts \in Seq({d.contracts[k] : k \in DOMAIN d.contracts})
  BY <1>2, SMTT(30)
<1>7. /\ DOMAIN d.contracts = 1..7
      /\ \A k \in 1..7 : /\ d.contracts[k] = ContractFor(input, Listed[k]) /\ Listed[k] \in Ids
                         /\ d.contracts[k].id = Listed[k]
  BY <1>2, <1>5, Numbered
<1>8. \A k \in 1..7 : PackContract(d.contracts[k]) /\ IsContract(d.contracts[k])
  <2>1. ASSUME NEW k \in 1..7 PROVE PackContract(d.contracts[k]) /\ IsContract(d.contracts[k])
    <3>1. d.contracts[k] = ContractFor(input, Listed[k]) /\ Listed[k] \in Ids
      BY <1>7, Zenon
    <3>2. QED BY <1>5, <3>1, Zenon
  <2>2. QED BY <2>1, Zenon
<1>9. WholePack(d.contracts)
  <2>1. \A k \in 1..7 : d.contracts[k].id = Listed[k]
    BY <1>7, Zenon
  <2>2. \A j, k \in 1..7 : d.contracts[j].id = d.contracts[k].id => j = k
    <3>1. ASSUME NEW j \in 1..7, NEW k \in 1..7, d.contracts[j].id = d.contracts[k].id
          PROVE  j = k
      <4>1. d.contracts[j].id = Listed[j] /\ d.contracts[k].id = Listed[k]
        BY <2>1, Zenon
      <4>2. Listed[j] = Listed[k] => j = k
        BY Numbered, Zenon
      <4>3. QED BY <3>1, <4>1, <4>2, Zenon
    <3>2. QED BY <3>1, Zenon
  <2>3. \A id \in Ids : \E k \in 1..7 : d.contracts[k].id = id
    <3>1. Ids = 1..7 /\ \A i \in 1..7 : \E k \in 1..7 : Listed[k] = i
      BY Numbered, Zenon
    <3>2. QED BY <2>1, <3>1, Zenon
  <2>4. QED BY <1>7, <1>8, <2>2, <2>3, Zenon DEF WholePack
<1>10. QED BY <1>1, <1>2, <1>3, <1>6, <1>7, <1>8, <1>9, Zenon DEF IsDocument, d

\* Normalising a document that has the whole pack leaves it the whole pack.
LEMMA NormalPack ==
  ASSUME NEW d, IsDocument(d), WholePack(d.contracts)
  PROVE  WholePack(normalizeManifest(d).contracts)
<1> DEFINE m == normalizeManifest(d)
           n == Len(d.contracts)
<1>1. n = 7
  <2>1. DOMAIN d.contracts = 1..n /\ n \in Nat
    BY DEF IsDocument
  <2>2. 1..7 = 1..n /\ n \in Nat
    BY <2>1, Zenon DEF WholePack
  <2> HIDE DEF n
  <2>3. 7 \in 1..n /\ 8 \notin 1..n
    BY <2>2, SMTT(30)
  <2>4. QED BY <2>2, <2>3, SMTT(30)
<1>2. /\ DOMAIN m.contracts = 1..7
      /\ \E p \in [1..7 -> 1..7] :
           /\ \A j, k \in 1..7 : p[j] = p[k] => j = k
           /\ \A i \in 1..7 : \E k \in 1..7 : p[k] = i
           /\ \A k \in 1..7 : m.contracts[k] = normalizeContract(d.contracts[p[k]])
  <2>1. /\ DOMAIN m.contracts = 1..n
        /\ \E p \in [1..n -> 1..n] :
             /\ \A j, k \in 1..n : p[j] = p[k] => j = k
             /\ \A i \in 1..n : \E k \in 1..n : p[k] = i
             /\ \A k \in 1..n : m.contracts[k] = normalizeContract(d.contracts[p[k]])
    BY NormalDocument, Zenon
  <2> HIDE DEF n, m
  <2>2. QED BY <1>1, <2>1
<1>3. PICK p \in [1..7 -> 1..7] :
        /\ \A j, k \in 1..7 : p[j] = p[k] => j = k
        /\ \A i \in 1..7 : \E k \in 1..7 : p[k] = i
        /\ \A k \in 1..7 : m.contracts[k] = normalizeContract(d.contracts[p[k]])
  BY <1>2, Zenon
<1> HIDE DEF m
<1>4. ASSUME NEW i \in 1..7
      PROVE  LET c == normalizeContract(d.contracts[i]) IN
             PackContract(c) /\ c.id = d.contracts[i].id
  <2> DEFINE b == d.contracts[i]
             c == normalizeContract(b)
  <2>1. IsContract(b) /\ PackContract(b)
    BY <1>4, Zenon DEF IsDocument, WholePack
  <2> HIDE DEF b
  <2>2. c = [ id |-> b.id, version |-> b.version, action |-> b.action, schema |-> b.schema,
              maxBytes |-> b.maxBytes, idempotent |-> b.idempotent,
              links |-> normalizeStringSlice(b.links), scopes |-> normalizeStringSlice(b.scopes),
              topologyAllowed |-> b.topologyAllowed, complete |-> b.complete ]
    BY <2>1, NormalContract, Zenon
  <2> HIDE DEF c
  <2>3. /\ c.id = b.id /\ c.version = b.version /\ c.action = b.action /\ c.schema = b.schema
        /\ c.idempotent = b.idempotent /\ c.topologyAllowed = b.topologyAllowed
    BY <2>2
  <2>4. PackContract(c)
    BY <2>1, <2>3, Zenon DEF PackContract
  <2>5. QED BY <2>3, <2>4 DEF b, c
<1>5. /\ \A k \in 1..7 : p[k] \in 1..7
      /\ \A k \in 1..7 : PackContract(m.contracts[k]) /\ m.contracts[k].id = d.contracts[p[k]].id
  <2>1. \A k \in 1..7 : p[k] \in 1..7
    OBVIOUS
  <2>2. ASSUME NEW k \in 1..7
        PROVE  PackContract(m.contracts[k]) /\ m.contracts[k].id = d.contracts[p[k]].id
    <3>1. p[k] \in 1..7 /\ m.contracts[k] = normalizeContract(d.contracts[p[k]])
      BY <1>3, <2>1, Zenon
    <3>2. QED BY <1>4, <3>1, Zenon
  <2>3. QED BY <2>1, <2>2
<1>6. \A j, k \in 1..7 : m.contracts[j].id = m.contracts[k].id => j = k
  <2>1. ASSUME NEW j \in 1..7, NEW k \in 1..7, m.contracts[j].id = m.contracts[k].id
        PROVE  j = k
    <3>1. d.contracts[p[j]].id = d.contracts[p[k]].id /\ p[j] \in 1..7 /\ p[k] \in 1..7
      BY <1>5, <2>1, Zenon
    <3>2. p[j] = p[k]
      BY <3>1, Zenon DEF WholePack
    <3>3. QED BY <1>3, <3>2, Zenon
  <2>2. QED BY <2>1, Zenon
<1>7. \A id \in Ids : \E k \in 1..7 : m.contracts[k].id = id
  <2>1. SUFFICES ASSUME NEW id \in Ids PROVE \E k \in 1..7 : m.contracts[k].id = id
    OBVIOUS
  <2>2. PICK i \in 1..7 : d.contracts[i].id = id
    BY Zenon DEF WholePack
  <2>3. PICK k \in 1..7 : p[k] = i
    BY <1>3, Zenon
  <2>4. QED BY <1>5, <2>2, <2>3, Zenon
<1>8. QED BY <1>2, <1>5, <1>6, <1>7, Zenon DEF WholePack, m

\* Signing it adds a hash and a signature.
LEMMA SignedPack ==
  ASSUME NEW doc \in PackDocuments
  PROVE  IsDocument(doc) /\ WholePack(doc.contracts)
<1>1. PICK input \in ManifestInputs : doc = SignManifest(Manifest(input), input.key)
  BY Zenon DEF PackDocuments
<1> DEFINE m == normalizeManifest(Manifest(input))
           h == ComputeManifestHash(m)
           sig == [alg |-> "ed25519", key |-> input.key, over |-> h]
           hashed == [m EXCEPT !.hash = h]
<1>2. IsDocument(m) /\ WholePack(m.contracts)
  BY PackManifest, NormalDocument, NormalPack, Zenon
<1>3. doc = [hashed EXCEPT !.sig = sig]
  BY <1>1, Zenon DEF SignManifest
<1> HIDE DEF h, sig, m
<1>4. hashed = [ schemaOk |-> m.schemaOk, tenant |-> m.tenant, id |-> m.id, catalog |-> m.catalog,
                 keyId |-> m.keyId, issued |-> m.issued, expires |-> m.expires,
                 contracts |-> m.contracts, hash |-> h, sig |-> m.sig ]
  BY <1>2, SMTT(30) DEF IsDocument
<1> HIDE DEF hashed
<1>5. doc = [ schemaOk |-> m.schemaOk, tenant |-> m.tenant, id |-> m.id, catalog |-> m.catalog,
              keyId |-> m.keyId, issued |-> m.issued, expires |-> m.expires,
              contracts |-> m.contracts, hash |-> h, sig |-> sig ]
  BY <1>3, <1>4
<1>6. doc.contracts = m.contracts /\ doc.expires = m.expires
  BY <1>5
<1>7. doc = [ schemaOk |-> doc.schemaOk, tenant |-> doc.tenant, id |-> doc.id,
              catalog |-> doc.catalog, keyId |-> doc.keyId, issued |-> doc.issued,
              expires |-> doc.expires, contracts |-> doc.contracts, hash |-> doc.hash,
              sig |-> doc.sig ]
  BY <1>5
<1>8. QED BY <1>2, <1>6, <1>7, Zenon DEF IsDocument

-----------------------------------------------------------------------------
(* The entries of the pack *)

\* What an entry shows of contract id.
Shows(e, id) ==
  /\ e.kind = interactions[id].kind /\ e.actions = <<interactions[id].action>>
  /\ e.schema.required = PayloadSchema(id).required /\ e.schema.types = PayloadSchema(id).types

\* An entry of the pack shows the contract it was made for.
LEMMA EntryShows ==
  ASSUME NEW tenant, NEW options, NEW id
  PROVE  Shows(ServiceCatalogEntry(tenant, options, id), id)
<1>1. /\ SchemaJSON(id).required = PayloadSchema(id).required
      /\ SchemaJSON(id).types = PayloadSchema(id).types
  BY Zenon DEF SchemaJSON
<1>2. QED BY <1>1, Zenon DEF ServiceCatalogEntry, Shows

\* The contract an entry advertises is the one it shows.
LEMMA AdvertisesIt ==
  ASSUME NEW e, NEW id \in Ids, Shows(e, id)
  PROVE  Advertised(e) = id
<1>1. AllowedActions(e.actions) = {interactions[id].action}
  <2> DEFINE a == interactions[id].action
             array == <<a>>
             actions == {Trim(array[k]) : k \in DOMAIN array}
  <2>1. Trim(a) = a /\ a # ""
    BY Plain, Zenon
  <2>2. AllowedActions(e.actions) = IF "" \in actions THEN {} ELSE actions
    BY Zenon DEF AllowedActions, Shows
  <2> HIDE DEF a
  <2>3. DOMAIN array = {1} /\ array[1] = a
    OBVIOUS
  <2> HIDE DEF array
  <2>4. actions = {a}
    BY <2>1, <2>3, Zenon
  <2> HIDE DEF actions
  <2>5. QED BY <2>1, <2>2, <2>4, Zenon DEF a
<1>2. \A k \in Ids : interactions[k].action \in AllowedActions(e.actions) <=> k = id
  BY <1>1, Distinct, Zenon
<1>3. QED BY <1>2, Zenon DEF Advertised

-----------------------------------------------------------------------------
(* Taking payloads *)

\* Under a manifest the cache resolves a contract of the pack to, the validator
\* takes what the contract's schema takes.
LEMMA TakenIsValid ==
  ASSUME NEW m, NEW c, PackContract(c), NEW payload
  PROVE  Takes(toExchangeManifest(m, c), payload) <=> ValidatePayload(c.id, payload)
<1> DEFINE x == toExchangeManifest(m, c)
           f == facadeForAction(c.action)
           action == toExchangeAction(c)
<1>1. /\ x.contract.id = c.id /\ x.contract.version = c.version /\ x.contract.schema = c.schema
      /\ x.actions = [a \in {c.action} |-> action]
  BY Zenon DEF toExchangeManifest
<1>2. f.method = "OpenFederationTransaction"
  <2>1. "open_federation_transaction" \notin O2CActions
    BY DEF O2CActions
  <2>2. facadeForAction("open_federation_transaction") =
          [method |-> "OpenFederationTransaction", mutating |-> TRUE]
    BY <2>1, Zenon DEF facadeForAction
  <2>3. QED BY <2>2 DEF PackContract
<1>3. /\ action.action = c.action /\ action.method = f.method
      /\ action.idempotent = c.idempotent /\ action.topologyAllowed = c.topologyAllowed
  BY Zenon DEF toExchangeAction
<1> HIDE DEF x, f, action
<1>4. DOMAIN x.actions = {c.action} /\ x.actions[c.action] = action
  BY <1>1
<1>5. Takes(x, payload) <=> ValidateGatewayExchangePayload(x.contract, action, payload)
  BY <1>4, Zenon DEF Takes
<1>6. ValidateGatewayExchangePayload(x.contract, action, payload) <=> ValidatePayload(c.id, payload)
  BY <1>1, <1>2, <1>3, Zenon DEF ValidateGatewayExchangePayload, PackContract
<1>7. QED BY <1>5, <1>6 DEF x

\* A payload filled in from an entry, with all that its schema requires and
\* nothing it does not list, is valid under the contract the entry shows.
LEMMA FilledInIsValid ==
  ASSUME NEW e, NEW id \in Ids, Shows(e, id), NEW keys,
         PayloadSchema(id).required \subseteq keys, keys \subseteq DOMAIN PayloadSchema(id).types
  PROVE  ValidatePayload(id, FilledIn(e, keys))
<1> DEFINE p == FilledIn(e, keys)
           schema == PayloadSchema(id)
           texts(key) == IF schema.types[key] # "string" THEN {}
                         ELSE IF key = "transaction_kind" THEN {e.kind} ELSE {"plain"}
<1>1. /\ Common \subseteq schema.required /\ DOMAIN schema.types \cap TopologyKeys = {}
      /\ \A key \in DOMAIN schema.types : schema.types[key] = TypeOf(key)
  BY Compiled, Zenon DEF Formed, PayloadSchema
<1>2. e.kind = interactions[id].kind /\ e.schema.types = schema.types
  BY Zenon DEF Shows
<1> HIDE DEF schema
<1>3. /\ DOMAIN p = keys
      /\ \A key \in keys :
           p[key] = [type |-> schema.types[key], keys |-> {}, strings |-> texts(key)]
  BY <1>2, Zenon DEF FilledIn
<1> HIDE DEF p, texts
<1>4. ASSUME NEW key \in keys
      PROVE  p[key].type = schema.types[key] /\ p[key].keys = {} /\ p[key].strings = texts(key)
  BY <1>3, <1>4, SMTT(30)
<1>5. "transaction_kind" \in keys /\ "subject" \in keys
  BY <1>1 DEF Common, schema
<1>6. schema.types["transaction_kind"] = "string" /\ schema.types["subject"] = "string"
  <2>1. TypeOf("transaction_kind") = "string" /\ TypeOf("subject") = "string"
    BY Zenon DEF TypeOf
  <2>2. QED BY <1>1, <1>5, <2>1, Zenon DEF schema
<1>7. p["transaction_kind"].strings = {e.kind} /\ p["subject"].strings = {"plain"}
  <2>1. "subject" # "transaction_kind"
    OBVIOUS
  <2>2. QED BY <1>4, <1>5, <1>6, <2>1, Zenon DEF texts
<1>8. StringOf(p, "transaction_kind") = interactions[id].kind
  <2>1. (CHOOSE s \in {e.kind} : TRUE) = e.kind
    BY Zenon
  <2>2. StringOf(p, "transaction_kind") = Trim(e.kind)
    BY <1>3, <1>4, <1>5, <1>6, <1>7, <2>1, Zenon DEF StringOf
  <2>3. QED BY <1>2, <2>2, Plain, Zenon
<1>9. StringOf(p, "subject") # ""
  <2>1. (CHOOSE s \in {"plain"} : TRUE) = "plain"
    BY Zenon
  <2>2. StringOf(p, "subject") = Trim("plain")
    BY <1>3, <1>4, <1>5, <1>6, <1>7, <2>1, Zenon DEF StringOf
  <2>3. Trim("plain") = "plain" /\ "plain" # ""
    BY Zenon DEF Trim
  <2>4. QED BY <2>2, <2>3, Zenon
<1>10. ~packContainsPrivateTopology(p)
  <2>1. e.kind \notin TopologyStrings
    BY <1>2, Plain, Zenon
  <2>2. "plain" \notin TopologyStrings
    BY DEF TopologyStrings
  <2>3. ASSUME NEW key \in keys
        PROVE  /\ key \notin TopologyKeys /\ p[key].keys \cap TopologyKeys = {}
               /\ p[key].strings \cap TopologyStrings = {}
    <3>1. key \notin TopologyKeys
      BY <1>1, <2>3, Zenon DEF schema
    <3>2. p[key].keys \cap TopologyKeys = {}
      BY <1>4, <2>3, Zenon
    <3>3. p[key].strings \in {{}, {e.kind}, {"plain"}}
      BY <1>4, <2>3, Zenon DEF texts
    <3>4. p[key].strings \cap TopologyStrings = {}
      BY <2>1, <2>2, <3>3, Zenon
    <3>5. QED BY <3>1, <3>2, <3>4
  <2>4. QED BY <1>3, <2>3, Zenon DEF packContainsPrivateTopology
<1>11. \A key \in DOMAIN p : key \in DOMAIN schema.types /\ p[key].type = schema.types[key]
  BY <1>3, <1>4, Zenon DEF schema
<1>12. QED BY <1>3, <1>8, <1>9, <1>10, <1>11, Zenon DEF ValidatePayload, p, schema

-----------------------------------------------------------------------------
(* The pack in use *)

\* What the cache holds has the whole pack, and what the catalog holds shows a
\* contract of it.
PackInv ==
  /\ CacheInv
  /\ \A h \in DOMAIN manifests : WholePack(manifests[h].contracts)
  /\ \A n \in DOMAIN catalog : \E id \in Ids : Shows(catalog[n], id)

\* Publishing entries of the pack keeps the catalog to entries of the pack.
LEMMA PublishKeeps ==
  ASSUME PackInv, NEW tenant, NEW options, Publish(tenant, options)
  PROVE  PackInv'
<1> DEFINE valid == {e \in ServiceCatalogEntries(tenant, options) : ValidateEntry(e)}
<1>1. /\ catalog' = [n \in DOMAIN catalog \cup {e.id : e \in valid} |->
                       IF \E e \in valid : e.id = n THEN CHOOSE e \in valid : e.id = n
                                                    ELSE catalog[n]]
      /\ UNCHANGED cacheVars
  BY Zenon DEF Publish
<1>2. \A e \in valid : \E id \in Ids : Shows(e, id)
  BY EntryShows, Zenon DEF ServiceCatalogEntries
<1> HIDE DEF valid
<1>3. ASSUME NEW n \in DOMAIN catalog' PROVE \E id \in Ids : Shows(catalog'[n], id)
  <2>1. n \in DOMAIN catalog \/ \E e \in valid : e.id = n
    BY <1>1, <1>3, Zenon
  <2>2. catalog'[n] = IF \E e \in valid : e.id = n THEN CHOOSE e \in valid : e.id = n
                                                    ELSE catalog[n]
    BY <1>1, <1>3, Zenon
  <2>3. CASE \E e \in valid : e.id = n
    <3>1. catalog'[n] \in valid
      BY <2>2, <2>3, Zenon
    <3>2. QED BY <1>2, <3>1, Zenon
  <2>4. CASE ~\E e \in valid : e.id = n
    <3>1. catalog'[n] = catalog[n] /\ n \in DOMAIN catalog
      BY <2>1, <2>2, <2>4, Zenon
    <3>2. QED BY <3>1, Zenon DEF PackInv
  <2>5. QED BY <2>3, <2>4
<1>4. CacheInv' /\ manifests' = manifests
  BY <1>1, TickKeeps, Zenon DEF PackInv, cacheVars
<1>5. QED BY <1>3, <1>4, Zenon DEF PackInv

\* PackInv is inductive.
LEMMA PackInvHolds == PackSpec => []PackInv
<1>1. PackInit => PackInv
  <2>1. PackInit => CacheInv /\ DOMAIN manifests = {} /\ DOMAIN catalog = {}
    BY CacheInitInv DEF PackInit, CacheInit
  <2>2. QED BY <2>1, Zenon DEF PackInv
<1>2. ASSUME PackInv, [PackNext]_packVars PROVE PackInv'
  <2>1. CASE (Tick /\ UNCHANGED catalog) \/ UNCHANGED packVars
    <3>1. (Tick \/ UNCHANGED cacheVars) /\ UNCHANGED catalog
      BY <2>1, Zenon DEF packVars
    <3>2. CacheInv' /\ manifests' = manifests
      BY <1>2, <3>1, TickKeeps, Zenon DEF PackInv, Tick, cacheVars
    <3>3. QED BY <1>2, <3>1, <3>2, Zenon DEF PackInv
  <2>2. ASSUME NEW doc \in PackDocuments, PutVerified(doc), UNCHANGED catalog PROVE PackInv'
    <3> DEFINE m == normalizeManifest(doc)
    <3>1. IsDocument(doc) /\ WholePack(m.contracts)
      BY <2>2, SignedPack, NormalPack, Zenon
    <3>2. CacheInv'
      BY <1>2, <2>2, <3>1, PutKeeps, Zenon DEF PackInv
    <3>3. /\ DOMAIN manifests' = DOMAIN manifests \cup {m.hash}
          /\ manifests'[m.hash] = m
          /\ \A h \in DOMAIN manifests : h # m.hash => manifests'[h] = manifests[h]
      BY <2>2, <3>1, PutFiles, Zenon
    <3> HIDE DEF m
    <3>4. \A h \in DOMAIN manifests' : WholePack(manifests'[h].contracts)
      <4>1. ASSUME NEW h \in DOMAIN manifests' PROVE WholePack(manifests'[h].contracts)
        <5>1. CASE h = m.hash
          BY <3>1, <3>3, <5>1, Zenon
        <5>2. CASE h # m.hash
          BY <1>2, <3>3, <4>1, <5>2, Zenon DEF PackInv
        <5>3. QED BY <5>1, <5>2
      <4>2. QED BY <4>1, Zenon
    <3>5. QED BY <1>2, <2>2, <3>2, <3>4, Zenon DEF PackInv
  <2>3. QED BY <1>2, <2>1, <2>2, PublishKeeps, Zenon DEF PackNext
<1>3. QED BY <1>1, <1>2, PTL DEF PackSpec

\* A contract of the pack resolves in every cached manifest that has not
\* expired, to a manifest that takes what its schema takes.
LEMMA PackResolves ==
  ASSUME PackInv, NEW h \in DOMAIN manifests, nowMS < manifests[h].expires, NEW id \in Ids
  PROVE  \E x : /\ ResolvedTo(manifests[h], id) = {x}
                 /\ \A p : Takes(x, p) <=> ValidatePayload(id, p)
<1> DEFINE m == manifests[h]
<1>1. WholePack(m.contracts) /\ CacheInv
  BY Zenon DEF PackInv
<1>2. PICK i \in 1..7 : m.contracts[i].id = id
  BY <1>1, Zenon DEF WholePack
<1>3. i \in DOMAIN m.contracts /\ PackContract(m.contracts[i])
  BY <1>1, Zenon DEF WholePack
<1>4. {j \in DOMAIN m.contracts : m.contracts[j].id = id} = {i}
  <2>1. \A j \in DOMAIN m.contracts : m.contracts[j].id = id => j = i
    BY <1>1, <1>2, Zenon DEF WholePack
  <2>2. QED BY <1>2, <1>3, <2>1, Zenon
<1>5. OnlyOne(m, i)
  <2>1. \A j \in DOMAIN m.contracts : j # i => m.contracts[j].id # m.contracts[i].id
    BY <1>2, <1>4, Zenon
  <2>2. QED BY <2>1 DEF OnlyOne
<1> DEFINE x == toExchangeManifest(m, m.contracts[i])
<1>6. ResolveManifest(ReferenceTo(m, m.contracts[i])) = {x}
  BY <1>1, <1>3, <1>5, Resolves, Zenon
<1>7. ResolvedTo(m, id) = {x}
  <2>1. ResolvedTo(m, id) = UNION {ResolveManifest(ReferenceTo(m, m.contracts[k])) : k \in {i}}
    BY <1>4, Zenon DEF ResolvedTo
  <2> HIDE DEF x
  <2>2. QED BY <1>6, <2>1, Zenon
<1>8. \A p : Takes(x, p) <=> ValidatePayload(id, p)
  BY <1>2, <1>3, TakenIsValid, Zenon
<1>9. QED BY <1>7, <1>8, Zenon

\* Contracts, ServiceCatalogEntries, ResolveManifest and PayloadValidator: as
\* long as a manifest of the pack has not expired, the contract of every visible
\* entry resolves in it, and so do those its results belong to; a payload filled
\* in from the advertised schema is taken; and whatever is taken fits that
\* schema and is taken under no other contract.
THEOREM OffersAreHonouredAlways == PackSpec => []OffersAreHonoured
<1>1. ASSUME PackInv PROVE OffersAreHonoured
  <2>1. SUFFICES ASSUME NEW h \in DOMAIN manifests, NEW n \in DOMAIN catalog,
                        nowMS < manifests[h].expires
                 PROVE  LET m == manifests[h]
                            e == catalog[n]
                            id == Advertised(e)
                            resolved == [k \in Ids |-> ResolvedTo(m, k)]
                        IN  /\ \A k \in interactions[id].results : resolved[k] # {}
                            /\ \E x \in resolved[id] :
                                 /\ Takes(x, FilledIn(e, e.schema.required))
                                 /\ Takes(x, FilledIn(e, DOMAIN e.schema.types))
                                 /\ \A p \in {q \in Payloads : Takes(x, q)} :
                                      /\ e.schema.required \subseteq DOMAIN p
                                      /\ \A key \in DOMAIN p :
                                           /\ key \in DOMAIN e.schema.types
                                           /\ p[key].type = e.schema.types[key]
                                      /\ \A k \in Ids \ {id} : \A y \in resolved[k] : ~Takes(y, p)
    BY Zenon DEF OffersAreHonoured
  <2> DEFINE m == manifests[h]
             e == catalog[n]
             resolved == [k \in Ids |-> ResolvedTo(m, k)]
  <2>2. PICK id \in Ids : Shows(e, id)
    BY <1>1, Zenon DEF PackInv
  <2>3. Advertised(e) = id
    BY <2>2, AdvertisesIt, Zenon
  <2>4. \A k \in Ids : \E x : /\ resolved[k] = {x}
                              /\ \A p : Takes(x, p) <=> ValidatePayload(k, p)
    BY <1>1, <2>1, PackResolves, Zenon
  <2> HIDE DEF e, resolved, m
  <2>5. /\ interactions[id].results \subseteq Ids
        /\ PayloadSchema(id).required \subseteq DOMAIN PayloadSchema(id).types
    BY Compiled, Zenon DEF Formed, PayloadSchema
  <2>6. \A k \in interactions[id].results : resolved[k] # {}
    BY <2>4, <2>5, Zenon
  <2>7. PICK x : resolved[id] = {x} /\ \A p : Takes(x, p) <=> ValidatePayload(id, p)
    BY <2>4, Zenon
  <2>8. e.schema.required = PayloadSchema(id).required /\ e.schema.types = PayloadSchema(id).types
    BY <2>2, Zenon DEF Shows
  <2>9. Takes(x, FilledIn(e, e.schema.required)) /\ Takes(x, FilledIn(e, DOMAIN e.schema.types))
    BY <2>2, <2>5, <2>7, <2>8, FilledInIsValid, Zenon
  <2>10. ASSUME NEW p, Takes(x, p)
         PROVE  /\ e.schema.required \subseteq DOMAIN p
                /\ \A key \in DOMAIN p :
                     key \in DOMAIN e.schema.types /\ p[key].type = e.schema.types[key]
                /\ \A k \in Ids \ {id} : \A y \in resolved[k] : ~Takes(y, p)
    <3>1. ValidatePayload(id, p)
      BY <2>7, <2>10, Zenon
    <3>2. /\ e.schema.required \subseteq DOMAIN p
          /\ \A key \in DOMAIN p :
               key \in DOMAIN e.schema.types /\ p[key].type = e.schema.types[key]
      BY <2>8, <3>1, Zenon DEF ValidatePayload
    <3>3. ASSUME NEW k \in Ids \ {id}, NEW y \in resolved[k], Takes(y, p) PROVE FALSE
      <4>1. ValidatePayload(k, p)
        <5>1. PICK z : resolved[k] = {z} /\ \A q : Takes(z, q) <=> ValidatePayload(k, q)
          BY <2>4, <3>3, Zenon
        <5>2. y = z
          BY <3>3, <5>1, Zenon
        <5>3. QED BY <3>3, <5>1, <5>2, Zenon
      <4>2. interactions[k].kind = interactions[id].kind
        BY <3>1, <4>1, Zenon DEF ValidatePayload
      <4>3. QED BY <4>2, Distinct, Zenon
    <3>4. QED BY <3>2, <3>3, Zenon
  <2>11. QED BY <2>3, <2>6, <2>7, <2>9, <2>10, Zenon DEF e, m, resolved
<1>2. QED BY <1>1, PackInvHolds, PTL

=============================================================================
