--------------------------- MODULE MembershipFence ---------------------------
(***************************************************************************)
(* membershipcap: capabilities that admit a peer to the fabric, and the    *)
(* signed revocation lists verifiers fence them with.                      *)
(*                                                                         *)
(* A capability is [key, epoch, revgen, notAfter, signer, sig]; a list is  *)
(* [generation, notAfter, entries, signer, sig] with entries a sequence of *)
(* [key, epoch, revgen, revoked].  The store of bindings, the issuer that  *)
(* reads it and the gater that admits peers are outside the repository:    *)
(* they are modelled by the way the package says they use it.              *)
(***************************************************************************)
EXTENDS Clock, Primitives, Sequences, FiniteSetsExt

CONSTANTS
  Peers,       \* ed25519 public keys of peers
  Trusted,     \* the verifier's keyring: public key by key id
  Signers,     \* [id, key]: signing keys in use
  ListTTL,     \* lifetime of a list
  CapTTLs,     \* lifetimes of capabilities; 0 asks for one that never expires
  MaxChanges, MaxCaps, MaxLists     \* bounds

ASSUME FenceAssumption ==
  /\ Peers # {}
  /\ ListTTL \in Nat \ {0} /\ CapTTLs \subseteq Nat
  /\ MaxTime \in Nat \ {0} /\ MaxChanges \in Nat \ {0}

VARIABLES
  bindings,    \* [epoch, revgen, active, updated] of each peer
  former,      \* entries of bindings as they were before their last change
  caps,        \* capabilities issued
  lists,       \* lists published
  fence,       \* the list the verifier is on: none or one
  ended,       \* (history) when an <<epoch, revgen>> of a peer was given up
  admitted     \* (history) capabilities admitted, and when

fenceVars == <<nowMS, bindings, former, caps, lists, fence, ended, admitted>>

-----------------------------------------------------------------------------
(* Capabilities and lists *)

canonicalBytes(c) == Digest([c EXCEPT !.sig = NoSig])

\* Faulty SignCapability: the key id is left for the caller to fill in.
FaultySignCapabilityUnstamped(s, c) ==
  [c EXCEPT !.sig = Ed25519Sign(s.key, canonicalBytes(c))]

SignCapability(s, c) ==
  LET stamped == [c EXCEPT !.signer = s.id]
  IN  [stamped EXCEPT !.sig = Ed25519Sign(s.key, canonicalBytes(stamped))]

\* Past its lifetime; no lifetime never passes.
Expired(notAfter) == notAfter # 0 /\ nowMS >= notAfter

SignedByTrusted(x) ==
  /\ x.signer \in DOMAIN Trusted
  /\ x.sig = Ed25519Sign(Trusted[x.signer], canonicalBytes(x))

\* Faulty VerifyCapability: the signature is not checked.
FaultyVerifyCapabilityUnsigned(c) == c.signer \in DOMAIN Trusted /\ ~Expired(c.notAfter)

VerifyCapability(c) ==
  /\ c.key \in Peers
  /\ ~Expired(c.notAfter)
  /\ SignedByTrusted(c)

\* Where a stable sort by key puts entry i among the entries of its key: after
\* those that stood before it.
Place(entries, i) == Cardinality({ j \in 1..i : entries[j].key = entries[i].key })

\* What the sort leaves of a sequence: each entry and its place within its key.
sortedEntries(entries) == { <<Place(entries, i), entries[i]>> : i \in DOMAIN entries }

revocationCanonicalBytes(l) ==
  Digest([l EXCEPT !.sig = NoSig, !.entries = sortedEntries(@)])

SignRevocationList(s, l) ==
  LET stamped == [l EXCEPT !.signer = s.id]
  IN  [stamped EXCEPT !.sig = Ed25519Sign(s.key, revocationCanonicalBytes(stamped))]

\* Faulty VerifyList: a list is good for as long as nothing newer came.
FaultyVerifyListForever(l) ==
  /\ l.signer \in DOMAIN Trusted
  /\ l.sig = Ed25519Sign(Trusted[l.signer], revocationCanonicalBytes(l))

VerifyList(l) ==
  /\ l.signer \in DOMAIN Trusted
  /\ ~Expired(l.notAfter)
  /\ l.sig = Ed25519Sign(Trusted[l.signer], revocationCanonicalBytes(l))

\* Faulty Supersedes: an entry says nothing of earlier epochs of the binding.
FaultySupersedesRevoked(e, c) == e.revoked

Supersedes(e, c) == e.revoked \/ c.epoch < e.epoch \/ c.revgen < e.revgen

\* RevocationList.Check: any entry for the key that supersedes the capability
\* revokes it, wherever it stands in the list.
FenceStatus(l, c) ==
  LET mine == { i \in DOMAIN l.entries : l.entries[i].key = c.key } IN
  CASE mine = {} -> "unknown"
    [] \E i \in mine : Supersedes(l.entries[i], c) -> "revoked"
    [] OTHER -> "valid"

-----------------------------------------------------------------------------
(* The control plane *)

EntryOf(k) ==
  [ key |-> k, epoch |-> bindings[k].epoch, revgen |-> bindings[k].revgen,
    revoked |-> ~bindings[k].active ]

FenceInit ==
  /\ nowMS = 1
  /\ bindings = [k \in Peers |-> [epoch |-> 1, revgen |-> 0, active |-> TRUE, updated |-> 1]]
  /\ former = <<>>
  /\ caps = {} /\ lists = {} /\ fence = {}
  /\ ended = <<>>
  /\ admitted = {}

Changes(k) == bindings[k].epoch + bindings[k].revgen

\* Peer k's binding moves on; what it was is over.
Change(k, epoch, revgen, active) ==
  /\ Changes(k) < MaxChanges
  /\ bindings' = [bindings EXCEPT ![k] =
       [epoch |-> epoch, revgen |-> revgen, active |-> active, updated |-> nowMS]]
  /\ former' = MapPut(former, k, EntryOf(k))
  /\ ended' = IF bindings[k].active
                THEN MapPut(ended, <<k, bindings[k].epoch, bindings[k].revgen>>, nowMS)
                ELSE ended
  /\ UNCHANGED <<nowMS, caps, lists, fence, admitted>>

Revoke(k) ==
  /\ bindings[k].active
  /\ Change(k, bindings[k].epoch, bindings[k].revgen + 1, FALSE)

\* A new epoch: the key is enrolled again, or its capability renewed.
Enroll(k) == Change(k, bindings[k].epoch + 1, bindings[k].revgen, TRUE)

\* Issued for the binding as it is, once the peer has proved it holds its key.
Issue(k, ttl, s) ==
  /\ Cardinality(caps) < MaxCaps
  /\ bindings[k].active
  /\ caps' = caps \cup
       { SignCapability(s, [ key |-> k, epoch |-> bindings[k].epoch,
                             revgen |-> bindings[k].revgen,
                             notAfter |-> IF ttl = 0 THEN 0 ELSE nowMS + ttl,
                             signer |-> "", sig |-> NoSig ]) }
  /\ UNCHANGED <<nowMS, bindings, former, lists, fence, ended, admitted>>

\* A snapshot of every binding, in any order.  A key should have one entry; a
\* list with a second, older one for a key is not ruled out.
Snapshots ==
  LET current == { EntryOf(k) : k \in Peers }
      stale == { former[k] : k \in DOMAIN former }
  IN  UNION { Bijection(1..Cardinality(S), S) : S \in {current} \cup { current \cup {x} : x \in stale } }

PublishList(entries, s) ==
  /\ Cardinality(lists) < MaxLists
  /\ lists' = lists \cup
       { SignRevocationList(s,
           [ generation |-> Max({ bindings[k].updated : k \in Peers }),
             notAfter |-> nowMS + ListTTL, entries |-> entries,
             signer |-> "", sig |-> NoSig ]) }
  /\ UNCHANGED <<nowMS, bindings, former, caps, fence, ended, admitted>>

-----------------------------------------------------------------------------
(* The verifier *)

\* What may become of a list on its way: the entries in another order, or one
\* of them changed.
Carried(l) ==
  { l, [l EXCEPT !.entries = [i \in DOMAIN @ |-> @[Len(@) + 1 - i]]],
    [l EXCEPT !.entries = [@ EXCEPT ![1].revoked = FALSE]] }

\* Lists may come late, again or out of order; an older one is ignored.
PullList(l) ==
  /\ VerifyList(l)
  /\ \A old \in fence : old.generation <= l.generation
  /\ fence' = {l}
  /\ UNCHANGED <<nowMS, bindings, former, caps, lists, ended, admitted>>

\* What a peer may present: a capability, or one it has changed.
Presented(c) == { c, [c EXCEPT !.epoch = @ + 1] }

Admit(c) ==
  /\ VerifyCapability(c)
  /\ \E l \in fence : VerifyList(l) /\ FenceStatus(l, c) = "valid"
  /\ admitted' = admitted \cup {[key |-> c.key, epoch |-> c.epoch, revgen |-> c.revgen, at |-> nowMS]}
  /\ UNCHANGED <<nowMS, bindings, former, caps, lists, fence, ended>>

FenceTick ==
  /\ nowMS < MaxTime
  /\ nowMS' = nowMS + 1
  /\ UNCHANGED <<bindings, former, caps, lists, fence, ended, admitted>>

FenceNext ==
  \/ \E k \in Peers : Revoke(k) \/ Enroll(k)
  \/ \E k \in Peers, ttl \in CapTTLs, s \in Signers : Issue(k, ttl, s)
  \/ \E entries \in Snapshots, s \in Signers : PublishList(entries, s)
  \/ \E p \in lists : \E l \in Carried(p) : PullList(l)
  \/ \E p \in caps : \E c \in Presented(p) : Admit(c)
  \/ FenceTick

FenceSpec == FenceInit /\ [][FenceNext]_fenceVars

-----------------------------------------------------------------------------
(* Properties *)

\* The verifier is on one list or on none, and every signed thing names its
\* signer.
FenceTypeOK ==
  /\ nowMS \in 1..MaxTime
  /\ \A l, n \in fence : l = n
  /\ \A k \in Peers : bindings[k].epoch >= 1 /\ Changes(k) \in 1..MaxChanges
  /\ \A x \in caps \cup lists : \E s \in Signers : x.signer = s.id /\ x.sig.by = s.key

\* A capability for a state of the binding that is over.
Over(c) == <<c.key, c.epoch, c.revgen>> \in DOMAIN ended

\* Verify and Check: the list's lifetime bounds the time a peer is still
\* admitted after it was revoked or its key enrolled anew, however lists are
\* delayed, repeated or reordered, and whatever duplicate entries they carry.
AdmissionLagIsBounded ==
  \A a \in admitted : Over(a) => a.at < ended[<<a.key, a.epoch, a.revgen>>] + ListTTL

\* Sign and Verify: only what a trusted signer issued is admitted; a peer that
\* changes its epoch to get past the fence is not.
AdmittedWereIssued ==
  \A a \in admitted : \E c \in caps :
    /\ <<c.key, c.epoch, c.revgen>> = <<a.key, a.epoch, a.revgen>>
    /\ c.sig.by \in { Trusted[id] : id \in DOMAIN Trusted }

\* Check and ListGeneration: once the verifier is on a list as recent as the end
\* of a capability, no list of a later generation admits that capability again.
FenceNeverReadmits ==
  [][\A l \in fence, n \in fence', c \in caps :
       /\ Over(c) /\ ended[<<c.key, c.epoch, c.revgen>>] <= l.generation
       /\ l.generation < n.generation
       => FenceStatus(n, c) # "valid"]_fenceVars

=============================================================================
