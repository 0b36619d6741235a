------------------------------ MODULE PeerRoster ------------------------------
(***************************************************************************)
(* membershipcap: relay daemons register their mesh keys, the control      *)
(* plane assembles the verified registrations into a signed roster, and    *)
(* relays verify a roster before they apply it.                            *)
(*                                                                         *)
(* A claim is [key, wg, ip, name, issued, pop]: the mesh key (0 for one of *)
(* the wrong size), the WireGuard key (0 likewise), the mesh address, the  *)
(* remaining fields as one, the time and the proof of possession.  An      *)
(* address is <<addr, text>>: spelling "text" of address addr, spelling 1  *)
(* being the canonical one; addr is 0 for a string that is no address.     *)
(* Entries and tombstones of a roster are sets: the source sorts both.     *)
(***************************************************************************)
EXTENDS Clock, Primitives, Sequences, Functions

CONSTANTS
  Identity,        \* enrolled identity of each daemon, from its mTLS leaf
  Drafts,          \* claims, still unsigned, a daemon may come up with
  Relays,          \* relays that pull rosters
  Trusted,         \* membership keyring of the relays: public key by key id
  Signers,         \* [id, key]: signing keys a roster may be signed with
  TombstoneInputs, \* sequences of keys the control plane may de-peer
  TTLs,            \* lifetimes the control plane may ask for
  Rank(_),         \* order of proofs of possession as byte strings
  MaxInt,          \* largest integer of the type of times
  MaxClaims, MaxEpoch     \* bounds

VARIABLES
  sent,        \* [daemon, claim]: registrations signed by daemons
  claims,      \* verified registrations, in the order they came
  epoch,       \* the control plane's last epoch
  published,   \* rosters signed so far
  applied      \* roster each relay is on: none or one

rosterVars == <<nowMS, sent, claims, epoch, published, applied>>

-----------------------------------------------------------------------------
(* Registrations *)

IsAddress(ip) == ip[1] # 0
Canonical(ip) == IF IsAddress(ip) THEN <<ip[1], 1>> ELSE ip

NoPoP == NoSig

\* Everything ToRosterEntry copies is bound, the address in canonical form.
meshRegistrationChallenge(identity, c) ==
  Digest(<<identity, c.key, c.wg, Canonical(c.ip), c.name, c.issued>>)

ValidClaim(c) == c.key # 0 /\ c.wg # 0 /\ IsAddress(c.ip) /\ c.issued > 0

\* A daemon signs with the private half of its own mesh key only.
SignMeshRegistration(priv, identity, c) ==
  { [c EXCEPT !.pop = Ed25519Sign(priv, meshRegistrationChallenge(identity, c))] :
      x \in { y \in {c} : priv = c.key /\ ValidClaim(c) } }

VerifyProofOfPossession(key, challenge, pop) ==
  key # 0 /\ challenge # NoHash /\ pop = Ed25519Sign(key, challenge)

\* Faulty AsVerified: the identity is the one the claim was signed for.
FaultyAsVerifiedUnbound(identity, c) == ValidClaim(c) /\ c.pop.by = c.key

AsVerified(identity, c) ==
  /\ ValidClaim(c)
  /\ VerifyProofOfPossession(c.key, meshRegistrationChallenge(identity, c), c.pop)

\* The proofs of possession there can be, and what is assumed of the inputs: the
\* proofs are totally ordered, as byte strings are.
Proofs ==
  { c.pop : c \in UNION { SignMeshRegistration(d, Identity[d], draft) :
                           d \in DOMAIN Identity, draft \in Drafts } }

ASSUME RosterAssumption ==
  /\ Drafts \subseteq [ key : Int, wg : Int, ip : Int \X Int, name : STRING, issued : Int,
                        pop : {NoPoP} ]
  /\ \A p, q \in Proofs : Rank(p) \in Int /\ (Rank(p) = Rank(q) => p = q)
  /\ TTLs \subseteq Int /\ MaxInt \in Nat

ToRosterEntry(c) == [key |-> c.key, wg |-> c.wg, ip |-> c.ip, name |-> c.name]

-----------------------------------------------------------------------------
(* Rosters *)

\* Faulty KeepFreshest: the last registration to come wins.
FaultyKeepLast(latest, c) == MapPut(latest, c.key, c)

\* One iteration over the claims: keep what is there when it is fresher, or
\* as fresh with a proof that is not smaller.
KeepFreshest(latest, c) ==
  IF /\ c.key \in DOMAIN latest
     /\ \/ latest[c.key].issued > c.issued
        \/ latest[c.key].issued = c.issued /\ Rank(latest[c.key].pop) >= Rank(c.pop)
    THEN latest ELSE MapPut(latest, c.key, c)

\* Faulty Latest: tombstones are left to the relays.
FaultyLatestKeepsTombstoned(cs, tomb) ==
  LET latest[n \in 0..Len(cs)] ==
        IF n = 0 THEN <<>> ELSE KeepFreshest(latest[n - 1], cs[n])
  IN  latest[Len(cs)]

\* The map after the loop over the claims: latest[n] is what it holds once the
\* first n were seen.
Latest(cs, tomb) ==
  LET latest[n \in 0..Len(cs)] ==
        IF n = 0 THEN <<>>
        ELSE IF cs[n].key \in tomb THEN latest[n - 1]
        ELSE KeepFreshest(latest[n - 1], cs[n])
  IN  latest[Len(cs)]

ValidRoster(r) ==
  /\ r.epoch >= 1
  /\ \A e \in r.entries : e.key # 0 /\ e.wg # 0 /\ IsAddress(e.ip)
  /\ \A e, f \in r.entries : e.key = f.key => e = f
  /\ \A t \in r.tombstones : t # 0 /\ \A e \in r.entries : e.key # t

\* Faulty RefusedLifetime: the sum is not looked at.
FaultyRefusedLifetimeUnchecked(issued, ttl) == issued <= 0 \/ ttl <= 0

RefusedLifetime(issued, ttl) == issued <= 0 \/ ttl <= 0 \/ ttl > MaxInt - issued

\* The sum of two times, as the integer type has it: past MaxInt it wraps.
NotAfter(issued, ttl) == ((issued + ttl + MaxInt + 1) % (2 * (MaxInt + 1))) - (MaxInt + 1)

\* BuildFabricPeerRoster of claims cs and tombstones tombs: a set with one
\* unsigned roster, or none when it fails.
BuildFabricPeerRoster(ep, issued, ttl, cs, tombs) ==
  LET tomb == Range(tombs)
      latest == Latest(cs, tomb)
      r == [ epoch |-> ep, issued |-> issued, notAfter |-> NotAfter(issued, ttl),
             entries |-> { ToRosterEntry(latest[k]) : k \in DOMAIN latest },
             tombstones |-> tomb, signer |-> "", sig |-> NoSig ]
  IN  IF RefusedLifetime(issued, ttl) \/ ~ValidRoster(r) THEN {} ELSE {r}

peerRosterCanonicalBytes(r) == Digest(<<"fabric-peer-roster", [r EXCEPT !.sig = NoSig]>>)

SignFabricPeerRoster(id, key, r) ==
  LET stamped == [r EXCEPT !.signer = id]
  IN  [stamped EXCEPT !.sig = Ed25519Sign(key, peerRosterCanonicalBytes(stamped))]

\* Faulty VerifyRoster: a trusted key id is enough.
FaultyVerifyRosterKeyId(r) ==
  r.signer \in DOMAIN Trusted /\ (r.notAfter # 0 => nowMS < r.notAfter)

VerifyRoster(r) ==
  /\ r.signer \in DOMAIN Trusted
  /\ r.notAfter # 0 => nowMS < r.notAfter
  /\ r.sig = Ed25519Sign(Trusted[r.signer], peerRosterCanonicalBytes(r))

-----------------------------------------------------------------------------
(* The daemons, the control plane and the relays *)

RosterInit ==
  /\ nowMS = 0
  /\ sent = {}
  /\ claims = <<>>
  /\ epoch = 0
  /\ published = {}
  /\ applied = [d \in Relays |-> {}]

\* A daemon signs a registration and sends it.
Register(d, draft) ==
  /\ \E c \in SignMeshRegistration(d, Identity[d], draft) :
       sent' = sent \cup {[daemon |-> d, claim |-> c]}
  /\ UNCHANGED <<nowMS, claims, epoch, published, applied>>

\* What may become of a claim on its way: nothing, another spelling of the
\* address, or another value of any one field.
Carried(c) ==
  {c} \cup { [c EXCEPT !.ip = <<c.ip[1], text>>] : text \in 1..2 }
      \cup { [c EXCEPT !.ip = <<3, 1>>], [c EXCEPT !.wg = 0],
             [c EXCEPT !.name = "other"], [c EXCEPT !.issued = @ + 1] }

\* A claim sent by one daemon arrives over the connection of daemon d, and is
\* kept if it verifies under d's identity.
Accept(d, m, c) ==
  /\ Len(claims) < MaxClaims
  /\ c \in Carried(m.claim)
  /\ AsVerified(Identity[d], c)
  /\ claims' = Append(claims, c)
  /\ UNCHANGED <<nowMS, sent, epoch, published, applied>>

\* The control plane numbers rosters from 1; a failed assembly uses no number.
Assemble(tombs, ttl, s) ==
  /\ epoch < MaxEpoch
  /\ \E r \in BuildFabricPeerRoster(epoch + 1, nowMS, ttl, claims, tombs) :
       published' = published \cup {SignFabricPeerRoster(s.id, s.key, r)}
  /\ epoch' = epoch + 1
  /\ UNCHANGED <<nowMS, sent, claims, applied>>

\* What may become of a roster on its way to a relay.
Delivered(r) ==
  { r, [r EXCEPT !.entries = {}], [r EXCEPT !.tombstones = {}],
    [r EXCEPT !.epoch = @ + 1], [r EXCEPT !.notAfter = 0] }

\* A relay pulls a roster, in any order and as often as it likes.  It applies
\* one that verifies, is newer than the one it is on, and is valid.
Pull(d, r) ==
  /\ VerifyRoster(r)
  /\ \A old \in applied[d] : old.epoch < r.epoch
  /\ ValidRoster(r)
  /\ applied' = [applied EXCEPT ![d] = {r}]
  /\ UNCHANGED <<nowMS, sent, claims, epoch, published>>

Tick ==
  /\ nowMS < MaxTime
  /\ nowMS' = nowMS + 1
  /\ UNCHANGED <<sent, claims, epoch, published, applied>>

RosterNext ==
  \/ \E d \in DOMAIN Identity, draft \in Drafts : Register(d, draft)
  \/ \E d \in DOMAIN Identity, m \in sent : \E c \in Carried(m.claim) : Accept(d, m, c)
  \/ \E tombs \in TombstoneInputs, ttl \in TTLs, s \in Signers : Assemble(tombs, ttl, s)
  \/ \E d \in Relays, p \in published : \E r \in Delivered(p) : Pull(d, r)
  \/ Tick

RosterSpec == RosterInit /\ [][RosterNext]_rosterVars

-----------------------------------------------------------------------------
(* Properties *)

\* An entry, or the entry of a claim, whatever the spelling of its address.
UpToSpelling(e) == [e EXCEPT !.ip = Canonical(@)]

Newer(c, d) ==
  c.issued > d.issued \/ (c.issued = d.issued /\ Rank(c.pop) >= Rank(d.pop))

\* BuildFabricPeerRoster, against a definition that knows no order: in whatever
\* order registrations came, the roster has, for every mesh key that was
\* registered and not de-peered, one entry, and it is that of the freshest
\* registration, up to the spelling of its address.
FreshestClaimsWin ==
  \A tombs \in TombstoneInputs :
    LET latest == Latest(claims, Range(tombs))
        live == { c \in Range(claims) : c.key \notin Range(tombs) }
    IN  /\ DOMAIN latest = { c.key : c \in live }
        /\ { UpToSpelling(ToRosterEntry(latest[k])) : k \in DOMAIN latest }
             = { UpToSpelling(ToRosterEntry(c)) :
                   c \in { x \in live : \A y \in live : y.key = x.key => Newer(x, y) } }

\* BuildFabricPeerRoster and Validate: verified registrations can always be
\* assembled.  With a positive lifetime that does not overflow and well formed
\* tombstones, no mixture of claims and tombstones is self-contradictory.
VerifiedClaimsAssemble ==
  \A tombs \in TombstoneInputs, ttl \in TTLs :
    /\ nowMS > 0 /\ ttl > 0 /\ nowMS + ttl <= MaxInt
    /\ 0 \notin Range(tombs)
    => BuildFabricPeerRoster(epoch + 1, nowMS, ttl, claims, tombs) # {}

\* From SignMeshRegistration through AsVerified, the assembly and Verify: what
\* a relay peers with is what the holder of that mesh key declared, under its
\* own enrolled identity; nothing altered on the way gets into a roster.
EntriesAreAttested ==
  \A d \in Relays : \A r \in applied[d] : \A e \in r.entries :
    \E m \in sent : /\ m.daemon = e.key
                    /\ UpToSpelling(ToRosterEntry(m.claim)) = UpToSpelling(e)

\* Verify and the epoch: relays that are on the same epoch are on the same
\* roster, one that the control plane signed with a trusted key, so a key
\* de-peered in an epoch is de-peered at every relay on it.
RelaysAgree ==
  \A d \in Relays : \A r \in applied[d] :
    /\ r \in published
    /\ \E s \in Signers : s.id = r.signer /\ s.id \in DOMAIN Trusted /\ s.key = Trusted[s.id]
    /\ \A f \in Relays : \A q \in applied[f] : q.epoch = r.epoch => q = r

\* BuildFabricPeerRoster, Sign, Verify and Validate: a roster signed with a
\* trusted key lives exactly as long as the control plane asked when it was
\* assembled.  From that instant on every relay can take it, as it was signed
\* and in no altered form, and from the end of its lifetime none can: the sum
\* of time and lifetime neither wraps into the past nor stands for "no expiry".
RostersLiveAsAsked ==
  \A r \in published :
    r.signer \in DOMAIN Trusted /\ r.sig.by = Trusted[r.signer] =>
      \E ttl \in TTLs :
        /\ ttl > 0 /\ r.notAfter = r.issued + ttl
        /\ \A q \in Delivered(r) :
             VerifyRoster(q) /\ ValidRoster(q) <=> q = r /\ nowMS < r.issued + ttl

\* AssembleFabricPeerRoster is documented as fully order-independent: the same
\* verified claims, in another order, give the same roster.
AssemblyIgnoresOrder ==
  \A tombs \in TombstoneInputs, p \in Bijection(DOMAIN claims, DOMAIN claims) :
    BuildFabricPeerRoster(1, 1, 1, [i \in DOMAIN claims |-> claims[p[i]]], tombs)
      = BuildFabricPeerRoster(1, 1, 1, claims, tombs)

=============================================================================
