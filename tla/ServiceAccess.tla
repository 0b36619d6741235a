---------------------------- MODULE ServiceAccess ----------------------------
(***************************************************************************)
(* serviceaccesscap: capabilities for one published service, bound to the  *)
(* key of the consumer that asked for them, and the tombstones that revoke *)
(* them one by one.                                                        *)
(*                                                                         *)
(* A capability is [key, resource, issued, expires, issuer, nonce, sig], a *)
(* tombstone [resource, nonce, notAfter, issuer, sig].  A resource is      *)
(* <<org, svc>>, anything else a malformed one.  The issuer and the        *)
(* terminus are outside the repository; they are modelled by the way the   *)
(* package says they use it.                                               *)
(***************************************************************************)
EXTENDS Clock, Primitives, FiniteSets, Sequences

CONSTANTS
  Consumers,    \* ed25519 public keys of consumers
  Resources,    \* resources that may be asked for, malformed ones included
  Nonces,
  Trusted,      \* keyring of the terminus: public key by issuer id
  Issuers,      \* [id, key]: keys capabilities may be signed with
  Lifetimes,    \* lifetimes that may be asked for
  Retentions,   \* NotAfterMS of tombstones
  MaxAsks, MaxCaps, MaxTombstones     \* bounds

ASSUME AccessAssumption ==
  Lifetimes \subseteq Int /\ Retentions \subseteq Int /\ MaxTime \in Nat \ {0}

VARIABLES
  asked,        \* proofs of possession consumers have made
  caps,         \* capabilities issued
  tombstones,   \* tombstones signed
  revoked,      \* the terminus's revocation set
  applied,      \* (history) tombstones the terminus has applied
  spliced       \* (history) streams let through: [key, served, cap, dead]

accessVars == <<nowMS, asked, caps, tombstones, revoked, applied, spliced>>

-----------------------------------------------------------------------------
(* Capabilities *)

\* Two segments, neither empty.
ParseResource(resource) == Len(resource) = 2 /\ \A i \in 1..2 : resource[i] # ""

canonicalBytes(x) == Digest([x EXCEPT !.sig = NoSig])

Challenge(resource, key, nonce) == Digest(<<"fed-svc-pop/v1", resource, key, nonce>>)

\* Faulty VerifyProofOfPossession: a proof by this key, of whatever.
FaultyPoPUnbound(key, challenge, pop) == pop.by = key

VerifyProofOfPossession(key, challenge, pop) ==
  key \in Consumers /\ challenge # NoHash /\ pop = Ed25519Sign(key, challenge)

\* Faulty Sign: an expiry that is not in the future is accepted.
FaultySignAnyExpiry(s, c) ==
  LET stamped == [c EXCEPT !.issuer = s.id]
  IN  IF ParseResource(c.resource)
        THEN {[stamped EXCEPT !.sig = Ed25519Sign(s.key, canonicalBytes(stamped))]} ELSE {}

\* A set with the signed capability, or none when the shape is refused.
Sign(s, c) ==
  IF /\ c.key \in Consumers
     /\ ParseResource(c.resource)
     /\ c.expires > 0
     /\ c.expires > c.issued
    THEN LET stamped == [c EXCEPT !.issuer = s.id]
         IN  {[stamped EXCEPT !.sig = Ed25519Sign(s.key, canonicalBytes(stamped))]}
    ELSE {}

\* Faulty Verify: a capability is still good at the instant it expires.
FaultyVerifyInclusive(c) ==
  /\ c.issuer \in DOMAIN Trusted
  /\ c.expires > 0 /\ nowMS <= c.expires
  /\ c.sig = Ed25519Sign(Trusted[c.issuer], canonicalBytes(c))

\* An empty keyring trusts nobody.
Verify(c) ==
  /\ c.issuer \in DOMAIN Trusted
  /\ c.key \in Consumers
  /\ ParseResource(c.resource)
  /\ c.expires > 0
  /\ nowMS < c.expires
  /\ c.sig = Ed25519Sign(Trusted[c.issuer], canonicalBytes(c))

BindsPublicKey(c, key) == key \in Consumers /\ c.key = key

AuthorizesResource(c, served) == <<>> \notin {c.resource, served} /\ c.resource = served

-----------------------------------------------------------------------------
(* Tombstones *)

TombstoneShape(t) == ParseResource(t.resource) /\ t.nonce # "" /\ t.notAfter > 0

SignTombstone(s, t) ==
  IF TombstoneShape(t)
    THEN LET stamped == [t EXCEPT !.issuer = s.id]
         IN  {[stamped EXCEPT !.sig = Ed25519Sign(s.key, canonicalBytes(stamped))]}
    ELSE {}

\* The clock plays no part.
VerifyTombstone(t) ==
  /\ t.issuer \in DOMAIN Trusted
  /\ TombstoneShape(t)
  /\ t.sig = Ed25519Sign(Trusted[t.issuer], canonicalBytes(t))

Targets(t, c) == t.resource = c.resource /\ t.nonce = c.nonce /\ t.issuer = c.issuer

-----------------------------------------------------------------------------
(* The consumers, the issuer and the terminus *)

AccessInit ==
  /\ nowMS = 1
  /\ asked = {} /\ caps = {} /\ tombstones = {}
  /\ revoked = {} /\ applied = {} /\ spliced = {}

\* A consumer proves possession of its key for one resource and one request.
Ask(k, resource, nonce) ==
  /\ Cardinality(asked) < MaxAsks
  /\ asked' = asked \cup {Ed25519Sign(k, Challenge(resource, k, nonce))}
  /\ UNCHANGED <<nowMS, caps, tombstones, revoked, applied, spliced>>

\* The issuer is handed a request for key k and a proof, perhaps one made for
\* another request.  Nonces are not used twice.
Issue(k, resource, nonce, pop, ttl, s) ==
  /\ Cardinality(caps) < MaxCaps
  /\ \A c \in caps : c.nonce # nonce
  /\ VerifyProofOfPossession(k, Challenge(resource, k, nonce), pop)
  /\ \E c \in Sign(s, [ key |-> k, resource |-> resource, issued |-> nowMS,
                        expires |-> nowMS + ttl, issuer |-> "", nonce |-> nonce,
                        sig |-> NoSig ]) : caps' = caps \cup {c}
  /\ UNCHANGED <<nowMS, asked, tombstones, revoked, applied, spliced>>

Entomb(resource, nonce, notAfter, s) ==
  /\ Cardinality(tombstones) < MaxTombstones
  /\ \E t \in SignTombstone(s, [ resource |-> resource, nonce |-> nonce,
                                 notAfter |-> notAfter, issuer |-> "", sig |-> NoSig ]) :
       tombstones' = tombstones \cup {t}
  /\ UNCHANGED <<nowMS, asked, caps, revoked, applied, spliced>>

ApplyTombstone(t) ==
  /\ VerifyTombstone(t)
  /\ revoked' = revoked \cup {t}
  /\ applied' = applied \cup {t}
  /\ UNCHANGED <<nowMS, asked, caps, tombstones, spliced>>

\* A tombstone need not be kept past its time.
Collect(t) ==
  /\ nowMS >= t.notAfter
  /\ revoked' = revoked \ {t}
  /\ UNCHANGED <<nowMS, asked, caps, tombstones, applied, spliced>>

\* What a peer may present: a capability it holds or has seen, or one it has
\* changed.
Presented(c) ==
  { c, [c EXCEPT !.expires = @ + 1] } \cup { [c EXCEPT !.key = k] : k \in Consumers }

\* A stream of the peer with key k, for the service "served".
Splice(k, served, c) ==
  /\ Verify(c)
  /\ BindsPublicKey(c, k)
  /\ AuthorizesResource(c, served)
  /\ \A t \in revoked : ~Targets(t, c)
  /\ spliced' = spliced \cup
       { [ key |-> k, served |-> served, cap |-> c,
           dead |-> \E t \in applied : Targets(t, c) /\ t.notAfter >= c.expires ] }
  /\ UNCHANGED <<nowMS, asked, caps, tombstones, revoked, applied>>

Tick ==
  /\ nowMS < MaxTime
  /\ nowMS' = nowMS + 1
  /\ UNCHANGED <<asked, caps, tombstones, revoked, applied, spliced>>

AccessNext ==
  \/ \E k \in Consumers, resource \in Resources, nonce \in Nonces : Ask(k, resource, nonce)
  \/ \E k \in Consumers, resource \in Resources, nonce \in Nonces, pop \in asked,
        ttl \in Lifetimes, s \in Issuers : Issue(k, resource, nonce, pop, ttl, s)
  \/ \E resource \in Resources, nonce \in Nonces, notAfter \in Retentions, s \in Issuers :
        Entomb(resource, nonce, notAfter, s)
  \/ \E t \in tombstones : ApplyTombstone(t)
  \/ \E t \in revoked : Collect(t)
  \/ \E k \in Consumers, served \in Resources, p \in caps :
        \E c \in Presented(p) : Splice(k, served, c)
  \/ Tick

AccessSpec == AccessInit /\ [][AccessNext]_accessVars

-----------------------------------------------------------------------------
(* Properties *)

\* Capabilities and tombstones are well formed, and the revocation set holds
\* tombstones that were applied.
AccessTypeOK ==
  /\ nowMS \in 1..MaxTime
  /\ \A c \in caps : ParseResource(c.resource) /\ c.expires > c.issued
  /\ \A t \in tombstones : TombstoneShape(t)
  /\ revoked \subseteq applied /\ applied \subseteq tombstones

\* Verify against the collection of tombstones: a capability revoked by a
\* tombstone that is kept until the capability expires is never let through
\* again, not even at the instant both run out.
RevokedStaysRevoked == \A x \in spliced : ~x.dead

\* From Challenge through Sign to the three checks of the terminus: a stream
\* is let through only for a peer that itself asked for that service with its
\* own key, and was granted it by a trusted issuer; neither a proof nor a
\* capability can be carried over to another key or service.
SplicesWereAskedFor ==
  \A x \in spliced :
    /\ x.cap \in caps
    /\ \E id \in DOMAIN Trusted : x.cap.issuer = id /\ x.cap.sig.by = Trusted[id]
    /\ Ed25519Sign(x.key, Challenge(x.served, x.key, x.cap.nonce)) \in asked

=============================================================================
