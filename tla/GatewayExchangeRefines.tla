----------------------- MODULE GatewayExchangeRefines -----------------------
(***************************************************************************)
(* What the replay cache is for, for every number of calls, every set of   *)
(* envelopes, documents and approvals, and every wiring: effects happen at *)
(* most once, a refused call files no key unless it is a discovery whose   *)
(* lookup refused it, and GatewayExchange implements DispatchOnce.         *)
(***************************************************************************)
EXTENDS GatewayExchangeOnce, GatewayExchangeProofs

-----------------------------------------------------------------------------
(* Effects happen at most once *)

\* No two calls of one life of the process that share an envelope id or an
\* idempotency key both reach the facade.
THEOREM AtMostOnceHolds == Spec => []AtMostOnce
<1>1. IInv => AtMostOnce
  <2> SUFFICES ASSUME IInv, NEW r \in calls, NEW q \in calls, r # q,
                      start[r].boot = start[q].boot, "replay" \in wired \/ Action(r).mutating
               PROVE  ClaimKeys(env[r]) \cap ClaimKeys(env[q]) = {}
    BY DEF AtMostOnce
  <2>1. r \in Requests /\ q \in Requests
    BY DEF IInv, TypeInv, TypeOK
  <2>2. "replay" \in wired
    <3>1. CASE Strict(env[r])
      BY <2>1, <3>1 DEF IInv, CallInv, Holds, needsIdempotency
    <3>2. CASE ~Strict(env[r])
      BY <3>2, SMTT(30) DEF Action, IndependentAction
    <3>3. QED BY <3>1, <3>2, SMTT(30)
  <2>3. QED BY <2>1, <2>2 DEF IInv, KeyInv, Holds
<1>2. QED BY <1>1, Invariance, PTL

-----------------------------------------------------------------------------
(* Refusals file no key *)

\* A call that no session gate denies meets all they ask.
LEMMA PassedSession ==
  ASSUME NEW s, NEW e,
         SessionDenial(s, e) \notin {"payload_invalid", "unauthenticated", "kill_switch",
                                    "partner_link_denied"}
  PROVE  Sound(s, e)
<1> DEFINE a == ~e.schemaOk
           b == ~sessionMatchesEnvelope(s, e)
           c == s.killSwitch
           d == s.linkState # "active"
           S == {"payload_invalid", "unauthenticated", "kill_switch", "partner_link_denied"}
           g == << <<a, "payload_invalid">>, <<b, "unauthenticated">>,
                   <<c, "kill_switch">>, <<d, "partner_link_denied">> >>
<1>1. FirstDenial(g) \notin S
  BY Zenon DEF SessionDenial
<1> HIDE DEF a, b, c, d
<1>2. DOMAIN g = 1..4 /\ \A i \in 1..4 : g[i][2] \in S
  OBVIOUS
<1>3. g[1][1] = a /\ g[2][1] = b /\ g[3][1] = c /\ g[4][1] = d
  OBVIOUS
<1> HIDE DEF g, S
<1>4. \A i \in 1..4 : ~g[i][1]
  BY <1>1, <1>2, PassedGates
<1>5. ~a /\ ~b /\ ~c /\ ~d
  BY <1>3, <1>4
<1>6. QED BY <1>5, Zenon DEF a, b, c, d, Sound

\* What a call on its way to the claim has passed.
GatedInv(r) ==
  /\ pc[r] \in {"resolve", "approve", "check", "consult", "claim"} => Sound(session[r], env[r])
  /\ pc[r] \in {"consult", "claim"} => InOrder(env[r])

\* A call that gets no nearer to its claim keeps it.
LEMMA GatedKept ==
  ASSUME NEW q \in Requests, GatedInv(q), env'[q] = env[q], session'[q] = session[q],
         \/ pc'[q] = pc[q]
         \/ pc'[q] \notin {"resolve", "approve", "check", "consult", "claim"}
  PROVE  GatedInv(q)'
<1>1. Sound(session[q], env[q])' = Sound(session[q], env[q]) /\ InOrder(env[q])' = InOrder(env[q])
  BY Zenon DEF Sound, InOrder, sessionMatchesEnvelope, Discovery
<1>2. QED BY <1>1, Zenon DEF GatedInv

\* A step of one call leaves the sessions of the others.
LEMMA SessionsStay ==
  ASSUME TypeInv, NEW r \in Requests, NEW q \in Requests, q # r, PlainStep(r) \/ Claim(r)
  PROVE  session'[q] = session[q]
BY Zenon DEF TypeInv, TypeOK, PlainStep, Begin, Resolve, Approve, Check, Consult, Claim, Lookup,
     Audit, Dispatch

\* Each step of a call keeps what it has passed.
LEMMA CallGated ==
  ASSUME TypeInv, NEW r \in Requests, GatedInv(r), PlainStep(r) \/ Claim(r)
  PROVE  GatedInv(r)'
<1>1. ASSUME NEW s \in Sessions, NEW e \in Envelopes, Begin(r, s, e) PROVE GatedInv(r)'
  <2> DEFINE p == IF Strict(e) THEN "resolve" ELSE "check"
             code == SessionDenial(s, e)
  <2>1. DenyOr(r, code, p) /\ session'[r] = s /\ env'[r] = e
    BY <1>1, Zenon DEF Begin, TypeInv, TypeOK
  <2>2. p \notin {"consult", "claim"}
    BY Zenon
  <2> HIDE DEF p, code
  <2>3. CASE pc'[r] = "audit"
    BY <2>3, Zenon DEF GatedInv
  <2>4. CASE pc'[r] # "audit"
    <3>1. code = "" /\ pc'[r] = p
      BY <2>1, <2>4, NotDenied, Zenon
    <3>2. Sound(s, e)
      <4>1. code \notin {"payload_invalid", "unauthenticated", "kill_switch", "partner_link_denied"}
        BY <3>1, Zenon
      <4>2. QED BY <4>1, PassedSession, Zenon DEF code
    <3>3. Sound(session[r], env[r])'
      BY <2>1, <3>2, Zenon DEF Sound, sessionMatchesEnvelope
    <3>4. QED BY <2>2, <3>1, <3>3, Zenon DEF GatedInv
  <2>5. QED BY <2>3, <2>4
<1>2. ASSUME env' = env, session' = session PROVE /\ Sound(session[r], env[r])' = Sound(session[r], env[r])
                                                /\ InOrder(env[r])' = InOrder(env[r])
  BY <1>2, Zenon DEF Sound, InOrder, sessionMatchesEnvelope, Discovery
<1>3. CASE Resolve(r) \/ Approve(r)
  <2>1. env' = env /\ session' = session /\ pc[r] \in {"resolve", "approve"}
    BY <1>3, Zenon DEF Resolve, Approve
  <2>2. pc'[r] \in {"approve", "check", "audit"}
    BY <1>3, DenyOrMoves, Zenon DEF Resolve, Approve
  <2>3. QED BY <1>2, <2>1, <2>2, Zenon DEF GatedInv
<1>4. CASE Check(r)
  <2> DEFINE p == IF Strict(env[r]) THEN "consult" ELSE "claim"
             code == EnvelopeDenial(r)
  <2>1. DenyOr(r, code, p) /\ env' = env /\ session' = session /\ pc[r] = "check"
    BY <1>4, Zenon DEF Check
  <2> HIDE DEF p, code
  <2>2. CASE pc'[r] = "audit"
    BY <2>2, Zenon DEF GatedInv
  <2>3. CASE pc'[r] # "audit"
    <3>1. code = ""
      BY <2>1, <2>3, NotDenied, Zenon
    <3>2. ~(env[r].expires <= 0) /\ (Discovery(env[r]) => env[r].payload.size = 0)
      BY <3>1, PassedEnvelope, Zenon DEF code
    <3>3. env[r].expires \in Int
      BY <2>1, TimesAssumption, ExchangeAssumption DEF TypeInv
    <3>4. env[r].expires > 0
      BY <3>2, <3>3
    <3>5. InOrder(env[r])
      BY <3>2, <3>4, Zenon DEF InOrder
    <3>6. QED BY <1>2, <2>1, <3>5, Zenon DEF GatedInv
  <2>4. QED BY <2>2, <2>3
<1>5. CASE Consult(r)
  <2>1. env' = env /\ session' = session /\ pc[r] = "consult"
    BY <1>5, Zenon DEF Consult
  <2>2. pc'[r] \in {"claim", "audit"}
    BY <1>5, DenyOrMoves, Zenon DEF Consult
  <2>3. QED BY <1>2, <2>1, <2>2, Zenon DEF GatedInv
<1>6. CASE Claim(r) \/ Lookup(r) \/ Audit(r) \/ Dispatch(r)
  <2>1. env' = env /\ session' = session
    BY <1>6, ZenonT(60) DEF Claim, Lookup, Audit, Dispatch
  <2>2. pc'[r] \in {"lookup", "audit", "dispatch", "reaudit", "answered", "failed"}
    BY <1>6, GotoMoves, ZenonT(60) DEF Claim, Granted, Lookup, Audit, Dispatch
  <2>3. QED BY <2>1, <2>2, GatedKept, Zenon
<1>7. QED BY <1>1, <1>3, <1>4, <1>5, <1>6, Zenon DEF PlainStep

\* Every step keeps it for every call.
LEMMA NextGated ==
  ASSUME IInv, \A q \in Requests : GatedInv(q), [Next]_vars
  PROVE  \A q \in Requests : GatedInv(q)'
<1>1. ASSUME UNCHANGED callVars PROVE \A q \in Requests : GatedInv(q)'
  BY <1>1, GatedKept, Zenon DEF callVars
<1>2. ASSUME NEW r \in Requests, PlainStep(r) \/ Claim(r) PROVE \A q \in Requests : GatedInv(q)'
  <2>1. GatedInv(r)'
    BY <1>2, CallGated, Zenon DEF IInv
  <2>2. ASSUME NEW q \in Requests, q # r PROVE GatedInv(q)'
    <3>1. SameCall(q) /\ session'[q] = session[q]
      BY <1>2, <2>2, OtherCallsStay, SessionsStay, Zenon DEF IInv
    <3>2. QED BY <3>1, GatedKept, Zenon DEF SameCall
  <2>3. QED BY <2>1, <2>2
<1>3. ASSUME Restart PROVE \A q \in Requests : GatedInv(q)'
  <2> SUFFICES ASSUME NEW q \in Requests PROVE GatedInv(q)'
    OBVIOUS
  <2>1. env' = env /\ session' = session /\ (pc'[q] = pc[q] \/ pc'[q] = "lost")
    BY <1>3, Zenon DEF Restart
  <2>2. QED BY <2>1, GatedKept, Zenon
<1>4. CASE Next
  BY <1>1, <1>2, <1>3, <1>4, StepCases, Zenon DEF PlainStep
<1>5. CASE UNCHANGED vars
  BY <1>1, <1>5 DEF vars
<1>6. QED BY <1>4, <1>5

\* Calls that got past their claim: discoveries, and calls that were allowed,
\* whatever became of their dispatch; all past their gates.
Filed(r) ==
  /\ pc[r] \in {"lookup", "audit", "dispatch", "reaudit", "answered", "failed", "lost"}
  /\ pc[r] = "lookup" => Discovery(env[r])
  /\ \/ Discovery(env[r])
     \/ decision[r] = Allow
     \/ auditLog[r] # <<>> /\ auditLog[r][1] = Allow
  /\ Sound(session[r], env[r]) /\ InOrder(env[r])

FiledInv ==
  \A k \in seen : \E r \in Requests :
    Filed(r) /\ start[r].boot = boot /\ k \in ClaimKeys(env[r])

\* A call that got past its claim stays so.
LEMMA FiledStays ==
  ASSUME TypeInv, NEW r \in Requests, CallInv(r), PlainStep(r) \/ Claim(r), Filed(r)
  PROVE  Filed(r)' /\ env'[r] = env[r] /\ start'[r] = start[r]
<1>1. Lookup(r) \/ Audit(r) \/ Dispatch(r)
  BY Zenon DEF PlainStep, Filed, Begin, Resolve, Approve, Check, Consult, Claim
<1>2. UNCHANGED <<env, start, session>>
  BY <1>1, ZenonT(60) DEF Lookup, Audit, Dispatch
<1>3. Discovery(env[r])' = Discovery(env[r])
  BY <1>2, SMTT(30) DEF Discovery
<1>3a. Sound(session[r], env[r])' /\ InOrder(env[r])'
  <2>1. Sound(session[r], env[r]) /\ InOrder(env[r])
    BY Zenon DEF Filed
  <2>2. QED BY <1>2, <2>1, Zenon DEF Sound, InOrder, sessionMatchesEnvelope, Discovery
<1>4. pc'[r] \in {"audit", "dispatch", "reaudit", "answered", "failed"}
  BY <1>1, GotoMoves DEF Lookup, Audit, Dispatch
<1>5. CASE Lookup(r)
  <2>1. Discovery(env[r])
    BY <1>5 DEF Lookup, Filed
  <2>2. QED BY <1>2, <1>3, <1>3a, <1>4, <2>1, SMTT(30) DEF Filed
<1>6. CASE Audit(r)
  <2>1. decision'[r] = decision[r]
    BY <1>6, GotoMoves DEF Audit
  <2>2. auditLog'[r] = auditLog[r] \/ auditLog'[r] = Append(auditLog[r], decision[r])
    BY <1>6 DEF Audit, TypeInv, TypeOK
  <2>3. auditLog[r] \in Seq(Decisions) /\ decision[r] \in Decisions
    BY DEF TypeInv, TypeOK
  <2>4. auditLog[r] # <<>> /\ auditLog[r][1] = Allow =>
          auditLog'[r] # <<>> /\ auditLog'[r][1] = Allow
    <3>1. auditLog[r] # <<>> => Append(auditLog[r], decision[r]) # <<>> /\
            Append(auditLog[r], decision[r])[1] = auditLog[r][1]
      <4> DEFINE log == auditLog[r]
                 d == decision[r]
                 grown == Append(log, d)
      <4>1. log \in Seq(Decisions) /\ d \in Decisions
        BY <2>3, Zenon
      <4> HIDE DEF log, d
      <4>2. grown # <<>> /\ (log # <<>> => grown[1] = log[1])
        BY <4>1, AppendFacts
      <4>3. QED BY <4>2, Zenon DEF log, d
    <3>2. CASE auditLog'[r] = auditLog[r]
      BY <3>2, ZenonT(60)
    <3>3. CASE auditLog'[r] = Append(auditLog[r], decision[r])
      BY <3>1, <3>3, ZenonT(60)
    <3>4. QED BY <2>2, <3>2, <3>3
  <2>5. QED BY <1>2, <1>3, <1>3a, <1>4, <2>1, <2>4 DEF Filed
<1>7. CASE Dispatch(r)
  <2>1. auditLog'[r] = <<Allow>>
    BY <1>7 DEF Dispatch, CallInv
  <2>2. auditLog'[r] # <<>> /\ auditLog'[r][1] = Allow
    BY <2>1
  <2>3. QED BY <1>2, <1>3a, <1>4, <2>2 DEF Filed
<1>8. QED BY <1>1, <1>5, <1>6, <1>7, SMTT(30)

\* Every step keeps it: only a claim files keys, and it lets the call pass.
LEMMA NextFiled ==
  ASSUME IInv, \A q \in Requests : GatedInv(q), FiledInv, [Next]_vars
  PROVE  FiledInv'
<1>1. ASSUME seen' = seen, boot' = boot,
             \A q \in Requests : Filed(q) => Filed(q)' /\ env'[q] = env[q] /\ start'[q] = start[q]
      PROVE  FiledInv'
  BY <1>1, Zenon DEF FiledInv, ClaimKeys
<1>2. ASSUME NEW q \in Requests, SameCall(q), session'[q] = session[q]
      PROVE  Filed(q) => Filed(q)' /\ env'[q] = env[q] /\ start'[q] = start[q]
  <2>1. Sound(session[q], env[q])' = Sound(session[q], env[q]) /\ InOrder(env[q])' = InOrder(env[q])
    BY <1>2, Zenon DEF Sound, InOrder, sessionMatchesEnvelope, Discovery, SameCall
  <2>2. QED BY <1>2, <2>1, Zenon DEF SameCall, Filed, Discovery
<1>3. ASSUME UNCHANGED <<wired, seen, boot, callVars>> PROVE FiledInv'
  <2>1. \A q \in Requests : SameCall(q) /\ session'[q] = session[q]
    BY <1>3 DEF callVars, SameCall
  <2>2. QED BY <1>1, <1>2, <1>3, <2>1, Zenon
<1>4. ASSUME NEW r \in Requests, PlainStep(r) \/ Claim(r), NEW q \in Requests
      PROVE  Filed(q) => Filed(q)' /\ env'[q] = env[q] /\ start'[q] = start[q]
  <2>1. CASE q = r
    BY <1>4, <2>1, FiledStays, SMTT(30) DEF IInv
  <2>2. CASE q # r
    <3>1. SameCall(q) /\ session'[q] = session[q]
      BY <1>4, <2>2, OtherCallsStay, SessionsStay, Zenon DEF IInv
    <3>2. QED BY <1>2, <3>1, Zenon
  <2>3. QED BY <2>1, <2>2
<1>5. ASSUME NEW r \in Requests, PlainStep(r), boot' = boot PROVE FiledInv'
  <2>1. seen' = seen
    BY <1>5, ZenonT(60) DEF PlainStep, Begin, Resolve, Approve, Check, Consult, Lookup, Audit, Dispatch
  <2>2. QED BY <1>1, <1>4, <1>5, <2>1
<1>6. ASSUME NEW r \in Requests, Claim(r), boot' = boot PROVE FiledInv'
  <2>1. CASE seen' = seen
    BY <1>1, <1>4, <1>6, <2>1, SMTT(30)
  <2>2. CASE seen' # seen
    <3>1. seen' = seen \cup ClaimKeys(env[r]) /\ Granted(r) /\ UNCHANGED <<env, start, session>>
      BY <1>6, <2>2, SMTT(30) DEF Claim, ClaimReplay
    <3>2. start[r].boot = boot
      BY <1>6 DEF IInv, CallInv, Claim, InFlight
    <3>3. Filed(r)'
      <4>1. Discovery(env[r])' = Discovery(env[r])
        BY <3>1 DEF Discovery
      <4>2. IF Discovery(env[r]) THEN pc'[r] = "lookup" ELSE pc'[r] = "audit" /\ decision'[r] = Allow
        BY <3>1, GotoMoves DEF Granted, IInv
      <4>3. Sound(session[r], env[r])' /\ InOrder(env[r])'
        <5>1. Sound(session[r], env[r]) /\ InOrder(env[r])
          BY <1>6, Zenon DEF Claim, GatedInv
        <5>2. QED BY <3>1, <5>1, Zenon DEF Sound, InOrder, sessionMatchesEnvelope, Discovery
      <4>4. QED BY <4>1, <4>2, <4>3 DEF Filed
    <3>4. ASSUME NEW k \in seen'
          PROVE  \E q \in Requests :
                   Filed(q)' /\ start'[q].boot = boot' /\ k \in ClaimKeys(env'[q])
      <4>1. CASE k \in ClaimKeys(env[r])
        BY <1>6, <3>1, <3>2, <3>3, <4>1, SMTT(30)
      <4>2. CASE k \in seen
        <5>1. PICK q \in Requests : Filed(q) /\ start[q].boot = boot /\ k \in ClaimKeys(env[q])
          BY <4>2 DEF FiledInv
        <5>2. Filed(q)'
          BY <1>4, <1>6, <5>1
        <5>3. QED BY <1>6, <3>1, <5>1, <5>2
      <4>3. QED BY <3>1, <3>4, <4>1, <4>2
    <3>5. QED BY <3>4, Zenon DEF FiledInv, ClaimKeys
  <2>3. QED BY <2>1, <2>2
<1>7. ASSUME Restart PROVE FiledInv'
  BY <1>7 DEF Restart, FiledInv
<1>8. CASE Next
  <2>1. ASSUME NEW r \in Requests, NEW s \in Sessions, NEW e \in Envelopes, Begin(r, s, e), boot' = boot
        PROVE  FiledInv'
    BY <1>5, <2>1 DEF PlainStep
  <2>2. ASSUME NEW r \in Requests, boot' = boot,
               \/ Resolve(r) \/ Approve(r) \/ Check(r) \/ Consult(r) \/ Claim(r)
               \/ Lookup(r) \/ Audit(r) \/ Dispatch(r)
        PROVE  FiledInv'
    BY <1>5, <1>6, <2>2 DEF PlainStep
  <2>3. QED BY <1>3, <1>7, <1>8, <2>1, <2>2, StepCases
<1>9. CASE UNCHANGED vars
  BY <1>3, <1>9 DEF vars
<1>10. QED BY <1>8, <1>9

\* A refused envelope burns no key: every key in the replay cache belongs to a
\* call of this life of the process that passed the session gates and was not
\* refused, or to a discovery that did and was refused by its lookup (Claim
\* comes last in preflight, and before DiscoverSignedManifests in
\* handleManifestDiscovery).
THEOREM RefusalsBurnNoKeyHolds == Spec => []RefusalsBurnNoKey
<1>1. Init => FiledInv /\ \A r \in Requests : GatedInv(r)
  BY DEF Init, FiledInv, GatedInv
<1>2. ASSUME NEW r \in Requests, Filed(r)
      PROVE  /\ pc[r] # "new" /\ (Refused(r) => Discovery(env[r]))
             /\ Sound(session[r], env[r]) /\ InOrder(env[r])
  <2>1. Allow.verdict # "deny"
    BY DEF Allow
  <2>2. auditLog[r] # <<>> /\ auditLog[r][1] = Allow /\ auditLog[r] = <<decision[r]>> =>
          decision[r] = Allow
    OBVIOUS
  <2>3. QED BY <1>2, <2>1, <2>2 DEF Filed, Refused
<1>3. FiledInv => RefusalsBurnNoKey
  BY <1>2, Zenon DEF FiledInv, RefusalsBurnNoKey
<1>4. IInv /\ (\A r \in Requests : GatedInv(r)) /\ FiledInv /\ [Next]_vars
        => (\A r \in Requests : GatedInv(r))' /\ FiledInv'
  BY NextGated, NextFiled
<1>5. QED BY <1>1, <1>3, <1>4, InitInv, NextInv, PTL DEF Spec

-----------------------------------------------------------------------------
(* The abstract state *)

Phase == [r \in Requests |-> AbstractPhase(r)]
Held == [r \in Requests |-> AbstractHeld(r)]
Born == [r \in Requests |-> start[r].boot]

\* The abstract phase by place.
LEMMA PhaseOf ==
  ASSUME TypeInv, NEW r \in Requests
  PROVE  /\ AbstractPhase(r) = "granted" <=> Granting(r)
         /\ AbstractPhase(r) = "idle" <=> pc[r] = "new"
         /\ AbstractPhase(r) = "open" <=> pc[r] \in {"resolve", "approve", "check", "consult", "claim"}
         /\ AbstractPhase(r) \in {"idle", "open", "granted", "done"}
         /\ AbstractHeld(r) = IF "replay" \in wired /\ Holds(r) THEN ClaimKeys(env[r]) ELSE {}
<1>1. pc[r] \in Places
  BY DEF TypeInv, TypeOK
<1>2. /\ AbstractPhase(r) = "granted" <=> Granting(r)
      /\ AbstractPhase(r) = "idle" <=> pc[r] = "new"
      /\ AbstractPhase(r) = "open" <=> pc[r] \in {"resolve", "approve", "check", "consult", "claim"}
      /\ AbstractPhase(r) \in {"idle", "open", "granted", "done"}
  BY <1>1 DEF AbstractPhase, Granting, Places
<1>3. QED BY <1>2 DEF AbstractHeld, Holds

\* The same after a step.
LEMMA PhaseOfNext ==
  ASSUME TypeInv', NEW r \in Requests
  PROVE  /\ AbstractPhase(r)' = "granted" <=> Granting(r)'
         /\ AbstractPhase(r)' = "idle" <=> pc'[r] = "new"
         /\ AbstractPhase(r)' \in {"idle", "open", "granted", "done"}
         /\ AbstractHeld(r)' = IF "replay" \in wired' /\ Holds(r)' THEN ClaimKeys(env'[r]) ELSE {}
<1>1. pc'[r] \in Places
  BY DEF TypeInv, TypeOK
<1>2. /\ AbstractPhase(r)' = "granted" <=> Granting(r)'
      /\ AbstractPhase(r)' = "idle" <=> pc'[r] = "new"
      /\ AbstractPhase(r)' \in {"idle", "open", "granted", "done"}
  BY <1>1 DEF AbstractPhase, Granting, Places
<1>3. QED BY <1>2, Zenon DEF AbstractHeld, Holds, ClaimKeys

\* A call that stays the same looks the same to DispatchOnce.
LEMMA SameAbstract ==
  ASSUME NEW q \in Requests, SameCall(q), wired' = wired
  PROVE  /\ AbstractPhase(q)' = AbstractPhase(q)
         /\ AbstractHeld(q)' = AbstractHeld(q)
         /\ start'[q].boot = start[q].boot
<1>1. AbstractPhase(q)' = AbstractPhase(q)
  BY DEF SameCall, AbstractPhase, Discovery
<1>2. QED BY <1>1, Zenon DEF SameCall, AbstractHeld, ClaimKeys

\* A step of one call changes the abstract state of that call alone.
LEMMA AbstractStep ==
  ASSUME NEW r \in Requests, wired' = wired,
         \A q \in Requests : q # r => SameCall(q)
  PROVE  /\ Phase' = [Phase EXCEPT ![r] = AbstractPhase(r)']
         /\ Held' = [Held EXCEPT ![r] = AbstractHeld(r)']
         /\ Born' = [Born EXCEPT ![r] = start'[r].boot]
<1>1. \A q \in Requests : q # r =>
        /\ AbstractPhase(q)' = AbstractPhase(q)
        /\ AbstractHeld(q)' = AbstractHeld(q)
        /\ start'[q].boot = start[q].boot
  BY SameAbstract
<1>2. QED BY <1>1, ZenonT(60) DEF Phase, Held, Born

-----------------------------------------------------------------------------
(* What a step of call r must do to be a step of DispatchOnce, or none *)

\* The step is one of call r, and of nothing else.
OnlyCall(r) ==
  /\ wired' = wired /\ boot' = boot
  /\ \A q \in Requests : q # r => SameCall(q)

\* The call is opened.
Opens(r) ==
  /\ pc[r] = "new" /\ pc'[r] # "new" /\ ~Holds(r)'
  /\ seen' = seen /\ calls' = calls /\ start'[r].boot = boot

\* The call moves on without changing its abstract phase.
Stays(r) ==
  /\ UNCHANGED <<env, start>> /\ seen' = seen /\ calls' = calls
  /\ AbstractPhase(r)' = AbstractPhase(r)

\* The call ends without having run.
Ends(r) ==
  /\ UNCHANGED <<env, start>> /\ seen' = seen /\ calls' = calls
  /\ AbstractPhase(r) \in {"open", "granted"} /\ r \notin calls
  /\ AbstractPhase(r)' = "done"

\* The call is granted its keys, or none when no replay cache is wired.
Gains(r) ==
  /\ UNCHANGED <<env, start>> /\ calls' = calls
  /\ AbstractPhase(r) = "open" /\ AbstractPhase(r)' = "granted"
  /\ IF "replay" \in wired THEN ClaimReplay(r) ELSE seen' = seen

\* The call runs.
Runs(r) ==
  /\ UNCHANGED <<env, start>> /\ seen' = seen /\ calls' = calls \cup {r}
  /\ AbstractPhase(r) = "granted" /\ AbstractPhase(r)' = "done"

\* The abstract state of call r before and after a step of r alone.
LEMMA AbstractFacts ==
  ASSUME TypeInv, TypeInv', NEW r \in Requests, OnlyCall(r)
  PROVE  /\ Phase' = [Phase EXCEPT ![r] = AbstractPhase(r)']
         /\ Held' = [Held EXCEPT ![r] = AbstractHeld(r)']
         /\ Born' = [Born EXCEPT ![r] = start'[r].boot]
         /\ Phase[r] = AbstractPhase(r) /\ Held[r] = AbstractHeld(r) /\ Born[r] = start[r].boot
         /\ Phase = [q \in DOMAIN Phase |-> Phase[q]] /\ Held = [q \in DOMAIN Held |-> Held[q]]
         /\ Born = [q \in DOMAIN Born |-> Born[q]]
         /\ DOMAIN Phase = Requests /\ DOMAIN Held = Requests /\ DOMAIN Born = Requests
         /\ AbstractHeld(r) = IF "replay" \in wired /\ Holds(r) THEN ClaimKeys(env[r]) ELSE {}
         /\ AbstractHeld(r)' = IF "replay" \in wired /\ Holds(r)' THEN ClaimKeys(env'[r]) ELSE {}
<1>1. /\ Phase' = [Phase EXCEPT ![r] = AbstractPhase(r)']
      /\ Held' = [Held EXCEPT ![r] = AbstractHeld(r)']
      /\ Born' = [Born EXCEPT ![r] = start'[r].boot]
  BY AbstractStep DEF OnlyCall
<1>2. AbstractHeld(r) = IF "replay" \in wired /\ Holds(r) THEN ClaimKeys(env[r]) ELSE {}
  BY PhaseOf
<1>3. AbstractHeld(r)' = IF "replay" \in wired /\ Holds(r)' THEN ClaimKeys(env'[r]) ELSE {}
  BY PhaseOfNext DEF OnlyCall
<1>4. /\ Phase[r] = AbstractPhase(r) /\ Held[r] = AbstractHeld(r) /\ Born[r] = start[r].boot
      /\ Phase = [q \in DOMAIN Phase |-> Phase[q]] /\ Held = [q \in DOMAIN Held |-> Held[q]]
      /\ Born = [q \in DOMAIN Born |-> Born[q]]
      /\ DOMAIN Phase = Requests /\ DOMAIN Held = Requests /\ DOMAIN Born = Requests
  BY DEF Phase, Held, Born
<1>5. QED BY <1>1, <1>2, <1>3, <1>4

\* Opening a call is OnceOpen.
LEMMA OpensIsAStep ==
  ASSUME TypeInv, TypeInv', NEW r \in Requests, CallInv(r), OnlyCall(r), Opens(r)
  PROVE  Once!OnceNext
<1>1. ~Holds(r) /\ ~Holds(r)'
  BY DEF Opens, Holds, Granting, CallInv
<1>2. AbstractHeld(r)' = AbstractHeld(r)
  BY <1>1, AbstractFacts, Zenon
<1>3. Held' = Held
  BY <1>2, AbstractFacts
<1>4. AbstractPhase(r) = "idle" /\ AbstractPhase(r)' \in {"open", "done"}
  <2>1. AbstractPhase(r) = "idle"
    BY PhaseOf DEF Opens
  <2>2. AbstractPhase(r)' # "idle" /\ AbstractPhase(r)' # "granted"
    BY <1>1, PhaseOfNext DEF Opens, Holds
  <2>3. QED BY <2>1, <2>2, PhaseOfNext
<1>5. /\ Phase[r] = "idle" /\ Phase' = [Phase EXCEPT ![r] = AbstractPhase(r)']
      /\ Born' = [Born EXCEPT ![r] = boot]
      /\ boot' = boot /\ seen' = seen /\ calls' = calls
  BY <1>4, AbstractFacts DEF Opens, OnlyCall
<1>6. Once!OnceOpen(r)
  BY <1>3, <1>4, <1>5, ZenonT(60) DEF Once!OnceOpen, Phase, Held, Born
<1>7. QED BY <1>6 DEF Once!OnceNext

\* Moving on is no step at all.
LEMMA StaysIsNoStep ==
  ASSUME TypeInv, TypeInv', NEW r \in Requests, OnlyCall(r), Stays(r)
  PROVE  UNCHANGED Once!onceVars
<1>1. Holds(r)' <=> Holds(r)
  BY PhaseOf, PhaseOfNext DEF Stays, Holds
<1>2. AbstractHeld(r)' = AbstractHeld(r)
  BY <1>1, AbstractFacts DEF Stays
<1>3. Phase' = Phase /\ Held' = Held /\ Born' = Born
  BY <1>2, AbstractFacts DEF Stays
<1>4. boot' = boot /\ seen' = seen /\ calls' = calls
  BY DEF Stays, OnlyCall
<1>5. QED BY <1>3, <1>4 DEF Once!onceVars, Phase, Held, Born

\* Ending a call that did not run is OnceEnd.
LEMMA EndsIsAStep ==
  ASSUME TypeInv, TypeInv', NEW r \in Requests, OnlyCall(r), Ends(r)
  PROVE  Once!OnceNext
<1>1. ~Holds(r)'
  BY PhaseOfNext DEF Ends, Holds
<1>2. AbstractHeld(r)' = {}
  BY <1>1, AbstractFacts
<1>3. /\ Phase[r] \in {"open", "granted"} /\ Phase' = [Phase EXCEPT ![r] = "done"]
      /\ Held' = [Held EXCEPT ![r] = {}] /\ Born' = Born
      /\ boot' = boot /\ seen' = seen /\ calls' = calls
  BY <1>2, AbstractFacts DEF Ends, OnlyCall
<1>4. Once!OnceEnd(r)
  BY <1>3 DEF Once!OnceEnd, Phase, Held, Born
<1>5. QED BY <1>4 DEF Once!OnceNext

\* Claiming keys is OnceGrant: a wired replay cache gives only unfiled keys.
LEMMA GainsIsAStep ==
  ASSUME TypeInv, TypeInv', NEW r \in Requests, OnlyCall(r), Gains(r)
  PROVE  Once!OnceNext
<1> DEFINE K == AbstractHeld(r)'
<1>1. K = IF "replay" \in wired THEN ClaimKeys(env[r]) ELSE {}
  <2>1. Holds(r)' /\ env' = env
    BY PhaseOfNext DEF Gains, Holds
  <2>2. QED BY <2>1, AbstractFacts
<1>2. env[r] \in Envelopes
  <2>1. pc[r] # "new"
    BY PhaseOf DEF Gains
  <2>2. QED BY <2>1 DEF TypeInv
<1>3. K \subseteq (UNION { ClaimKeys(e) : e \in Envelopes }) \ seen /\ seen' = seen \cup K
  BY <1>1, <1>2 DEF Gains, ClaimReplay
<1>4. /\ Phase[r] = "open" /\ Phase' = [Phase EXCEPT ![r] = "granted"]
      /\ Held' = [Held EXCEPT ![r] = K] /\ Born' = Born
      /\ boot' = boot /\ calls' = calls
  BY AbstractFacts DEF Gains, OnlyCall
<1> HIDE DEF K
<1>5. Once!OnceGrant(r)
  BY <1>3, <1>4, ZenonT(60) DEF Once!OnceGrant, Phase, Held, Born
<1>6. QED BY <1>5 DEF Once!OnceNext

\* Dispatching is OnceRun.
LEMMA RunsIsAStep ==
  ASSUME TypeInv, TypeInv', NEW r \in Requests, OnlyCall(r), Runs(r)
  PROVE  Once!OnceNext
<1>1. Holds(r) /\ Holds(r)' /\ env' = env
  BY PhaseOf DEF Runs, Holds
<1>2. AbstractHeld(r)' = AbstractHeld(r)
  BY <1>1, AbstractFacts
<1>3. /\ Phase[r] = "granted" /\ Phase' = [Phase EXCEPT ![r] = "done"]
      /\ Held' = Held /\ Born' = Born
      /\ boot' = boot /\ seen' = seen /\ calls' = calls \cup {r}
  BY <1>2, AbstractFacts DEF Runs, OnlyCall
<1>4. Once!OnceRun(r)
  BY <1>3 DEF Once!OnceRun, Phase, Held, Born
<1>5. QED BY <1>4 DEF Once!OnceNext

-----------------------------------------------------------------------------
(* The steps of a call *)

\* The abstract phase after a step, by the place the call moved to.
LEMMA PhaseByPlace ==
  ASSUME NEW r \in Requests
  PROVE  /\ pc'[r] \in {"resolve", "approve", "check", "consult", "claim"} => AbstractPhase(r)' = "open"
         /\ pc'[r] \in {"lookup", "dispatch"} => AbstractPhase(r)' = "granted"
         /\ pc'[r] \in {"reaudit", "answered", "failed"} => AbstractPhase(r)' = "done"
         /\ pc'[r] = "audit" =>
              AbstractPhase(r)' = IF decision'[r] = Allow /\ ~Discovery(env'[r]) THEN "granted" ELSE "done"
BY DEF AbstractPhase, Discovery

\* Beginning a call opens it.
LEMMA BeginOpens ==
  ASSUME TypeInv, NEW r \in Requests, CallInv(r), wired' = wired,
         NEW s \in Sessions, NEW e \in Envelopes, Begin(r, s, e)
  PROVE  Opens(r)
<1>1. pc[r] = "new" /\ seen' = seen /\ calls' = calls /\ start'[r].boot = boot
  BY DEF Begin, TypeInv, TypeOK
<1>2. \E code : \E p \in {"resolve", "check"} : DenyOr(r, code, p)
  BY SMTT(30) DEF Begin
<1>3. pc'[r] \in {"resolve", "check", "audit"}
  BY <1>2, DenyOrMoves
<1>4. ~Holds(r)
  BY <1>1 DEF CallInv, Holds, Granting
<1>5. ~Holds(r)'
  BY <1>4, OnlyClaimGrants DEF PlainStep
<1>6. QED BY <1>1, <1>3, <1>5, Zenon DEF Opens

\* The gates keep a call open or end it.
LEMMA GateStaysOrEnds ==
  ASSUME TypeInv, NEW r \in Requests, CallInv(r),
         Resolve(r) \/ Approve(r) \/ Check(r) \/ Consult(r)
  PROVE  Stays(r) \/ Ends(r)
<1>1. /\ UNCHANGED <<env, start>> /\ seen' = seen /\ calls' = calls
      /\ pc[r] \in {"resolve", "approve", "check", "consult"}
      /\ \E code : \E p \in {"approve", "check", "consult", "claim"} : DenyOr(r, code, p)
  BY Zenon DEF Resolve, Approve, Check, Consult
<1>2. \/ pc'[r] \in {"approve", "check", "consult", "claim"}
      \/ pc'[r] = "audit" /\ decision'[r] # Allow
  BY <1>1, DenyOrMoves, DenyIsNotAllow
<1>3. AbstractPhase(r) = "open"
  BY <1>1, PhaseOf, SMTT(30)
<1>4. r \notin calls
  BY <1>1 DEF CallInv
<1>5. AbstractPhase(r)' \in {"open", "done"}
  BY <1>2, PhaseByPlace
<1>6. QED BY <1>1, <1>3, <1>4, <1>5 DEF Stays, Ends

\* The claim grants a call its keys or ends it.
LEMMA ClaimGainsOrEnds ==
  ASSUME TypeInv, NEW r \in Requests, CallInv(r), Claim(r)
  PROVE  Gains(r) \/ Ends(r)
<1>1. UNCHANGED <<env, start>> /\ calls' = calls /\ pc[r] = "claim"
  BY DEF Claim
<1>2. AbstractPhase(r) = "open"
  BY <1>1, PhaseOf
<1>3. r \notin calls
  BY <1>1 DEF CallInv
<1>4. \/ /\ seen' = seen /\ pc'[r] = "audit" /\ decision'[r] # Allow
      \/ /\ IF "replay" \in wired THEN ClaimReplay(r) ELSE seen' = seen
         /\ Granted(r)
  <2>1. \/ ClaimReplay(r) /\ Granted(r)
        \/ "replay" \notin wired /\ Granted(r) /\ seen' = seen
        \/ seen' = seen /\ \E code : Goto(r, "audit", Deny(code))
    BY Zenon DEF Claim
  <2>2. ClaimReplay(r) => "replay" \in wired
    BY Zenon DEF ClaimReplay
  <2>3. ASSUME NEW code, Goto(r, "audit", Deny(code))
        PROVE  pc'[r] = "audit" /\ decision'[r] # Allow
    BY <2>3, GotoMoves, DenyIsNotAllow, Zenon
  <2>4. QED BY <2>1, <2>2, <2>3, Zenon
<1>5. CASE seen' = seen /\ pc'[r] = "audit" /\ decision'[r] # Allow
  <2>1. AbstractPhase(r)' = "done"
    BY <1>5, PhaseByPlace
  <2>2. QED BY <1>1, <1>2, <1>3, <1>5, <2>1 DEF Ends
<1>6. CASE (IF "replay" \in wired THEN ClaimReplay(r) ELSE seen' = seen) /\ Granted(r)
  <2>1. \/ pc'[r] = "lookup"
        \/ pc'[r] = "audit" /\ decision'[r] = Allow /\ ~Discovery(env'[r])
    BY <1>1, <1>6, GotoMoves DEF Granted, Discovery
  <2>2. AbstractPhase(r)' = "granted"
    BY <2>1, PhaseByPlace
  <2>3. QED BY <1>1, <1>2, <1>6, <2>2 DEF Gains
<1>7. QED BY <1>4, <1>5, <1>6

\* Looking the documents up, auditing and dispatching keep the phase of a call,
\* end it, or run it.
LEMMA LateStepMoves ==
  ASSUME TypeInv, NEW r \in Requests, CallInv(r), Lookup(r) \/ Audit(r) \/ Dispatch(r)
  PROVE  Stays(r) \/ Ends(r) \/ Runs(r)
<1>1. UNCHANGED <<env, start>> /\ seen' = seen
  BY DEF Lookup, Audit, Dispatch
<1>2. CASE Lookup(r)
  <2>1. calls' = calls /\ pc[r] = "lookup" /\ pc'[r] = "audit"
    BY <1>2, GotoMoves DEF Lookup
  <2>2. AbstractPhase(r) = "granted"
    BY <2>1, PhaseOf, Zenon DEF Granting
  <2>3. r \notin calls
    BY <2>1, SMTT(30) DEF CallInv
  <2>4. AbstractPhase(r)' \in {"granted", "done"}
    BY <2>1, PhaseByPlace
  <2>5. QED BY <1>1, <2>1, <2>2, <2>3, <2>4, Zenon DEF Stays, Ends
<1>3. CASE Audit(r)
  <2>1. /\ calls' = calls /\ pc[r] \in {"audit", "reaudit"}
        /\ \/ pc'[r] = IF decision[r] = Allow /\ ~Discovery(env[r]) THEN "dispatch" ELSE "answered"
           \/ pc'[r] = "failed"
    BY <1>3, GotoMoves, SMTT(30) DEF Audit
  <2>2. CASE pc[r] = "audit" /\ decision[r] = Allow /\ ~Discovery(env[r])
    <3>1. AbstractPhase(r) = "granted"
      BY <2>2, PhaseOf, SMTT(30) DEF Granting
    <3>2. r \notin calls
      BY <2>2 DEF CallInv
    <3>3. AbstractPhase(r)' \in {"granted", "done"}
      BY <2>1, <2>2, PhaseByPlace
    <3>4. QED BY <1>1, <2>1, <3>1, <3>2, <3>3, SMTT(30) DEF Stays, Ends
  <2>3. CASE ~(pc[r] = "audit" /\ decision[r] = Allow /\ ~Discovery(env[r]))
    <3>1. pc'[r] \in {"answered", "failed"}
      BY <2>1, <2>3 DEF CallInv
    <3>2. AbstractPhase(r)' = "done"
      BY <3>1, PhaseByPlace
    <3>3. AbstractPhase(r) = "done"
      BY <2>1, <2>3 DEF AbstractPhase
    <3>4. QED BY <1>1, <2>1, <3>2, <3>3, Zenon DEF Stays
  <2>4. QED BY <2>2, <2>3, SMTT(30)
<1>4. CASE Dispatch(r)
  <2>1. /\ pc[r] = "dispatch" /\ pc'[r] \in {"answered", "reaudit"}
        /\ calls' = calls \/ calls' = calls \cup {r}
    BY <1>4, GotoMoves, SMTT(30) DEF Dispatch
  <2>2. AbstractPhase(r) = "granted"
    BY <2>1, PhaseOf DEF Granting
  <2>3. r \notin calls
    BY <2>1 DEF CallInv
  <2>4. AbstractPhase(r)' = "done"
    BY <2>1, PhaseByPlace
  <2>5. QED BY <1>1, <2>1, <2>2, <2>3, <2>4, Zenon DEF Ends, Runs
<1>5. QED BY <1>2, <1>3, <1>4, SMTT(30)

\* Every step of a call is a step of DispatchOnce or changes nothing there.
LEMMA CallStepSimulates ==
  ASSUME IInv, IInv', NEW r \in Requests, wired' = wired, boot' = boot,
         PlainStep(r) \/ Claim(r)
  PROVE  Once!OnceNext \/ UNCHANGED Once!onceVars
<1>1. TypeInv /\ TypeInv' /\ CallInv(r)
  BY DEF IInv
<1>2. OnlyCall(r)
  BY <1>1, OtherCallsStay DEF OnlyCall
<1>3. Opens(r) \/ Stays(r) \/ Ends(r) \/ Gains(r) \/ Runs(r)
  BY <1>1, BeginOpens, GateStaysOrEnds, ClaimGainsOrEnds, LateStepMoves DEF PlainStep
<1>4. QED BY <1>1, <1>2, <1>3, OpensIsAStep, StaysIsNoStep, EndsIsAStep, GainsIsAStep, RunsIsAStep, SMTT(30)

-----------------------------------------------------------------------------
(* The theorem *)

\* So is a restart.
LEMMA RestartSimulates ==
  ASSUME IInv, IInv', Restart
  PROVE  Once!OnceNext
<1>1. TypeInv /\ TypeInv' /\ boot \in Nat
  BY TypeInt DEF IInv
<1>2. /\ UNCHANGED <<wired, env, decision, calls, start>> /\ seen' = {}
      /\ boot < MaxRestarts /\ boot' = boot + 1
      /\ \A r \in Requests : pc'[r] = IF InFlight(r) THEN "lost" ELSE pc[r]
  BY DEF Restart
<1>3. ASSUME NEW r \in Requests
      PROVE  /\ AbstractPhase(r)' = IF AbstractPhase(r) \in {"open", "granted"} THEN "done" ELSE AbstractPhase(r)
             /\ AbstractHeld(r)' = IF r \in calls THEN AbstractHeld(r) ELSE {}
  <2>1. pc[r] \in Places
    BY <1>1 DEF TypeInv, TypeOK
  <2>2. AbstractPhase(r)' = IF AbstractPhase(r) \in {"open", "granted"} THEN "done" ELSE AbstractPhase(r)
    BY <1>2, <2>1 DEF AbstractPhase, InFlight, Places
  <2>3. AbstractPhase(r)' # "granted"
    BY <2>2, Zenon
  <2>4. QED BY <1>2, <2>2, <2>3, Zenon DEF AbstractHeld, ClaimKeys
<1>4. Once!OnceRestart
  BY <1>2, <1>3 DEF Once!OnceRestart
<1>5. QED BY <1>4 DEF Once!OnceNext

\* Handle, with every race, failure and restart of the model, implements
\* DispatchOnce: a call runs only with keys nobody was granted before it.
THEOREM ImplementsDispatchOnce == Spec => OnceRefinement
<1>1. Init => Once!OnceInit
  <2> SUFFICES ASSUME Init PROVE Once!OnceInit
    OBVIOUS
  <2>1. \A r \in Requests : AbstractPhase(r) = "idle" /\ AbstractHeld(r) = {}
    BY DEF Init, AbstractPhase, AbstractHeld
  <2>2. QED BY <2>1 DEF Init, Once!OnceInit
<1>2. IInv /\ IInv' /\ [Next]_vars => [Once!OnceNext]_(Once!onceVars)
  <2> SUFFICES ASSUME IInv, IInv', [Next]_vars PROVE Once!OnceNext \/ UNCHANGED Once!onceVars
    OBVIOUS
  <2>1. ASSUME UNCHANGED <<wired, seen, boot, callVars>> PROVE UNCHANGED Once!onceVars
    <3>1. \A q \in Requests : SameCall(q)
      BY <2>1 DEF callVars, SameCall
    <3>2. \A q \in Requests : /\ AbstractPhase(q)' = AbstractPhase(q)
                              /\ AbstractHeld(q)' = AbstractHeld(q)
      BY <2>1, <3>1, SameAbstract
    <3>3. QED BY <2>1, <3>2 DEF Once!onceVars, callVars
  <2>2. CASE UNCHANGED vars
    BY <2>1, <2>2 DEF vars
  <2>3. CASE Next
    <3>1. ASSUME NEW r \in Requests, PlainStep(r) \/ Claim(r), wired' = wired, boot' = boot
          PROVE  Once!OnceNext \/ UNCHANGED Once!onceVars
      BY <3>1, CallStepSimulates
    <3>2. QED BY <2>1, <2>3, <3>1, StepCases, RestartSimulates DEF PlainStep
  <2>4. QED BY <2>2, <2>3
<1>3. QED BY <1>1, <1>2, Invariance, PTL DEF Spec, OnceRefinement, Once!OnceSpec

=============================================================================
