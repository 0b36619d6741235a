------------------------ MODULE GatewayExchangeGates ------------------------
(***************************************************************************)
(* A call of GatewayExchange that reaches the facade passed every gate on  *)
(* its way: it was guarded, approved, and fresh when it began.             *)
(***************************************************************************)
EXTENDS GatewayExchangeProofs

-----------------------------------------------------------------------------
(* The gates a dispatched call passed *)

\* Calls at one of the places, or past them with what they need to dispatch.
Past(r, places) == pc[r] \in places \/ Holds(r)

\* What the gates leave behind, by how far a call got: a call that goes by a
\* contract has resolved it, was approved, has an idempotency key if it needs
\* one, and met a payload validator and a policy.
GateInv(r) ==
  /\ Strict(env[r]) =>
       /\ Past(r, {"approve", "check", "consult", "claim"}) =>
            /\ manifest[r] # {} /\ "manifests" \in wired
            /\ \A m \in manifest[r] : m.contract = env[r].contract
       /\ Past(r, {"check", "consult", "claim"}) /\ "approvals" \in wired => r \in approved
       /\ Past(r, {"consult", "claim"}) /\ needsIdempotency(r) => env[r].idem # ""
       /\ Past(r, {"claim"}) => {"payloads", "policy"} \subseteq wired
  /\ pc[r] = "dispatch" \/ r \in calls => "audit" \in wired
  /\ r \in calls => "facade" \in wired

\* The registry let the call through: so it would have at this moment.
LEMMA ApprovalIsRemembered ==
  ASSUME TypeInv, NEW r \in Requests, CallInv(r), GateInv(r), Strict(env[r]), Approve(r),
         pc'[r] # "audit", "approvals" \in wired, UNCHANGED <<cacheVars, registryVars>>, Remember
  PROVE  r \in approved'
<1>1. pc[r] = "approve" /\ UNCHANGED <<session, env, manifest>>
  BY Zenon DEF Approve
<1>2. pc'[r] = "check" /\ \A m \in manifest[r] : AuthorizeContractApproval(session[r], env[r], m)
  <2> DEFINE refused == \E m \in manifest[r] : ~AuthorizeContractApproval(session[r], env[r], m)
             code == IF refused THEN "contract_mismatch" ELSE ""
  <2>1. DenyOr(r, code, "check")
    BY Zenon DEF Approve
  <2> HIDE DEF refused, code
  <2>2. code = "" /\ pc'[r] = "check"
    BY <2>1, NotDenied, Zenon
  <2>3. ~refused
    BY <2>2 DEF code
  <2>4. QED BY <2>2, <2>3, Zenon DEF refused
<1>3. PICK m \in manifest[r] : m.contract = env[r].contract
  BY <1>1, Zenon DEF GateInv, Past
<1>4. m \in ExchangeManifests
  BY DEF TypeInv, TypeOK
<1>5. PICK n \in NormalizedDocuments :
        \E i \in DOMAIN n.contracts : m = toExchangeManifest(n, n.contracts[i])
  BY <1>4 DEF ExchangeManifests
<1>6. m.catalog = n.catalog /\ n.hash = env[r].contract.hash
  <2>1. m.catalog = n.catalog /\ m.contract.hash = n.hash
    BY <1>5, SMTT(30) DEF toExchangeManifest
  <2>2. QED BY <1>3, <2>1
<1>7. PICK t \in Documents : n = normalizeManifest(t)
  BY DEF NormalizedDocuments
<1>8. AuthorizeContractApproval(session[r], env[r],
        [catalog |-> n.catalog, contract |-> env[r].contract])
  <2>1. AuthorizeContractApproval(session[r], env[r], m)
    BY <1>2, SMTT(30)
  <2>2. QED BY <1>3, <1>6, <2>1, Zenon DEF AuthorizeContractApproval, pinMatches
<1>9. ApprovedNow(r)'
  <2>1. InFlight(r)'
    BY <1>2 DEF InFlight
  <2>2. QED BY <1>1, <1>6, <1>7, <1>8, <2>1, Zenon
     DEF ApprovedNow, AuthorizeContractApproval, pinMatches, registryVars
<1>10. QED BY <1>9 DEF Remember

\* A call that gets no further, and changes neither envelope nor manifest,
\* keeps what the gates left behind.
LEMMA GateKept ==
  ASSUME NEW q \in Requests, GateInv(q), wired' = wired, approved \subseteq approved',
         env'[q] = env[q], manifest'[q] = manifest[q], q \in calls' => q \in calls,
         pc'[q] = pc[q] \/ pc'[q] \notin {"approve", "check", "consult", "claim", "dispatch"},
         Holds(q)' => Holds(q)
  PROVE  GateInv(q)'
<1>1. \A P \in SUBSET {"approve", "check", "consult", "claim"} : Past(q, P)' => Past(q, P)
  BY Zenon DEF Past
<1>2. QED BY <1>1, SameContract, Zenon DEF GateInv

\* A call that is denied, or has no contract and is checked, owes nothing to
\* the gates.
LEMMA NothingOwed ==
  ASSUME NEW r \in Requests, ~Holds(r)', r \notin calls',
         pc'[r] # "dispatch", Strict(env[r])' => pc'[r] \in {"resolve", "audit"}
  PROVE  GateInv(r)'
BY Zenon DEF GateInv, Past

\* A call that has not claimed holds nothing, and a step other than the claim
\* gives it nothing.
LEMMA EarlyHoldsNothing ==
  ASSUME TypeInv, NEW r \in Requests, CallInv(r), PlainStep(r),
         pc[r] \in {"new", "resolve", "approve", "check", "consult"}
  PROVE  ~Holds(r)' /\ r \notin calls /\ ~Holds(r)
<1>1. r \notin calls /\ ~Holds(r)
  BY DEF CallInv, Holds, Granting
<1>2. QED BY <1>1, OnlyClaimGrants

\* Beginning: nothing is owed yet.
LEMMA BeginGate ==
  ASSUME TypeInv, NEW r \in Requests, CallInv(r), NEW s \in Sessions, NEW e \in Envelopes,
         Begin(r, s, e)
  PROVE  GateInv(r)'
<1>1. pc[r] = "new" /\ env'[r] = e /\ calls' = calls
  BY DEF Begin, TypeInv, TypeOK
<1>2. ~Holds(r)' /\ r \notin calls'
  BY <1>1, EarlyHoldsNothing DEF PlainStep
<1>3. pc'[r] # "dispatch" /\ (Strict(e) => pc'[r] \in {"resolve", "audit"})
  <2> DEFINE p == IF Strict(e) THEN "resolve" ELSE "check"
             code == SessionDenial(s, e)
  <2>1. DenyOr(r, code, p)
    BY DEF Begin
  <2> HIDE DEF p, code
  <2>2. pc'[r] = p \/ pc'[r] = "audit"
    BY <2>1, DenyOrMoves
  <2>3. QED BY <2>2 DEF p
<1>4. Strict(env[r])' = Strict(e)
  BY <1>1 DEF Strict, Discovery, ManifestIndependent
<1>5. QED BY <1>2, <1>3, <1>4, NothingOwed, Zenon

\* A call goes on to the approval only with the contract its envelope names.
LEMMA ResolveGate ==
  ASSUME TypeInv, NEW r \in Requests, CallInv(r), wired' = wired, Resolve(r)
  PROVE  GateInv(r)'
<1> DEFINE found == Resolved(env[r])
<1>1. pc[r] = "resolve" /\ env' = env /\ calls' = calls /\ manifest'[r] = found
  BY DEF Resolve, TypeInv, TypeOK
<1>2. ~Holds(r)' /\ r \notin calls'
  BY <1>1, EarlyHoldsNothing DEF PlainStep
<1>3. DenyOr(r, ContractDenial(env[r], found), "approve")
  BY DEF Resolve
<1> HIDE DEF found
<1>4. CASE pc'[r] = "audit"
  <2>1. pc'[r] \in {"resolve", "audit"} /\ pc'[r] # "dispatch"
    BY <1>4
  <2>2. QED BY <1>2, <2>1, NothingOwed, Zenon
<1>5. CASE pc'[r] # "audit"
  <2>1. ContractDenial(env[r], found) = "" /\ pc'[r] = "approve"
    BY <1>3, <1>5, NotDenied, Zenon
  <2>2. found # {} /\ \A m \in found : m.contract = env[r].contract
    <3> DEFINE S == {"contract_unknown", "contract_mismatch"}
               mismatch == \E m \in found :
                     \/ m.contract # env[r].contract
                     \/ m.revoked
                     \/ env[r].action \notin DOMAIN m.actions
                     \/ m.actions[env[r].action].method \notin allowedFacadeMethods
                     \/ ~partnerLinkAllowed(m.actions[env[r].action], env[r].link)
               none == found = {}
               verdict == FirstDenial(<< <<none, "contract_unknown">>, <<mismatch, "contract_mismatch">> >>)
    <3>1. ContractDenial(env[r], found) = verdict
      BY Zenon DEF ContractDenial
    <3>2. mismatch \in BOOLEAN /\ none \in BOOLEAN
      OBVIOUS
    <3>3. "contract_unknown" \in S /\ "contract_mismatch" \in S /\ "" \notin S
      OBVIOUS
    <3> HIDE DEF mismatch, none, S
    <3>4. verdict \notin S
      BY <2>1, <3>1, <3>3, Zenon
    <3>5. none = FALSE /\ mismatch = FALSE
      BY <3>2, <3>3, <3>4, PassedTwo, Zenon
    <3>6. QED BY <3>5 DEF mismatch, none
  <2>3. "manifests" \in wired
    BY <2>2 DEF found, Resolved
  <2>4. QED BY <1>1, <1>2, <2>1, <2>2, <2>3, Zenon DEF GateInv, Past
<1>6. QED BY <1>4, <1>5

\* The approval.
LEMMA ApproveGate ==
  ASSUME TypeInv, NEW r \in Requests, CallInv(r), GateInv(r), wired' = wired, Approve(r),
         UNCHANGED <<cacheVars, registryVars>>, Remember
  PROVE  GateInv(r)'
<1>1. pc[r] = "approve" /\ UNCHANGED <<env, manifest, calls>>
  BY Zenon DEF Approve
<1>2. ~Holds(r)' /\ r \notin calls'
  BY <1>1, EarlyHoldsNothing DEF PlainStep
<1>3. pc'[r] \in {"check", "audit"}
  BY DenyOrMoves, Zenon DEF Approve
<1>4. Strict(env[r]) /\ pc'[r] # "audit" /\ "approvals" \in wired => r \in approved'
  BY ApprovalIsRemembered
<1>5. Strict(env[r]) =>
        /\ manifest[r] # {} /\ "manifests" \in wired
        /\ \A m \in manifest[r] : m.contract = env[r].contract
  BY <1>1, Zenon DEF GateInv, Past
<1>6. Strict(env[r])' = Strict(env[r])
  BY <1>1, SameContract
<1>7. QED BY <1>1, <1>2, <1>3, <1>4, <1>5, <1>6, Zenon DEF GateInv, Past

\* The checks of the envelope.
LEMMA CheckGate ==
  ASSUME TypeInv, NEW r \in Requests, CallInv(r), GateInv(r), wired' = wired, Check(r),
         approved \subseteq approved'
  PROVE  GateInv(r)'
<1>1. pc[r] = "check" /\ UNCHANGED <<env, manifest, calls>>
  BY DEF Check
<1>2. ~Holds(r)' /\ r \notin calls'
  BY <1>1, EarlyHoldsNothing DEF PlainStep
<1>3. Strict(env[r])' = Strict(env[r]) /\ needsIdempotency(r)' = needsIdempotency(r)
  BY <1>1, SameContract
<1> DEFINE p == IF Strict(env[r]) THEN "consult" ELSE "claim"
           code == EnvelopeDenial(r)
<1>4. DenyOr(r, code, p)
  BY DEF Check
<1> HIDE DEF p, code
<1>5. CASE pc'[r] = "audit"
  <2>1. pc'[r] \in {"resolve", "audit"} /\ pc'[r] # "dispatch"
    BY <1>5
  <2>2. QED BY <1>2, <2>1, NothingOwed, Zenon
<1>6. CASE pc'[r] # "audit"
  <2>1. code = "" /\ pc'[r] = p
    BY <1>4, <1>6, NotDenied, Zenon
  <2>2. CASE ~Strict(env[r])
    <3>1. pc'[r] # "dispatch"
      BY <2>1, Zenon DEF p
    <3>2. QED BY <1>2, <1>3, <2>2, <3>1, NothingOwed, Zenon
  <2>3. CASE Strict(env[r])
    <3>1. needsIdempotency(r) => env[r].idem # ""
      BY <2>1, <2>3, PassedEnvelope, Zenon DEF code
    <3>2. pc'[r] = "consult"
      BY <2>1, <2>3, Zenon DEF p
    <3>3. /\ manifest[r] # {} /\ "manifests" \in wired
          /\ \A m \in manifest[r] : m.contract = env[r].contract
          /\ "approvals" \in wired => r \in approved
      BY <1>1, <2>3, Zenon DEF GateInv, Past
    <3>4. QED BY <1>1, <1>2, <1>3, <3>1, <3>2, <3>3, Zenon DEF GateInv, Past
  <2>4. QED BY <2>2, <2>3
<1>7. QED BY <1>5, <1>6

\* The payload validator and the policy.
LEMMA ConsultGate ==
  ASSUME TypeInv, NEW r \in Requests, CallInv(r), GateInv(r), wired' = wired, Consult(r),
         approved \subseteq approved'
  PROVE  GateInv(r)'
<1>1. pc[r] = "consult" /\ UNCHANGED <<env, manifest, calls>>
  BY DEF Consult
<1>2. ~Holds(r)' /\ r \notin calls'
  BY <1>1, EarlyHoldsNothing DEF PlainStep
<1>3. PICK rejected \in BOOLEAN, denied \in BOOLEAN :
        DenyOr(r, OutsideDenial(rejected, denied), "claim")
  BY DEF Consult
<1>4. CASE pc'[r] = "audit"
  <2>1. pc'[r] \in {"resolve", "audit"} /\ pc'[r] # "dispatch"
    BY <1>4
  <2>2. QED BY <1>2, <2>1, NothingOwed, Zenon
<1>5. CASE pc'[r] # "audit"
  <2>1. OutsideDenial(rejected, denied) = "" /\ pc'[r] = "claim"
    BY <1>3, <1>5, NotDenied, Zenon
  <2>2. {"payloads", "policy"} \subseteq wired
    <3> DEFINE S == {"payload_invalid", "policy_denied"}
               invalid == "payloads" \notin wired \/ rejected
               forbidden == "policy" \notin wired \/ denied
               verdict == FirstDenial(<< <<invalid, "payload_invalid">>, <<forbidden, "policy_denied">> >>)
    <3>1. OutsideDenial(rejected, denied) = verdict
      BY Zenon DEF OutsideDenial
    <3>2. invalid \in BOOLEAN /\ forbidden \in BOOLEAN
      OBVIOUS
    <3>3. "payload_invalid" \in S /\ "policy_denied" \in S /\ "" \notin S
      OBVIOUS
    <3> HIDE DEF invalid, forbidden, S
    <3>4. verdict \notin S
      BY <2>1, <3>1, <3>3, Zenon
    <3>5. invalid = FALSE /\ forbidden = FALSE
      BY <3>2, <3>3, <3>4, PassedTwo, Zenon
    <3>6. QED BY <3>5 DEF invalid, forbidden
  <2>3. Strict(env[r])' = Strict(env[r]) /\ needsIdempotency(r)' = needsIdempotency(r)
    BY <1>1, SameContract
  <2>4. Strict(env[r]) =>
          /\ manifest[r] # {} /\ "manifests" \in wired
          /\ \A m \in manifest[r] : m.contract = env[r].contract
          /\ "approvals" \in wired => r \in approved
          /\ needsIdempotency(r) => env[r].idem # ""
    BY <1>1, Zenon DEF GateInv, Past
  <2>5. QED BY <1>1, <1>2, <2>1, <2>2, <2>3, <2>4, Zenon DEF GateInv, Past
<1>6. QED BY <1>4, <1>5

\* The claim: a call that holds its keys passed every gate before it.
LEMMA ClaimGate ==
  ASSUME TypeInv, NEW r \in Requests, CallInv(r), GateInv(r), wired' = wired, Claim(r),
         approved \subseteq approved'
  PROVE  GateInv(r)'
<1>1. pc[r] = "claim" /\ UNCHANGED <<env, manifest, calls>>
  BY SMTT(30) DEF Claim
<1>2. pc'[r] \in {"lookup", "audit"}
  BY GotoMoves, SMTT(30) DEF Claim, Granted
<1>3. r \notin calls
  BY <1>1 DEF CallInv
<1>4. Strict(env[r])' = Strict(env[r]) /\ needsIdempotency(r)' = needsIdempotency(r)
  BY <1>1, SameContract
<1>5. Strict(env[r]) =>
        /\ manifest[r] # {} /\ "manifests" \in wired
        /\ \A m \in manifest[r] : m.contract = env[r].contract
        /\ "approvals" \in wired => r \in approved
        /\ needsIdempotency(r) => env[r].idem # ""
        /\ {"payloads", "policy"} \subseteq wired
  BY <1>1, Zenon DEF GateInv, Past
<1>6. QED BY <1>1, <1>2, <1>3, <1>4, <1>5, Zenon DEF GateInv

\* Looking up, auditing and dispatching: no sink, no dispatch; no facade, no
\* call.
LEMMA LateGate ==
  ASSUME TypeInv, NEW r \in Requests, CallInv(r), GateInv(r), wired' = wired,
         Lookup(r) \/ Audit(r) \/ Dispatch(r), approved \subseteq approved'
  PROVE  GateInv(r)'
<1>1. UNCHANGED <<env, manifest>>
  BY ZenonT(60) DEF Lookup, Audit, Dispatch
<1>2. Holds(r)' => Holds(r)
  BY OnlyClaimGrants DEF PlainStep
<1>3. CASE Lookup(r)
  <2>1. pc'[r] = "audit" /\ calls' = calls
    BY <1>3, GotoMoves DEF Lookup
  <2>2. QED BY <1>1, <1>2, <2>1, GateKept, SMTT(30)
<1>4. CASE Audit(r)
  <2>1. calls' = calls /\ pc'[r] \in {"dispatch", "answered", "failed"}
    BY <1>4, GotoMoves DEF Audit
  <2>2. CASE pc'[r] # "dispatch"
    BY <1>1, <1>2, <2>1, <2>2, GateKept, SMTT(30)
  <2>3. CASE pc'[r] = "dispatch"
    <3>1. "audit" \in wired /\ Holds(r)
      BY <1>2, <1>4, <2>3, GotoMoves, SMTT(30) DEF Audit, Holds, Granting
    <3>2. Strict(env[r])' = Strict(env[r]) /\ needsIdempotency(r)' = needsIdempotency(r)
      BY <1>1, SameContract
    <3>3. QED BY <1>1, <2>1, <2>3, <3>1, <3>2, Zenon DEF GateInv, Past
  <2>4. QED BY <2>2, <2>3
<1>5. CASE Dispatch(r)
  <2>1. pc[r] = "dispatch" /\ pc'[r] \in {"reaudit", "answered"}
    BY <1>5, GotoMoves DEF Dispatch
  <2>2. r \in calls' => r \in calls \/ "facade" \in wired
    BY <1>5, SMTT(30) DEF Dispatch, HasFacadeMethod
  <2>3. Holds(r) /\ "audit" \in wired
    BY <2>1, Zenon DEF Holds, Granting, GateInv
  <2>4. Strict(env[r])' = Strict(env[r]) /\ needsIdempotency(r)' = needsIdempotency(r)
    BY <1>1, SameContract
  <2>5. QED BY <1>1, <2>1, <2>2, <2>3, <2>4, Zenon DEF GateInv, Past
<1>6. QED BY <1>3, <1>4, <1>5

\* Every step keeps what the gates left behind.
LEMMA NextGate ==
  ASSUME IInv, \A q \in Requests : GateInv(q), [Next]_vars
  PROVE  \A q \in Requests : GateInv(q)'
<1>1. approved \subseteq approved'
  BY SMTT(30) DEF Next, Remember, vars
<1>2. ASSUME NEW q \in Requests, SameCall(q), wired' = wired, boot' = boot PROVE GateInv(q)'
  <2>1. Holds(q)' <=> Holds(q)
    BY <1>2, SameCallInv
  <2>2. QED BY <1>1, <1>2, <2>1, GateKept DEF SameCall
<1>3. ASSUME UNCHANGED <<wired, seen, boot, callVars>> PROVE \A q \in Requests : GateInv(q)'
  <2>1. \A q \in Requests : SameCall(q)
    BY <1>3 DEF callVars, SameCall
  <2>2. QED BY <1>2, <1>3, <2>1
<1>4. ASSUME NEW r \in Requests, wired' = wired, boot' = boot, GateInv(r)', PlainStep(r) \/ Claim(r)
      PROVE  \A q \in Requests : GateInv(q)'
  <2>1. \A q \in Requests : q # r => SameCall(q)
    BY <1>4, OtherCallsStay DEF IInv
  <2>2. QED BY <1>2, <1>4, <2>1
<1>5. CASE Next
  <2>1. ASSUME NEW r \in Requests, NEW s \in Sessions, NEW e \in Envelopes, Begin(r, s, e),
               wired' = wired, boot' = boot
        PROVE  \A q \in Requests : GateInv(q)'
    <3>1. GateInv(r)'
      BY <2>1, BeginGate DEF IInv
    <3>2. PlainStep(r)
      BY <2>1 DEF PlainStep
    <3>3. QED BY <1>4, <2>1, <3>1, <3>2
  <2>2. ASSUME NEW r \in Requests, UNCHANGED <<wired, boot, cacheVars, registryVars>>,
               \/ Resolve(r) \/ Approve(r) \/ Check(r) \/ Consult(r) \/ Claim(r)
               \/ Lookup(r) \/ Audit(r) \/ Dispatch(r)
        PROVE  \A q \in Requests : GateInv(q)'
    <3>1. TypeInv /\ CallInv(r) /\ GateInv(r) /\ wired' = wired /\ boot' = boot /\ Remember
      BY <1>5, <2>2 DEF IInv, Next
    <3>2. GateInv(r)'
      BY <1>1, <2>2, <3>1, ResolveGate, ApproveGate, CheckGate, ConsultGate, ClaimGate, LateGate, SMTT(30)
    <3>3. PlainStep(r) \/ Claim(r)
      BY <2>2 DEF PlainStep
    <3>4. QED BY <1>4, <3>1, <3>2, <3>3
  <2>3. ASSUME Restart PROVE \A q \in Requests : GateInv(q)'
    <3>1. ASSUME NEW q \in Requests PROVE GateInv(q)'
      <4>1. /\ UNCHANGED <<wired, env, manifest, decision, calls>>
            /\ pc'[q] = IF InFlight(q) THEN "lost" ELSE pc[q]
        BY <2>3 DEF Restart
      <4>2. Holds(q)' => Holds(q)
        BY <4>1 DEF InFlight, Holds, Granting
      <4>3. QED BY <1>1, <4>1, <4>2, GateKept
    <3>2. QED BY <3>1
  <2>4. QED BY <1>3, <1>5, <2>1, <2>2, <2>3, StepCases
<1>6. CASE UNCHANGED vars
  BY <1>3, <1>6 DEF vars
<1>7. QED BY <1>5, <1>6

\* What the gates left behind holds of every behaviour.
LEMMA GateInvariance == Spec => [](IInv /\ \A r \in Requests : GateInv(r))
<1>1. Init => \A r \in Requests : GateInv(r)
  <2> SUFFICES ASSUME Init, NEW r \in Requests PROVE GateInv(r)
    OBVIOUS
  <2>1. pc[r] = "new" /\ r \notin calls
    BY DEF Init
  <2>2. QED BY <2>1, Zenon DEF GateInv, Past, Holds, Granting
<1>2. IInv /\ (\A r \in Requests : GateInv(r)) /\ [Next]_vars => (\A r \in Requests : GateInv(r))'
  BY NextGate
<1>3. QED BY <1>1, <1>2, InitInv, NextInv, PTL DEF Spec

\* A mutating call reaches the facade only past a resolved manifest, a payload
\* validator, a policy, a replay cache that filed its key and an audit sink.
THEOREM MutatingCallsAreGuardedHolds == Spec => []MutatingCallsAreGuarded
<1>1. IInv /\ (\A r \in Requests : GateInv(r)) => MutatingCallsAreGuarded
  <2> SUFFICES ASSUME IInv, \A r \in Requests : GateInv(r), NEW r \in calls, Action(r).mutating
               PROVE  /\ {"manifests", "payloads", "policy", "replay", "audit", "facade"} \subseteq wired
                      /\ env[r].idem # ""
                      /\ manifest[r] # {}
                      /\ start[r].boot = boot => <<"idem", env[r].idem>> \in seen
    BY Zenon DEF MutatingCallsAreGuarded
  <2>1. r \in Requests /\ Holds(r)
    BY DEF IInv, TypeInv, TypeOK, Holds
  <2>2. Strict(env[r])
    BY SMTT(30) DEF Action, IndependentAction
  <2>3. needsIdempotency(r)
    BY SMTT(30) DEF needsIdempotency
  <2>4. "replay" \in wired
    BY <2>1, <2>2, <2>3, ZenonT(60) DEF IInv, CallInv
  <2>5. /\ {"manifests", "payloads", "policy", "audit", "facade"} \subseteq wired
        /\ env[r].idem # "" /\ manifest[r] # {}
    BY <2>1, <2>2, <2>3, Zenon DEF GateInv, Past
  <2>6. start[r].boot = boot => ClaimKeys(env[r]) \subseteq seen
    BY <2>1, <2>4 DEF IInv, KeyInv
  <2>7. <<"idem", env[r].idem>> \in ClaimKeys(env[r])
    BY <2>5, ZenonT(60) DEF ClaimKeys
  <2>8. QED BY <2>4, <2>5, <2>6, <2>7, Zenon
<1>2. QED BY <1>1, GateInvariance, PTL

\* With a registry wired, a call that reaches the facade under a contract was
\* approved and pinned at some moment of its own life.
THEOREM CallsWereApprovedHolds == Spec => []CallsWereApproved
<1>1. IInv /\ (\A r \in Requests : GateInv(r)) => CallsWereApproved
  BY Zenon DEF IInv, TypeInv, TypeOK, GateInv, Past, Holds, CallsWereApproved
<1>2. QED BY <1>1, GateInvariance, PTL

-----------------------------------------------------------------------------
(* Freshness *)

\* The time a call began is no later than now; a call without a contract has
\* no manifest; what a call resolved had not expired when it began; and a call
\* past the checks began before its envelope expired, by the exact numbers.
FreshInv(r) ==
  /\ start[r].time <= nowMS
  /\ pc[r] = "resolve" => Strict(env[r])
  /\ pc[r] \in {"new", "resolve"} \/ ~Strict(env[r]) => manifest[r] = {}
  /\ \A m \in manifest[r] : start[r].time < m.expires
  /\ Past(r, {"consult", "claim"}) =>
       env[r].expires > 0 /\ start[r].time <= env[r].expires + ClockSkewMS

\* A call that gets no further keeps it.
LEMMA FreshKept ==
  ASSUME NEW q \in Requests, FreshInv(q), nowMS \in Nat, nowMS' \in Nat, nowMS <= nowMS',
         start[q].time \in Nat,
         env'[q] = env[q], manifest'[q] = manifest[q], start'[q] = start[q],
         pc'[q] \in {"new", "resolve"} => pc'[q] = pc[q],
         Past(q, {"consult", "claim"})' => Past(q, {"consult", "claim"})
  PROVE  FreshInv(q)'
<1>1. Strict(env[q])' = Strict(env[q])
  BY SameContract, SMTT(30)
<1>2. start'[q].time <= nowMS'
  BY SMTT(30) DEF FreshInv
<1>3. /\ pc'[q] = "resolve" => Strict(env[q])'
      /\ pc'[q] \in {"new", "resolve"} \/ ~Strict(env[q])' => manifest'[q] = {}
  BY <1>1, SMTT(30) DEF FreshInv
<1>4. \A m \in manifest'[q] : start'[q].time < m.expires
  BY ZenonT(60) DEF FreshInv
<1>5. Past(q, {"consult", "claim"})' =>
        env'[q].expires > 0 /\ start'[q].time <= env'[q].expires + ClockSkewMS
  BY ZenonT(60) DEF FreshInv
<1>6. QED BY <1>2, <1>3, <1>4, <1>5, ZenonT(60) DEF FreshInv

\* Beginning notes the time.
LEMMA BeginFresh ==
  ASSUME TypeInv, NEW r \in Requests, CallInv(r), FreshInv(r), nowMS' = nowMS,
         NEW s \in Sessions, NEW e \in Envelopes, Begin(r, s, e)
  PROVE  FreshInv(r)'
<1>1. /\ pc[r] = "new" /\ env'[r] = e /\ manifest' = manifest
      /\ start'[r].time = nowMS
  BY DEF Begin, TypeInv, TypeOK
<1>2. ~Holds(r)'
  BY <1>1, EarlyHoldsNothing, Zenon DEF PlainStep
<1>3. pc'[r] \in {"resolve", "check", "audit"} /\ (pc'[r] = "resolve" => Strict(e))
  <2> DEFINE p == IF Strict(e) THEN "resolve" ELSE "check"
             code == SessionDenial(s, e)
  <2>1. DenyOr(r, code, p)
    BY DEF Begin
  <2> HIDE DEF p, code
  <2>2. pc'[r] = p \/ pc'[r] = "audit"
    BY <2>1, DenyOrMoves, Zenon
  <2>3. QED BY <2>2 DEF p
<1>4. Strict(env[r])' = Strict(e)
  BY <1>1 DEF Strict, Discovery, ManifestIndependent
<1>5. manifest'[r] = {}
  BY <1>1, SMTT(30) DEF FreshInv
<1>6. QED BY <1>1, <1>2, <1>3, <1>4, <1>5, TimesAreNumbers, SMTT(30) DEF FreshInv, Past

\* What a call resolves outlives the moment it began.
LEMMA ResolveFresh ==
  ASSUME TypeInv, NEW r \in Requests, CallInv(r), FreshInv(r), nowMS' = nowMS, Resolve(r)
  PROVE  FreshInv(r)'
<1>1. /\ pc[r] = "resolve" /\ env' = env /\ start' = start
      /\ manifest'[r] = Resolved(env[r])
  BY DEF Resolve, TypeInv, TypeOK
<1>2. ~Holds(r)'
  BY <1>1, EarlyHoldsNothing, ZenonT(30) DEF PlainStep
<1>3. pc'[r] \in {"approve", "audit"}
  BY DenyOrMoves, Zenon DEF Resolve
<1>4. ASSUME NEW m \in manifest'[r] PROVE start[r].time < m.expires
  <2>1. m.expires \in Int /\ nowMS < m.expires
    BY <1>1, ResolvedIsFresh
  <2>2. start[r].time <= nowMS
    BY DEF FreshInv
  <2>3. QED BY <2>1, <2>2, TimesAreNumbers, SMTT(30)
<1>5. Strict(env[r]) /\ Strict(env[r])' = Strict(env[r])
  BY <1>1, Zenon DEF FreshInv, Strict, Discovery, ManifestIndependent
<1>6. start'[r].time <= nowMS'
  BY <1>1, Zenon DEF FreshInv
<1>7. QED BY <1>1, <1>2, <1>3, <1>4, <1>5, <1>6 DEF FreshInv, Past

\* The checks compare the envelope with a clock no earlier than the beginning.
LEMMA CheckFresh ==
  ASSUME TypeInv, NEW r \in Requests, CallInv(r), FreshInv(r), nowMS' = nowMS, Check(r)
  PROVE  FreshInv(r)'
<1>1. pc[r] = "check" /\ UNCHANGED <<env, manifest, start>>
  BY DEF Check
<1>2. ~Holds(r)'
  BY <1>1, EarlyHoldsNothing DEF PlainStep
<1> DEFINE p == IF Strict(env[r]) THEN "consult" ELSE "claim"
           code == EnvelopeDenial(r)
<1>3. DenyOr(r, code, p)
  BY DEF Check
<1>4. p \in {"consult", "claim"}
  OBVIOUS
<1> HIDE DEF p, code
<1>5. pc'[r] \in {"consult", "claim", "audit"}
  BY <1>3, <1>4, DenyOrMoves
<1>6. pc'[r] # "audit" => env[r].expires > 0 /\ start[r].time <= env[r].expires + ClockSkewMS
  <2> SUFFICES ASSUME pc'[r] # "audit"
               PROVE  env[r].expires > 0 /\ start[r].time <= env[r].expires + ClockSkewMS
    OBVIOUS
  <2>1. code = ""
    BY <1>3, NotDenied, Zenon
  <2>2. ~(env[r].expires <= 0) /\ ~(nowMS > Plus(env[r].expires, ClockSkewMS))
    BY <2>1, PassedEnvelope, Zenon DEF code, pastExpiry
  <2>3. env[r].expires \in (-(MaxInt + 1))..MaxInt
    BY <1>1, TimesAssumption DEF TypeInv
  <2>4. env[r].expires \in 1..MaxInt
    BY <2>2, <2>3, ExchangeAssumption
  <2>5. nowMS <= env[r].expires + ClockSkewMS
    BY <2>2, <2>4, PlusNeverExtends, TimesAreNumbers
  <2>6. start[r].time <= nowMS
    BY DEF FreshInv
  <2>7. QED BY <2>4, <2>5, <2>6, TimesAreNumbers, ExchangeAssumption
<1>7. Strict(env[r])' = Strict(env[r])
  BY <1>1, SameContract
<1>8. QED BY <1>1, <1>2, <1>5, <1>6, <1>7, SMTT(30) DEF FreshInv, Past

\* The other steps of a call.
LEMMA OtherStepsFresh ==
  ASSUME TypeInv, NEW r \in Requests, CallInv(r), FreshInv(r), nowMS' = nowMS,
         \/ Approve(r) \/ Consult(r) \/ Claim(r) \/ Lookup(r) \/ Audit(r) \/ Dispatch(r)
  PROVE  FreshInv(r)'
<1>1. UNCHANGED <<env, manifest, start>>
  BY ZenonT(60) DEF Approve, Consult, Claim, Lookup, Audit, Dispatch
<1>2. nowMS \in Nat /\ start[r].time \in Nat /\ nowMS <= nowMS'
  BY TimesAreNumbers
<1>3. ASSUME pc'[r] \notin {"new", "resolve"},
             Past(r, {"consult", "claim"})' => Past(r, {"consult", "claim"})
      PROVE  FreshInv(r)'
  BY <1>1, <1>2, <1>3, FreshKept, SMTT(30)
<1>4. CASE Approve(r)
  <2>1. pc'[r] \in {"check", "audit"} /\ pc[r] = "approve"
    BY <1>4, DenyOrMoves, ZenonT(30) DEF Approve
  <2>2. ~Holds(r)'
    BY <1>4, <2>1, EarlyHoldsNothing, ZenonT(30) DEF PlainStep
  <2>3. QED BY <1>3, <2>1, <2>2 DEF Past
<1>5. CASE Consult(r)
  <2>1. pc'[r] \in {"claim", "audit"} /\ pc[r] = "consult"
    BY <1>5, DenyOrMoves, SMTT(30) DEF Consult
  <2>2. QED BY <1>3, <2>1, Zenon DEF Past
<1>6. CASE Claim(r)
  <2>1. pc'[r] \in {"lookup", "audit"} /\ pc[r] = "claim"
    BY <1>6, GotoMoves, ZenonT(30) DEF Claim, Granted
  <2>2. QED BY <1>3, <2>1 DEF Past
<1>7. CASE Lookup(r) \/ Audit(r) \/ Dispatch(r)
  <2>1. pc'[r] \in {"audit", "dispatch", "answered", "failed", "reaudit"}
    BY <1>7, GotoMoves, ZenonT(60) DEF Lookup, Audit, Dispatch
  <2>2. Holds(r)' => Holds(r)
    BY <1>7, OnlyClaimGrants DEF PlainStep
  <2>3. QED BY <1>3, <2>1, <2>2, SMTT(30) DEF Past
<1>8. QED BY <1>4, <1>5, <1>6, <1>7

\* Every step keeps it.
LEMMA NextFresh ==
  ASSUME IInv, \A q \in Requests : FreshInv(q), [Next]_vars
  PROVE  \A q \in Requests : FreshInv(q)'
<1>1. TypeInv /\ TypeInv'
  BY NextType DEF IInv
<1>2. nowMS \in Nat /\ nowMS' \in Nat /\ \A q \in Requests : start[q].time \in Nat
  <2>1. nowMS' \in 1..MaxTime
    BY <1>1 DEF TypeInv, TypeOK, CacheTypeOK
  <2>2. QED BY <1>1, <2>1, TimesAreNumbers, MaxTimeAssumption, SMTT(30)
<1>3. ASSUME NEW q \in Requests, SameCall(q), wired' = wired, boot' = boot, nowMS <= nowMS'
      PROVE  FreshInv(q)'
  <2>1. Holds(q)' <=> Holds(q)
    BY <1>3, SameCallInv
  <2>2. Past(q, {"consult", "claim"})' => Past(q, {"consult", "claim"})
    BY <1>3, <2>1 DEF Past, SameCall
  <2>3. QED BY <1>2, <1>3, <2>2, FreshKept DEF SameCall
<1>4. ASSUME UNCHANGED <<wired, seen, boot, callVars>>, nowMS <= nowMS'
      PROVE  \A q \in Requests : FreshInv(q)'
  <2>1. \A q \in Requests : SameCall(q)
    BY <1>4 DEF callVars, SameCall
  <2>2. QED BY <1>3, <1>4, <2>1, SMTT(30)
<1>5. ASSUME NEW r \in Requests, wired' = wired, boot' = boot, nowMS' = nowMS, FreshInv(r)',
             PlainStep(r) \/ Claim(r)
      PROVE  \A q \in Requests : FreshInv(q)'
  <2>1. \A q \in Requests : q # r => SameCall(q)
    BY <1>1, <1>5, OtherCallsStay
  <2>2. nowMS <= nowMS'
    BY <1>2, <1>5
  <2>3. QED BY <1>3, <1>5, <2>1, <2>2
<1>6. CASE Next
  <2>1. ASSUME NEW r \in Requests, NEW s \in Sessions, NEW e \in Envelopes, Begin(r, s, e),
               UNCHANGED <<wired, boot, cacheVars, registryVars>>
        PROVE  \A q \in Requests : FreshInv(q)'
    <3>1. wired' = wired /\ boot' = boot /\ nowMS' = nowMS
      BY <2>1 DEF cacheVars
    <3>2. FreshInv(r)'
      BY <2>1, <3>1, BeginFresh DEF IInv
    <3>3. PlainStep(r)
      BY <2>1 DEF PlainStep
    <3>4. QED BY <1>5, <3>1, <3>2, <3>3
  <2>2. ASSUME NEW r \in Requests, UNCHANGED <<wired, boot, cacheVars, registryVars>>,
               \/ Resolve(r) \/ Approve(r) \/ Check(r) \/ Consult(r) \/ Claim(r)
               \/ Lookup(r) \/ Audit(r) \/ Dispatch(r)
        PROVE  \A q \in Requests : FreshInv(q)'
    <3>1. CallInv(r) /\ FreshInv(r) /\ wired' = wired /\ boot' = boot /\ nowMS' = nowMS
      BY <2>2 DEF IInv, cacheVars
    <3>2. FreshInv(r)'
      BY <1>1, <2>2, <3>1, ResolveFresh, CheckFresh, OtherStepsFresh, ZenonT(30)
    <3>3. PlainStep(r) \/ Claim(r)
      BY <2>2 DEF PlainStep
    <3>4. QED BY <1>5, <3>1, <3>2, <3>3
  <2>3. ASSUME Restart PROVE \A q \in Requests : FreshInv(q)'
    <3>1. ASSUME NEW q \in Requests PROVE FreshInv(q)'
      <4>1. /\ UNCHANGED <<nowMS, env, manifest, decision, start, calls>>
            /\ pc'[q] = IF InFlight(q) THEN "lost" ELSE pc[q]
        BY <2>3, SMTT(30) DEF Restart
      <4>2. Past(q, {"consult", "claim"})' => Past(q, {"consult", "claim"})
        BY <4>1 DEF InFlight, Holds, Granting, Past
      <4>3. nowMS <= nowMS'
        <5>1. nowMS' = nowMS
          BY <4>1
        <5>2. QED BY <1>2, <5>1, SMTT(30)
      <4>4. pc'[q] \in {"new", "resolve"} => pc'[q] = pc[q]
        BY <4>1
      <4>5. QED BY <1>2, <4>1, <4>2, <4>3, <4>4, FreshKept
    <3>2. QED BY <3>1
  <2>4. CacheNext \/ UNCHANGED cacheVars => nowMS <= nowMS'
    BY <1>2 DEF CacheNext, Tick, PutVerified, cacheVars
  <2>5. QED BY <1>4, <1>6, <2>1, <2>2, <2>3, <2>4, StepCases, SMTT(30)
<1>7. CASE UNCHANGED vars
  BY <1>2, <1>4, <1>7 DEF vars
<1>8. QED BY <1>6, <1>7

\* A call that reaches the facade began, by the exact numbers, no later than
\* its envelope's expiry plus the skew, and before its manifest expired.
THEOREM CallsWereFreshHolds == Spec => []CallsWereFresh
<1>1. Init => \A r \in Requests : FreshInv(r)
  <2> SUFFICES ASSUME Init, NEW r \in Requests PROVE FreshInv(r)
    OBVIOUS
  <2>1. /\ pc[r] = "new" /\ r \notin calls /\ manifest[r] = {}
        /\ start[r].time = 0 /\ nowMS = 1
    BY DEF Init, CacheInit
  <2>2. QED BY <2>1 DEF FreshInv, Past, Holds, Granting
<1>2. IInv /\ (\A r \in Requests : FreshInv(r)) /\ [Next]_vars => (\A r \in Requests : FreshInv(r))'
  BY NextFresh
<1>3. IInv /\ (\A r \in Requests : FreshInv(r)) => CallsWereFresh
  BY DEF IInv, TypeInv, TypeOK, FreshInv, Past, Holds, CallsWereFresh
<1>4. QED BY <1>1, <1>2, <1>3, InitInv, NextInv, PTL DEF Spec

=============================================================================
