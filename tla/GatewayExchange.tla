--------------------------- MODULE GatewayExchange ---------------------------
(***************************************************************************)
(* exchange: the gateway's handler for inbound envelopes, composed with    *)
(* the manifest cache, the approval registry and the in-memory replay      *)
(* cache it consults.                                                      *)
(*                                                                         *)
(* Each element of Requests is one call of Handler.Handle, on a goroutine  *)
(* of its own; delivering an envelope twice is two calls with the same     *)
(* envelope.  A call is cut into steps where it reads or writes something  *)
(* another goroutine or an outside party can change:                       *)
(*                                                                         *)
(*   new -> resolve -> approve -> check -> consult -> claim -> audit       *)
(*       -> dispatch -> reaudit -> answered | failed                       *)
(*                                                                         *)
(* The two manifest-independent actions go from new to check, then claim.  *)
(* Manifest discovery goes new, check, claim, lookup, audit.  A call that  *)
(* is denied goes to audit at once.  A restart of the gateway process      *)
(* ends every call in flight and empties what the process kept in memory.  *)
(***************************************************************************)
EXTENDS ManifestCache, ApprovalRegistry

CONSTANTS
  Requests,       \* calls of Handle
  Sessions,       \* authenticated sessions the receiver may hand over
  Envelopes,      \* envelopes partners may send (and send again)
  Wirings,        \* sets of Handler fields that are not nil
  FacadeCodes,    \* denial codes a facade or discovery error may carry
  ClockSkewMS,    \* Handler.ClockSkewMS
  MaxInt,         \* largest value of the integer type of times
  MaxRestarts     \* bound on process restarts

ASSUME ExchangeAssumption ==
  /\ MaxInt \in Nat /\ MaxTime <= MaxInt
  /\ ClockSkewMS \in 0..MaxInt
  /\ MaxRestarts \in Nat

\* Expiry times are integers, those of envelopes of the type's width.
ASSUME TimesAssumption ==
  /\ \A e \in Envelopes : e.expires \in (-(MaxInt + 1))..MaxInt
  /\ \A m \in NormalizedDocuments : m.expires \in Int

VARIABLES
  wired,      \* the Handler fields that are not nil
  seen,       \* MemoryReplayCache.seen
  boot,       \* process restarts so far
  pc,         \* where each call is
  session,    \* session of each call
  env,        \* envelope of each call
  manifest,   \* resolved manifest of each call: none or one
  decision,   \* PreflightDecision of each call
  auditLog,   \* the decisions the audit sink recorded, by call
  calls,      \* calls that reached a method of the facade
  start,      \* (history) clock and boot when the call began
  approved    \* (history) calls the registry would have let through at some
              \* moment between their start and now

callVars == <<pc, session, env, manifest, decision, auditLog, calls, start>>
vars == <<nowMS, manifests, records, pins, wired, seen, boot, callVars, approved>>

-----------------------------------------------------------------------------
(* Helpers *)

NoDecision == [verdict |-> "", code |-> ""]
Allow == [verdict |-> "allow", code |-> ""]
Deny(code) == [verdict |-> "deny", code |-> code]

\* gates is a list of pairs <<condition, code>>, in the order of the source's
\* early returns: the code of the first condition that holds, or "".
FirstDenial(gates) ==
  LET hit == { i \in DOMAIN gates : gates[i][1] }
      first == CHOOSE i \in hit : \A j \in hit : i <= j
  IN  IF hit = {} THEN "" ELSE gates[first][2]

\* Signed addition that wraps around, as Go's int64 does.
Plus(a, b) == ((a + b + MaxInt + 1) % (2 * (MaxInt + 1))) - (MaxInt + 1)

\* Faulty pastExpiry: the skew is allowed for twice.
FaultyPastExpiryTwice(expires) == nowMS > Plus(Plus(expires, ClockSkewMS), ClockSkewMS)

pastExpiry(expires) == nowMS > Plus(expires, ClockSkewMS)

Discovery(e) == e.action = "discover_contract_manifests"

ManifestIndependent(e) ==
  /\ e.action \in {"get_service_catalog_view", "establish_data_channel"}
  /\ e.contract = NoContractRef

Strict(e) == ~Discovery(e) /\ ~ManifestIndependent(e)

\* The action contract of the manifest-independent paths: all but the facade
\* method is the zero value.
IndependentAction(e) ==
  [ action |-> e.action,
    method |-> CASE Discovery(e) -> "DiscoverContractManifests"
                 [] e.action = "get_service_catalog_view" -> "GetServiceCatalogView"
                 [] OTHER -> "EstablishDataChannel",
    mutating |-> FALSE, idempotent |-> FALSE, encoding |-> "", maxBytes |-> 0,
    topologyAllowed |-> FALSE, links |-> {} ]

Action(r) ==
  IF Strict(env[r])
    THEN (CHOOSE m \in manifest[r] : TRUE).actions[env[r].action]
    ELSE IndependentAction(env[r])

needsIdempotency(r) == Action(r).mutating \/ Action(r).idempotent

\* The keys Claim looks up and files: the envelope id, always, and the
\* idempotency key when there is one.
ClaimKeys(e) ==
  {<<"env", e.id>>} \cup (IF e.idem = "" THEN {} ELSE {<<"idem", e.idem>>})

\* Move call r to place p, with decision d.
Goto(r, p, d) ==
  /\ pc' = [pc EXCEPT ![r] = p]
  /\ decision' = [decision EXCEPT ![r] = d]

\* Deny call r with code, or, when code is "", let it go on to place p.
DenyOr(r, code, p) ==
  IF code # "" THEN Goto(r, "audit", Deny(code)) ELSE Goto(r, p, NoDecision)

-----------------------------------------------------------------------------
(* The steps of one call *)

\* The gates every path shares, on the session and the envelope's schema.
SessionDenial(s, e) ==
  FirstDenial(<< <<~e.schemaOk, "payload_invalid">>,
                 <<~sessionMatchesEnvelope(s, e), "unauthenticated">>,
                 <<s.killSwitch, "kill_switch">>,
                 <<s.linkState # "active", "partner_link_denied">> >>)

\* Handle up to the first outside call.
Begin(r, s, e) ==
  /\ pc[r] = "new"
  /\ session' = [session EXCEPT ![r] = s]
  /\ env' = [env EXCEPT ![r] = e]
  /\ start' = [start EXCEPT ![r] = [time |-> nowMS, boot |-> boot]]
  /\ DenyOr(r, SessionDenial(s, e), IF Strict(e) THEN "resolve" ELSE "check")
  /\ UNCHANGED <<seen, manifest, auditLog, calls>>

\* resolveManifest: no resolver resolves nothing.
Resolved(e) == IF "manifests" \in wired THEN ResolveManifest(e.contract) ELSE {}

\* The checks of the resolved manifest against the envelope.
ContractDenial(e, found) ==
  FirstDenial(<< <<found = {}, "contract_unknown">>,
                 <<\E m \in found :
                     \/ m.contract # e.contract
                     \/ m.revoked
                     \/ e.action \notin DOMAIN m.actions
                     \/ m.actions[e.action].method \notin allowedFacadeMethods
                     \/ ~partnerLinkAllowed(m.actions[e.action], e.link),
                   "contract_mismatch">> >>)

\* Faulty Resolve: a contract that is not cached is waited for.
FaultyResolveWaits(r) ==
  LET found == Resolved(env[r]) IN
  /\ pc[r] = "resolve"
  /\ found # {}
  /\ manifest' = [manifest EXCEPT ![r] = found]
  /\ DenyOr(r, ContractDenial(env[r], found), "approve")
  /\ UNCHANGED <<seen, session, env, auditLog, calls, start>>

Resolve(r) ==
  LET found == Resolved(env[r]) IN
  /\ pc[r] = "resolve"
  /\ manifest' = [manifest EXCEPT ![r] = found]
  /\ DenyOr(r, ContractDenial(env[r], found), "approve")
  /\ UNCHANGED <<seen, session, env, auditLog, calls, start>>

\* Faulty Approve: that a record exists is enough.
FaultyApproveAnyRecord(r) ==
  /\ pc[r] = "approve"
  /\ DenyOr(r, IF "approvals" \in wired /\ env[r].contract.hash \notin DOMAIN records
                 THEN "contract_mismatch" ELSE "",
            "check")
  /\ UNCHANGED <<seen, session, env, manifest, auditLog, calls, start>>

\* authorizeContractApproval; no registry means no such check.
Approve(r) ==
  /\ pc[r] = "approve"
  /\ DenyOr(r, IF /\ "approvals" \in wired
                  /\ \E m \in manifest[r] : ~AuthorizeContractApproval(session[r], env[r], m)
                 THEN "contract_mismatch" ELSE "",
            "check")
  /\ UNCHANGED <<seen, session, env, manifest, auditLog, calls, start>>

\* Faulty EnvelopeDenial: a mutating call needs no idempotency key.
FaultyEnvelopeDenialKeyless(r) ==
  LET e == env[r] IN
  FirstDenial(
    << <<\/ e.expires <= 0
         \/ pastExpiry(e.expires)
         \/ \E m \in manifest[r] : m.expires > 0 /\ pastExpiry(m.expires), "expired">>,
       <<Discovery(e) /\ e.payload.size # 0, "payload_invalid">>,
       <<Strict(e) /\ ~validatePayload(e, Action(r)), "payload_invalid">> >>)

\* The clock is read, then the envelope is checked against it and against the
\* action contract.  The manifest-independent action has no contract to check
\* a payload against; discovery takes no payload at all.
EnvelopeDenial(r) ==
  LET e == env[r] IN
  FirstDenial(
    << <<\/ e.expires <= 0
         \/ pastExpiry(e.expires)
         \/ \E m \in manifest[r] : m.expires > 0 /\ pastExpiry(m.expires), "expired">>,
       <<Discovery(e) /\ e.payload.size # 0, "payload_invalid">>,
       <<Strict(e) /\ needsIdempotency(r) /\ e.idem = "", "replay_detected">>,
       <<Strict(e) /\ ~validatePayload(e, Action(r)), "payload_invalid">> >>)

Check(r) ==
  /\ pc[r] = "check"
  /\ DenyOr(r, EnvelopeDenial(r), IF Strict(env[r]) THEN "consult" ELSE "claim")
  /\ UNCHANGED <<seen, session, env, manifest, auditLog, calls, start>>

\* The contract payload validator and the policy; a missing one denies.
OutsideDenial(rejected, denied) ==
  FirstDenial(<< <<"payloads" \notin wired \/ rejected, "payload_invalid">>,
                 <<"policy" \notin wired \/ denied, "policy_denied">> >>)

\* Faulty Consult: the replay keys are filed before the policy is asked.
FaultyConsultClaims(r) ==
  /\ pc[r] = "consult"
  /\ ClaimKeys(env[r]) \cap seen = {}
  /\ seen' = seen \cup ClaimKeys(env[r])
  /\ \E denied \in BOOLEAN :
       IF denied THEN Goto(r, "audit", Deny("policy_denied")) ELSE Goto(r, "audit", Allow)
  /\ UNCHANGED <<session, env, manifest, auditLog, calls, start>>

\* Both may answer anything.
Consult(r) ==
  /\ pc[r] = "consult"
  /\ \E rejected, denied \in BOOLEAN : DenyOr(r, OutsideDenial(rejected, denied), "claim")
  /\ UNCHANGED <<seen, session, env, manifest, auditLog, calls, start>>

\* Faulty ClaimReplay: only the envelope id is looked up.
FaultyClaimEnvelopeOnly(r) ==
  /\ "replay" \in wired
  /\ <<"env", env[r].id>> \notin seen
  /\ seen' = seen \cup ClaimKeys(env[r])

\* MemoryReplayCache.Claim, under its lock: all the keys, or none.
ClaimReplay(r) ==
  /\ "replay" \in wired
  /\ ClaimKeys(env[r]) \cap seen = {}
  /\ seen' = seen \cup ClaimKeys(env[r])

\* Where a call goes once it holds its claim: discovery looks the documents up
\* before it is allowed, everything else is allowed first.
Granted(r) ==
  IF Discovery(env[r]) THEN Goto(r, "lookup", NoDecision) ELSE Goto(r, "audit", Allow)

Claim(r) ==
  /\ pc[r] = "claim"
  /\ \/ ClaimReplay(r) /\ Granted(r)
     \/ /\ "replay" \in wired
        /\ ClaimKeys(env[r]) \cap seen # {}
        /\ Goto(r, "audit", Deny("replay_detected"))
        /\ UNCHANGED seen
     \/ /\ "replay" \notin wired
        /\ IF Strict(env[r]) /\ needsIdempotency(r)
             THEN Goto(r, "audit", Deny("replay_unavailable")) ELSE Granted(r)
        /\ UNCHANGED seen
  /\ UNCHANGED <<session, env, manifest, auditLog, calls, start>>

\* DiscoverSignedManifests, which may fail, return documents that cannot be
\* encoded, or return private topology.
Lookup(r) ==
  /\ pc[r] = "lookup"
  /\ \/ "discovery" \in wired /\ Goto(r, "audit", Allow)
     \/ "discovery" \in wired /\ Goto(r, "audit", Deny("payload_invalid"))
     \/ /\ "discovery" \in wired
        /\ \E code \in FacadeCodes : Goto(r, "audit", Deny(code))
     \/ Goto(r, "audit", Deny("gateway_unavailable"))
  /\ UNCHANGED <<seen, session, env, manifest, auditLog, calls, start>>

\* Faulty Audit: what was audited is dispatched, denied or not.
FaultyAuditDispatches(r) ==
  /\ pc[r] \in {"audit", "reaudit"}
  /\ auditLog' = [auditLog EXCEPT ![r] = Append(@, decision[r])]
  /\ Goto(r, IF pc[r] = "audit" THEN "dispatch" ELSE "answered", decision[r])
  /\ UNCHANGED <<seen, session, env, manifest, calls, start>>

\* audit, before the dispatch or after a dispatch that went wrong.  A sink that
\* fails, or none at all, ends the call with an error and no answer.
Audit(r) ==
  /\ pc[r] \in {"audit", "reaudit"}
  /\ \/ /\ "audit" \in wired
        /\ auditLog' = [auditLog EXCEPT ![r] = Append(@, decision[r])]
        /\ Goto(r, IF decision[r] = Allow /\ ~Discovery(env[r]) THEN "dispatch" ELSE "answered",
                decision[r])
     \/ Goto(r, "failed", decision[r]) /\ UNCHANGED auditLog
  /\ UNCHANGED <<seen, session, env, manifest, calls, start>>

HasFacadeMethod(r) ==
  /\ "facade" \in wired
  /\ Action(r).method = "EstablishDataChannel" => "datachannel" \in wired

\* Faulty Dispatch: a failure is answered without another audit record.
FaultyDispatchSilent(r) ==
  /\ pc[r] = "dispatch"
  /\ calls' = calls \cup {r}
  /\ \E d \in {decision[r], Deny("gateway_unavailable")} : Goto(r, "answered", d)
  /\ UNCHANGED <<seen, session, env, manifest, auditLog, start>>

\* Faulty Dispatch: the text of the error is passed on as the denial code.
FaultyDispatchRawCode(r) ==
  /\ pc[r] = "dispatch"
  /\ calls' = calls \cup {r}
  /\ \/ Goto(r, "answered", decision[r])
     \/ Goto(r, "reaudit", Deny("connection refused"))
  /\ UNCHANGED <<seen, session, env, manifest, auditLog, start>>

\* dispatch and validateDispatchResult.  The facade may succeed, fail (having
\* done its work or not) or return private topology.
Dispatch(r) ==
  /\ pc[r] = "dispatch"
  /\ \/ /\ ~HasFacadeMethod(r)
        /\ Goto(r, "reaudit", Deny("gateway_unavailable"))
        /\ UNCHANGED calls
     \/ /\ HasFacadeMethod(r)
        /\ calls' = calls \cup {r}
        /\ \/ Goto(r, "answered", decision[r])
           \/ \E code \in FacadeCodes \cup {"gateway_unavailable", "payload_invalid"} :
                Goto(r, "reaudit", Deny(code))
  /\ UNCHANGED <<seen, session, env, manifest, auditLog, start>>

Step(r) ==
  /\ \/ Resolve(r) \/ Approve(r) \/ Check(r) \/ Consult(r) \/ Claim(r)
     \/ Lookup(r) \/ Audit(r) \/ Dispatch(r)
  /\ UNCHANGED <<wired, boot, cacheVars, registryVars>>

Arrive(r) ==
  /\ \E s \in Sessions, e \in Envelopes : Begin(r, s, e)
  /\ UNCHANGED <<wired, boot, cacheVars, registryVars>>

-----------------------------------------------------------------------------
(* What happens around the calls *)

\* The control plane loads manifests, files approvals and pins; time passes.
Environment ==
  /\ \/ CacheNext /\ UNCHANGED registryVars
     \/ RegistryNext /\ UNCHANGED cacheVars
  /\ UNCHANGED <<wired, seen, boot, callVars>>

InFlight(r) == pc[r] \notin {"new", "answered", "failed", "lost"}

\* The process dies and comes back with empty caches and an empty registry.
Restart ==
  /\ boot < MaxRestarts
  /\ boot' = boot + 1
  /\ pc' = [r \in Requests |-> IF InFlight(r) THEN "lost" ELSE pc[r]]
  /\ seen' = {} /\ manifests' = <<>> /\ records' = <<>> /\ pins' = <<>>
  /\ UNCHANGED <<nowMS, wired, session, env, manifest, decision, auditLog, calls, start>>

-----------------------------------------------------------------------------
(* Specification *)

NoSession == [remoteTenant |-> "", remoteGateway |-> "", localTenant |-> "",
              localGateway |-> "", link |-> "", linkState |-> "", killSwitch |-> FALSE]

NoEnvelope == [schemaOk |-> FALSE, id |-> "", idem |-> "", expires |-> 0, link |-> "",
               srcTenant |-> "", srcGateway |-> "", dstTenant |-> "", dstGateway |-> "",
               contract |-> NoContractRef, action |-> "",
               payload |-> [encoding |-> "", size |-> 0, hashOk |-> FALSE, topology |-> FALSE]]

Init ==
  /\ CacheInit
  /\ RegistryInit
  /\ wired \in Wirings
  /\ seen = {}
  /\ boot = 0
  /\ pc = [r \in Requests |-> "new"]
  /\ session = [r \in Requests |-> NoSession]
  /\ env = [r \in Requests |-> NoEnvelope]
  /\ manifest = [r \in Requests |-> {}]
  /\ decision = [r \in Requests |-> NoDecision]
  /\ auditLog = [r \in Requests |-> <<>>]
  /\ calls = {}
  /\ start = [r \in Requests |-> [time |-> 0, boot |-> 0]]
  /\ approved = {}

\* Would the registry, as it is now, let call r use the manifest its envelope
\* refers to?
ApprovedNow(r) ==
  /\ InFlight(r)
  /\ \E t \in Documents :
       LET m == normalizeManifest(t) IN
       /\ m.hash = env[r].contract.hash
       /\ AuthorizeContractApproval(session[r], env[r],
            [catalog |-> m.catalog, contract |-> env[r].contract])

\* The history variable after a step, whatever the step.
Remember == approved' = approved \cup { r \in Requests : ApprovedNow(r)' }

Next ==
  /\ \/ \E r \in Requests : Arrive(r) \/ Step(r)
     \/ Environment
     \/ Restart
  /\ Remember

\* Every call runs to its end: its goroutine is scheduled, and the parties it
\* waits for answer.  Nothing forces envelopes, approvals or restarts to come.
Fairness == \A r \in Requests : WF_vars(Step(r) /\ Remember)

Spec == Init /\ [][Next]_vars /\ Fairness

-----------------------------------------------------------------------------
(* Properties *)

Places == { "new", "resolve", "approve", "check", "consult", "claim", "lookup",
            "audit", "dispatch", "reaudit", "answered", "failed", "lost" }

Decisions ==
  {NoDecision, Allow} \cup { Deny(code) : code \in DenialCodes \cup FacadeCodes }

ExchangeManifests ==
  UNION { { toExchangeManifest(m, m.contracts[i]) : i \in DOMAIN m.contracts } :
            m \in NormalizedDocuments }

\* Every variable of the handler and of what it is composed with has its type.
TypeOK ==
  /\ CacheTypeOK
  /\ RegistryTypeOK
  /\ wired \in Wirings
  /\ seen \subseteq UNION { ClaimKeys(e) : e \in Envelopes }
  /\ boot \in 0..MaxRestarts
  /\ pc \in [Requests -> Places]
  /\ session \in [Requests -> Sessions \cup {NoSession}]
  /\ env \in [Requests -> Envelopes \cup {NoEnvelope}]
  /\ manifest \in [Requests -> SUBSET ExchangeManifests]
  /\ decision \in [Requests -> Decisions]
  /\ auditLog \in [Requests -> Seq(Decisions)]
  /\ calls \subseteq Requests
  /\ start \in [Requests -> [time : 0..MaxTime, boot : 0..MaxRestarts]]
  /\ approved \subseteq Requests

\* Claim, before dispatch: within one life of the process no two calls that
\* share an envelope id or an idempotency key both reach the facade, however
\* their steps interleave and whatever fails on the way.  The promise needs a
\* replay cache; a mutating call never goes through without one.
AtMostOnce ==
  \A r, q \in calls :
    /\ r # q
    /\ start[r].boot = start[q].boot
    /\ "replay" \in wired \/ Action(r).mutating
    => ClaimKeys(env[r]) \cap ClaimKeys(env[q]) = {}

\* preflight, with fields of the Handler left nil: a mutating call reaches the
\* facade only past a resolved manifest, a payload validator, a policy, a
\* replay cache that filed its idempotency key, and an audit sink.
MutatingCallsAreGuarded ==
  \A r \in calls : Action(r).mutating =>
    /\ {"manifests", "payloads", "policy", "replay", "audit", "facade"} \subseteq wired
    /\ env[r].idem # ""
    /\ manifest[r] # {}
    /\ start[r].boot = boot => <<"idem", env[r].idem>> \in seen

\* A call turned away before it could dispatch.
Refused(r) ==
  /\ decision[r].verdict = "deny"
  /\ auditLog[r] \in { <<>>, <<decision[r]>> }

\* What the session gates and the envelope's own fields ask of every call.
Sound(s, e) ==
  /\ e.schemaOk /\ sessionMatchesEnvelope(s, e)
  /\ ~s.killSwitch /\ s.linkState = "active"
InOrder(e) == e.expires > 0 /\ (Discovery(e) => e.payload.size = 0)

\* preflight claims last: a refused envelope burns no key, so its sender can
\* put right what was wrong and send it again.  Every key in the replay cache
\* belongs to a call of this life of the process that passed the session gates
\* and was not refused.  A discovery claims before it looks the documents up,
\* and holds its keys even when the lookup then refuses it; one that is turned
\* away for its session, for want of an expiry or for its payload burns none.
RefusalsBurnNoKey ==
  \A k \in seen : \E r \in Requests :
    /\ pc[r] # "new"
    /\ start[r].boot = boot
    /\ k \in ClaimKeys(env[r])
    /\ Sound(session[r], env[r]) /\ InOrder(env[r])
    /\ Refused(r) => Discovery(env[r])

\* Handle audits before it dispatches and again when the dispatch goes wrong:
\* no facade method runs without an "allow" on record before it, and what the
\* peer is told is the last thing the audit trail says of its call.
AuditTrailTellsTheTruth ==
  \A r \in Requests :
    /\ r \in calls => auditLog[r] # <<>> /\ auditLog[r][1] = Allow
    /\ pc[r] = "answered" => auditLog[r] # <<>> /\ auditLog[r][Len(auditLog[r])] = decision[r]
    /\ pc[r] = "answered" /\ decision[r] = Allow /\ ~Discovery(env[r]) => r \in calls

\* authorizeContractApproval reads the registry once, some time before the
\* dispatch.  A withdrawal can therefore be overtaken by calls in flight, but
\* by no others: a call that reaches the facade was approved and pinned at
\* some moment of its own life, so a call that starts after a withdrawal and
\* ends before a new approval does nothing.
CallsWereApproved ==
  "approvals" \in wired => \A r \in calls : Strict(env[r]) => r \in approved

\* The expiry gates, in wrapping arithmetic: a call that reaches the facade
\* began, by the exact numbers, no later than its envelope's expiry plus the
\* skew, and before its manifest expired.
CallsWereFresh ==
  \A r \in calls :
    /\ env[r].expires > 0
    /\ start[r].time <= env[r].expires + ClockSkewMS
    /\ \A m \in manifest[r] : start[r].time < m.expires

\* Handle: every call that begins ends, answered, failed or lost in a restart.
EveryCallEnds == \A r \in Requests : InFlight(r) ~> ~InFlight(r)

=============================================================================
