------------------------ MODULE GatewayExchangeProofs ------------------------
(***************************************************************************)
(* For every number of calls, every set of envelopes, documents and        *)
(* approvals, and every wiring of the handler: the shape of a step of      *)
(* GatewayExchange, type correctness, the inductive invariant, and that    *)
(* the audit trail tells the truth.                                        *)
(***************************************************************************)
EXTENDS GatewayExchange, TLAPS

-----------------------------------------------------------------------------
(* The shape of a step *)

\* A trail of one entry starts and ends with it.
LEMMA OneEntry ==
  ASSUME NEW x
  PROVE  <<x>> # <<>> /\ <<x>>[1] = x /\ <<x>>[Len(<<x>>)] = x
OBVIOUS

\* A step of the system is a call beginning, one of the eight steps of a call,
\* a step of the cache, a step of the registry, or a restart.
LEMMA StepCases ==
  ASSUME Next
  PROVE  \/ \E r \in Requests, s \in Sessions, e \in Envelopes :
              Begin(r, s, e) /\ UNCHANGED <<wired, boot, cacheVars, registryVars>>
         \/ \E r \in Requests :
              /\ \/ Resolve(r) \/ Approve(r) \/ Check(r) \/ Consult(r) \/ Claim(r)
                 \/ Lookup(r) \/ Audit(r) \/ Dispatch(r)
              /\ UNCHANGED <<wired, boot, cacheVars, registryVars>>
         \/ CacheNext /\ UNCHANGED registryVars /\ UNCHANGED <<wired, seen, boot, callVars>>
         \/ RegistryNext /\ UNCHANGED cacheVars /\ UNCHANGED <<wired, seen, boot, callVars>>
         \/ Restart
BY DEF Next, Arrive, Step, Environment

\* Of up to four gates, those met have a first.
LEMMA FirstHit ==
  ASSUME NEW hit, hit \subseteq 1..4, hit # {}
  PROVE  (CHOOSE i \in hit : \A j \in hit : i <= j) \in hit
<1>1. \E i \in hit : \A j \in hit : i <= j
  <2>1. PICK x \in hit : x \in 1..4
    BY Zenon
  <2>2. x = 1 \/ x = 2 \/ x = 3 \/ x = 4
    BY <2>1
  <2>3. QED BY <2>1, <2>2
<1>2. QED BY <1>1, Zenon

\* The verdict of a list of gates is one of their codes, or "".
LEMMA FirstDenialType ==
  ASSUME NEW gates, NEW S, NEW n \in 0..4, DOMAIN gates = 1..n,
         \A i \in 1..n : gates[i][2] \in S
  PROVE  FirstDenial(gates) \in S \cup {""}
<1> DEFINE hit == { i \in DOMAIN gates : gates[i][1] }
<1>1. hit \subseteq 1..4
  OBVIOUS
<1>2. hit # {} => (CHOOSE i \in hit : \A j \in hit : i <= j) \in hit
  BY <1>1, FirstHit
<1>3. QED BY <1>2, Zenon DEF FirstDenial

\* A call that passes a list of gates met none of their conditions.
LEMMA PassedGates ==
  ASSUME NEW gates, NEW n \in 0..4, NEW S, DOMAIN gates = 1..n,
         \A i \in 1..n : gates[i][2] \in S, FirstDenial(gates) \notin S
  PROVE  \A i \in 1..n : ~gates[i][1]
<1> DEFINE hit == { i \in DOMAIN gates : gates[i][1] }
<1>1. hit \subseteq 1..4
  OBVIOUS
<1>2. hit # {} => (CHOOSE i \in hit : \A j \in hit : i <= j) \in hit
  BY <1>1, FirstHit
<1>3. hit = {}
  BY <1>2, Zenon DEF FirstDenial
<1>4. QED BY <1>3

Codes == DenialCodes \cup FacadeCodes

\* The gates of each stage give a denial code or let the call pass.
LEMMA DenialTypes ==
  /\ \A s, e : SessionDenial(s, e) \in DenialCodes \cup {""}
  /\ \A e, found : ContractDenial(e, found) \in DenialCodes \cup {""}
  /\ \A r : EnvelopeDenial(r) \in DenialCodes \cup {""}
  /\ \A x, y : OutsideDenial(x, y) \in DenialCodes \cup {""}
<1>1. ASSUME NEW a, NEW b, NEW x \in DenialCodes, NEW y \in DenialCodes
      PROVE  FirstDenial(<< <<a, x>>, <<b, y>> >>) \in DenialCodes \cup {""}
  <2> DEFINE g == << <<a, x>>, <<b, y>> >>
  <2>1. DOMAIN g = 1..2 /\ \A i \in 1..2 : g[i][2] \in DenialCodes
    OBVIOUS
  <2> HIDE DEF g
  <2>2. 2 \in 0..4 /\ 4 \in 0..4
    OBVIOUS
  <2>3. FirstDenial(g) \in DenialCodes \cup {""}
    BY <2>1, <2>2, FirstDenialType, Zenon
  <2>4. QED BY <2>3, Zenon DEF g
<1>2. ASSUME NEW a, NEW b, NEW c, NEW d, NEW x \in DenialCodes, NEW y \in DenialCodes,
             NEW z \in DenialCodes, NEW w \in DenialCodes
      PROVE  FirstDenial(<< <<a, x>>, <<b, y>>, <<c, z>>, <<d, w>> >>) \in DenialCodes \cup {""}
  <2> DEFINE g == << <<a, x>>, <<b, y>>, <<c, z>>, <<d, w>> >>
  <2>1. DOMAIN g = 1..4 /\ \A i \in 1..4 : g[i][2] \in DenialCodes
    OBVIOUS
  <2> HIDE DEF g
  <2>2. 2 \in 0..4 /\ 4 \in 0..4
    OBVIOUS
  <2>3. FirstDenial(g) \in DenialCodes \cup {""}
    BY <2>1, <2>2, FirstDenialType, Zenon
  <2>4. QED BY <2>3, Zenon DEF g
<1>3. /\ {"payload_invalid", "unauthenticated", "kill_switch", "partner_link_denied",
          "contract_unknown", "contract_mismatch"} \subseteq DenialCodes
      /\ {"expired", "replay_detected", "policy_denied"} \subseteq DenialCodes
  BY DEF DenialCodes
<1>4. QED
  BY <1>1, <1>2, <1>3, ZenonT(60) DEF SessionDenial, ContractDenial, EnvelopeDenial, OutsideDenial

\* Deciding a call's fate leaves it at a place with a decision.
LEMMA DenyOrType ==
  ASSUME pc \in [Requests -> Places], decision \in [Requests -> Decisions],
         NEW r, NEW code \in Codes \cup {""}, NEW p \in Places, DenyOr(r, code, p)
  PROVE  pc' \in [Requests -> Places] /\ decision' \in [Requests -> Decisions]
<1>1. Deny(code) \in Decisions \/ code = ""
  BY Zenon DEF Decisions, Codes
<1>2. NoDecision \in Decisions /\ "audit" \in Places
  BY Zenon DEF Decisions, Places
<1>3. QED BY <1>1, <1>2, Zenon DEF DenyOr, Goto

\* The same for a plain move.
LEMMA GotoType ==
  ASSUME pc \in [Requests -> Places], decision \in [Requests -> Decisions],
         NEW r, NEW d \in Decisions, NEW p \in Places, Goto(r, p, d)
  PROVE  pc' \in [Requests -> Places] /\ decision' \in [Requests -> Decisions]
BY Zenon DEF Goto

\* What the cache resolves is drawn from a document that was offered to it.
LEMMA ResolveType ==
  ASSUME CacheTypeOK, NEW ref
  PROVE  ResolveManifest(ref) \subseteq ExchangeManifests
<1> SUFFICES ASSUME ref.hash \in DOMAIN manifests, NEW x \in ResolveManifest(ref)
             PROVE  x \in ExchangeManifests
  BY DEF ResolveManifest
<1> DEFINE m == manifests[ref.hash]
<1>1. m \in NormalizedDocuments
  BY DEF CacheTypeOK
<1>2. PICK c \in findContract(m, ref) : x = toExchangeManifest(m, c)
  BY DEF ResolveManifest
<1>3. PICK i \in DOMAIN m.contracts : c = m.contracts[i]
  BY <1>2 DEF findContract
<1>4. QED BY <1>1, <1>2, <1>3 DEF ExchangeManifests

-----------------------------------------------------------------------------
(* Type correctness *)

\* TypeOK is inductive once it is known that a call that has begun has an
\* envelope somebody sent.
TypeInv == TypeOK /\ \A r \in Requests : pc[r] # "new" => env[r] \in Envelopes

\* The cache keeps its type.
LEMMA CacheKeepsType ==
  ASSUME CacheTypeOK, CacheNext
  PROVE  CacheTypeOK'
<1>1. CASE Tick
  BY <1>1, MaxTimeAssumption DEF Tick, CacheTypeOK, NormalizedDocuments
<1>2. ASSUME NEW doc \in Documents, PutVerified(doc) PROVE CacheTypeOK'
  <2> DEFINE m == normalizeManifest(doc)
  <2>1. m \in NormalizedDocuments
    BY DEF NormalizedDocuments
  <2>2. manifests' = MapPut(manifests, m.hash, m) /\ nowMS' = nowMS
    BY <1>2 DEF PutVerified
  <2> HIDE DEF m
  <2>3. DOMAIN manifests' = DOMAIN manifests \cup {m.hash}
    BY <2>2 DEF MapPut
  <2>4. \A h \in DOMAIN manifests' : manifests'[h] \in NormalizedDocuments
    BY <2>1, <2>2 DEF MapPut, CacheTypeOK
  <2>5. QED BY <2>1, <2>2, <2>3, <2>4 DEF CacheTypeOK, NormalizedDocuments
<1>3. QED BY <1>1, <1>2 DEF CacheNext

\* The registry keeps its type.
LEMMA RegistryKeepsType ==
  ASSUME RegistryTypeOK, RegistryNext
  PROVE  RegistryTypeOK'
<1>1. ASSUME NEW rec \in ApprovalInputs, PutApproval(rec) PROVE RegistryTypeOK'
  <2> DEFINE n == normalizeApprovalRecord(rec)
  <2>1. records' = MapPut(records, n.hash, n) /\ pins' = pins
    BY <1>1 DEF PutApproval
  <2>2. \E x \in ApprovalInputs : n = normalizeApprovalRecord(x)
    OBVIOUS
  <2> HIDE DEF n
  <2>3. \A h \in DOMAIN records' :
          records'[h].hash = h /\ \E x \in ApprovalInputs : records'[h] = normalizeApprovalRecord(x)
    BY <2>1, <2>2 DEF MapPut, RegistryTypeOK
  <2>4. QED BY <2>1, <2>3 DEF RegistryTypeOK, KeyOfPin, pinKey
<1>2. ASSUME NEW p \in PinRecords, PutPin(p) PROVE RegistryTypeOK'
  BY <1>2 DEF PutPin, MapPut, RegistryTypeOK, KeyOfPin, pinKey
<1>3. ASSUME NEW in \in PinInputs, Pin(in) PROVE RegistryTypeOK'
  <2>1. KeyOfPin(NewPin(in)) = pinKey(in.tenant, in.link, in.catalog)
    BY DEF KeyOfPin, pinKey, NewPin
  <2>2. pins' = MapPut(pins, pinKey(in.tenant, in.link, in.catalog), NewPin(in)) /\ records' = records
    BY <1>3 DEF Pin
  <2>3. \A k \in DOMAIN pins' : KeyOfPin(pins'[k]) = k
    BY <2>1, <2>2 DEF MapPut, RegistryTypeOK
  <2>4. QED BY <2>2, <2>3 DEF RegistryTypeOK, KeyOfPin, pinKey
<1>4. QED BY <1>1, <1>2, <1>3 DEF RegistryNext

\* What a call's own variables are typed by.
CallTypes ==
  /\ pc \in [Requests -> Places]
  /\ session \in [Requests -> Sessions \cup {NoSession}]
  /\ env \in [Requests -> Envelopes \cup {NoEnvelope}]
  /\ manifest \in [Requests -> SUBSET ExchangeManifests]
  /\ decision \in [Requests -> Decisions]
  /\ auditLog \in [Requests -> Seq(Decisions)]
  /\ calls \subseteq Requests
  /\ start \in [Requests -> [time : 0..MaxTime, boot : 0..MaxRestarts]]
  /\ seen \subseteq UNION { ClaimKeys(e) : e \in Envelopes }
  /\ \A r \in Requests : pc[r] # "new" => env[r] \in Envelopes

\* The handler's steps keep those types.
LEMMA StepKeepsTypes ==
  ASSUME TypeInv, NEW r \in Requests,
         \/ Resolve(r) \/ Approve(r) \/ Check(r) \/ Consult(r) \/ Claim(r)
         \/ Lookup(r) \/ Audit(r) \/ Dispatch(r)
  PROVE  CallTypes'
<1> USE DEF TypeInv, TypeOK
<1>1. /\ {"approve", "check", "consult", "claim", "lookup", "audit", "dispatch", "reaudit",
          "answered", "failed"} \subseteq Places
      /\ NoDecision \in Decisions /\ Allow \in Decisions
      /\ \A code \in Codes : Deny(code) \in Decisions
      /\ {"contract_unknown", "contract_mismatch", "expired", "payload_invalid", "policy_denied",
          "replay_detected", "replay_unavailable", "gateway_unavailable"} \subseteq Codes
  BY DEF Places, Decisions, Codes, DenialCodes
<1>2. SUFFICES /\ pc' \in [Requests -> Places] /\ decision' \in [Requests -> Decisions]
               /\ manifest' \in [Requests -> SUBSET ExchangeManifests]
               /\ auditLog' \in [Requests -> Seq(Decisions)]
               /\ calls' \subseteq Requests
               /\ seen' \subseteq UNION { ClaimKeys(e) : e \in Envelopes }
  <2>1. UNCHANGED <<session, env, start>> /\ pc[r] # "new" /\ \A q \in Requests : q # r => pc'[q] = pc[q]
    BY ZenonT(60) DEF Resolve, Approve, Check, Consult, Claim, ClaimReplay, Granted, Lookup, Audit, Dispatch,
           DenyOr, Goto
  <2>2. \A q \in Requests : pc'[q] # "new" => env'[q] \in Envelopes
    BY <2>1
  <2>3. QED BY <2>1, <2>2, Zenon DEF CallTypes
<1>3. CASE Resolve(r)
  <2>1. ResolveManifest(env[r].contract) \subseteq ExchangeManifests
    BY ResolveType
  <2>2. PICK code \in Codes \cup {""} : DenyOr(r, code, "approve")
    BY <1>3, DenialTypes, Zenon DEF Resolve, Codes
  <2>3. pc' \in [Requests -> Places] /\ decision' \in [Requests -> Decisions]
    BY <1>1, <2>2, DenyOrType, Zenon
  <2>4. manifest' \in [Requests -> SUBSET ExchangeManifests]
    BY <1>3, <2>1, Zenon DEF Resolve, Resolved
  <2>5. QED BY <1>3, <2>3, <2>4, Zenon DEF Resolve
<1>4. CASE Approve(r)
  <2>1. PICK code \in Codes \cup {""} : DenyOr(r, code, "check")
    BY <1>1, <1>4, Zenon DEF Approve
  <2>2. QED BY <1>1, <1>4, <2>1, DenyOrType, Zenon DEF Approve
<1>5. CASE Check(r)
  <2>1. PICK code \in Codes \cup {""}, p \in {"consult", "claim"} : DenyOr(r, code, p)
    BY <1>5, DenialTypes, Zenon DEF Check, Codes
  <2>2. QED BY <1>1, <1>5, <2>1, DenyOrType, Zenon DEF Check
<1>6. CASE Consult(r)
  <2>1. PICK code \in Codes \cup {""} : DenyOr(r, code, "claim")
    BY <1>6, DenialTypes, Zenon DEF Consult, Codes
  <2>2. QED BY <1>1, <1>6, <2>1, DenyOrType, Zenon DEF Consult
<1>7. CASE Claim(r)
  <2>1. PICK p \in {"lookup", "audit"}, d \in Decisions : Goto(r, p, d)
    BY <1>1, <1>7 DEF Claim, Granted
  <2>2. pc' \in [Requests -> Places] /\ decision' \in [Requests -> Decisions]
    BY <1>1, <2>1, GotoType, Zenon
  <2>3. env[r] \in Envelopes
    BY <1>7 DEF Claim
  <2>4. seen' \subseteq UNION { ClaimKeys(e) : e \in Envelopes }
    BY <1>7, <2>3 DEF Claim, ClaimReplay
  <2>5. QED BY <1>7, <2>2, <2>4 DEF Claim
<1>8. CASE Lookup(r)
  <2>1. PICK d \in Decisions : Goto(r, "audit", d)
    BY <1>1, <1>8 DEF Lookup, Codes
  <2>2. QED BY <1>1, <1>8, <2>1, GotoType, ZenonT(60) DEF Lookup
<1>9. CASE Audit(r)
  <2>1. decision[r] \in Decisions
    OBVIOUS
  <2>2. PICK p \in {"dispatch", "answered", "failed"} : Goto(r, p, decision[r])
    BY <1>9 DEF Audit
  <2>3. pc' \in [Requests -> Places] /\ decision' \in [Requests -> Decisions]
    BY <1>1, <2>1, <2>2, GotoType, Zenon
  <2>4. auditLog' \in [Requests -> Seq(Decisions)]
    <3>1. Append(auditLog[r], decision[r]) \in Seq(Decisions)
      BY <2>1
    <3>2. QED BY <1>9, <3>1, ZenonT(60) DEF Audit
  <2>5. QED BY <1>9, <2>3, <2>4 DEF Audit
<1>10. CASE Dispatch(r)
  <2>1. PICK p \in {"answered", "reaudit"}, d \in Decisions : Goto(r, p, d)
    BY <1>1, <1>10 DEF Dispatch, Codes
  <2>2. QED BY <1>1, <1>10, <2>1, GotoType, ZenonT(60) DEF Dispatch
<1>11. QED BY <1>3, <1>4, <1>5, <1>6, <1>7, <1>8, <1>9, <1>10

\* TypeInv holds at the start.
LEMMA InitType ==
  ASSUME Init
  PROVE  TypeInv
<1> USE DEF Init
<1>1. CacheTypeOK
  BY MaxTimeAssumption DEF CacheInit, CacheTypeOK
<1>2. RegistryTypeOK
  BY DEF RegistryInit, RegistryTypeOK
<1>3. "new" \in Places /\ NoDecision \in Decisions
  BY DEF Places, Decisions
<1>4. start \in [Requests -> [time : 0..MaxTime, boot : 0..MaxRestarts]] /\ boot \in 0..MaxRestarts
  BY MaxTimeAssumption, ExchangeAssumption
<1>5. auditLog \in [Requests -> Seq(Decisions)]
  OBVIOUS
<1>6. QED BY <1>1, <1>2, <1>3, <1>4, <1>5 DEF TypeInv, TypeOK

\* A clock reading is a start time.
LEMMA ClockIsATime ==
  ASSUME NEW n \in 1..MaxTime
  PROVE  n \in 0..MaxTime
BY MaxTimeAssumption

\* TypeInv is preserved by every step.
LEMMA NextType ==
  ASSUME TypeInv, [Next]_vars
  PROVE  TypeInv'
<1>1. CASE UNCHANGED vars
  BY <1>1, Zenon DEF vars, callVars, TypeInv, TypeOK, CacheTypeOK, RegistryTypeOK, NormalizedDocuments,
              KeyOfPin, pinKey
<1>2. CASE Next
  <2>1. approved' \subseteq Requests
    BY <1>2 DEF Next, Remember, TypeInv, TypeOK
  <2>2. ASSUME CacheTypeOK', RegistryTypeOK', wired' \in Wirings, boot' \in 0..MaxRestarts, CallTypes'
        PROVE  TypeInv'
    BY <2>1, <2>2 DEF TypeInv, TypeOK, CallTypes
  <2>3. UNCHANGED cacheVars /\ CacheTypeOK => CacheTypeOK'
    BY DEF cacheVars, CacheTypeOK
  <2>4. UNCHANGED registryVars /\ RegistryTypeOK => RegistryTypeOK'
    BY DEF registryVars, RegistryTypeOK, KeyOfPin, pinKey
  <2>5. UNCHANGED callVars /\ UNCHANGED seen => CallTypes'
    BY DEF callVars, CallTypes, TypeInv, TypeOK
  <2>6. CacheTypeOK /\ RegistryTypeOK /\ wired \in Wirings /\ boot \in 0..MaxRestarts
    BY DEF TypeInv, TypeOK
  <2>7. ASSUME NEW r \in Requests, NEW s \in Sessions, NEW e \in Envelopes, Begin(r, s, e),
               UNCHANGED <<wired, boot, cacheVars, registryVars>>
        PROVE  TypeInv'
    <3>1. PICK code \in Codes \cup {""}, p \in {"resolve", "check"} : DenyOr(r, code, p)
      BY <2>7, DenialTypes, Zenon DEF Begin, Codes
    <3>2. pc' \in [Requests -> Places] /\ decision' \in [Requests -> Decisions]
      <4>1. p \in Places
        BY Zenon DEF Places
      <4>2. QED BY <3>1, <4>1, DenyOrType, Zenon DEF TypeInv, TypeOK
    <3>3. start' \in [Requests -> [time : 0..MaxTime, boot : 0..MaxRestarts]]
      <4>1. [time |-> nowMS, boot |-> boot] \in [time : 0..MaxTime, boot : 0..MaxRestarts]
        <5>1. nowMS \in 1..MaxTime
          BY <2>6, Zenon DEF CacheTypeOK
        <5>2. nowMS \in 0..MaxTime
          BY <5>1, ClockIsATime, ZenonT(60)
        <5>3. QED BY <2>6, <5>2, Zenon
      <4>2. QED BY <2>7, <4>1, Zenon DEF Begin, TypeInv, TypeOK
    <3>4. \A q \in Requests : q # r => pc'[q] = pc[q] /\ env'[q] = env[q]
      BY <2>7, <3>1, ZenonT(60) DEF Begin, DenyOr, Goto, TypeInv, TypeOK
    <3>5. env'[r] = e
      BY <2>7, ZenonT(60) DEF Begin, TypeInv, TypeOK
    <3>6. CallTypes'
      BY <2>7, <3>2, <3>3, <3>4, <3>5, Zenon DEF Begin, CallTypes, TypeInv, TypeOK
    <3>7. QED BY <2>2, <2>3, <2>4, <2>6, <2>7, <3>6, Zenon
  <2>8. ASSUME NEW r \in Requests,
               \/ Resolve(r) \/ Approve(r) \/ Check(r) \/ Consult(r) \/ Claim(r)
               \/ Lookup(r) \/ Audit(r) \/ Dispatch(r),
               UNCHANGED <<wired, boot, cacheVars, registryVars>>
        PROVE  TypeInv'
    <3>1. CallTypes'
      BY <2>8, StepKeepsTypes
    <3>2. QED BY <2>2, <2>3, <2>4, <2>6, <2>8, <3>1
  <2>9. CASE CacheNext /\ UNCHANGED registryVars /\ UNCHANGED <<wired, seen, boot, callVars>>
    BY <2>9, <2>2, <2>4, <2>5, <2>6, CacheKeepsType
  <2>10. CASE RegistryNext /\ UNCHANGED cacheVars /\ UNCHANGED <<wired, seen, boot, callVars>>
    BY <2>10, <2>2, <2>3, <2>5, <2>6, RegistryKeepsType
  <2>11. CASE Restart
    <3>1. CacheTypeOK' /\ RegistryTypeOK'
      BY <2>6, <2>11 DEF Restart, CacheTypeOK, RegistryTypeOK
    <3>2. boot' \in 0..MaxRestarts /\ wired' \in Wirings
      BY <2>6, <2>11, ExchangeAssumption DEF Restart
    <3>3. pc' \in [Requests -> Places] /\ \A r \in Requests : pc[r] = "new" => pc'[r] = "new"
      BY <2>11 DEF Restart, InFlight, Places, TypeInv, TypeOK
    <3>4. CallTypes'
      BY <2>11, <3>3 DEF Restart, CallTypes, TypeInv, TypeOK, InFlight
    <3>5. QED BY <2>2, <3>1, <3>2, <3>4
  <2>12. QED BY <1>2, <2>7, <2>8, <2>9, <2>10, <2>11, StepCases
<1>3. QED BY <1>1, <1>2

\* Every variable keeps its type, whatever the requests, the inputs of the
\* control plane and the wiring of the handler.
THEOREM TypeCorrect == Spec => []TypeOK
<1>1. Init => TypeInv
  BY InitType
<1>2. TypeInv /\ [Next]_vars => TypeInv'
  BY NextType
<1>3. TypeInv => TypeOK
  BY DEF TypeInv
<1>4. QED BY <1>1, <1>2, <1>3, PTL DEF Spec

-----------------------------------------------------------------------------
(* Times *)

\* Remainders of numbers a little larger than the divisor.
LEMMA SmallRemainders ==
  ASSUME NEW x \in Nat, NEW n \in 0..4, n > 0
  PROVE  /\ x < n => x % n = x
         /\ n <= x /\ x < 2 * n => x % n = x - n
<1>1. x < n => x % n = x
  BY SMTT(30)
<1>2. n <= x /\ x < 2 * n => x % n = x - n
  BY SMTT(30)
<1>3. QED BY <1>1, <1>2

\* Wrapping can only make an expiry earlier, never later: a time not past the
\* wrapped sum is not past the exact one.
LEMMA PlusNeverExtends ==
  ASSUME NEW a \in 1..MaxInt, NEW t \in 1..MaxInt, ~(t > Plus(a, ClockSkewMS))
  PROVE  t <= a + ClockSkewMS
<1>1. MaxInt \in Nat /\ ClockSkewMS \in 0..MaxInt
  BY ExchangeAssumption
<1> DEFINE x == a + ClockSkewMS + MaxInt + 1
           n == 2 * (MaxInt + 1)
<1>2. x \in Nat /\ n \in Nat /\ n > 0 /\ x < 2 * n
  BY <1>1
<1>3. Plus(a, ClockSkewMS) = (x % n) - (MaxInt + 1)
  BY DEF Plus
<1>4. (x < n => x % n = x) /\ (n <= x => x % n = x - n)
  <2> HIDE DEF x, n
  <2>1. QED BY <1>2, SmallRemainders
<1>5. CASE x < n
  BY <1>1, <1>3, <1>4, <1>5
<1>6. CASE n <= x
  <2>1. Plus(a, ClockSkewMS) = x - n - (MaxInt + 1)
    BY <1>3, <1>4, <1>6
  <2>2. x - n - (MaxInt + 1) < 0
    BY <1>1
  <2>3. QED BY <1>1, <2>1, <2>2
<1>7. QED BY <1>2, <1>5, <1>6

\* Times are numbers.
LEMMA TimesAreNumbers ==
  ASSUME TypeInv
  PROVE  nowMS \in 1..MaxInt /\ nowMS \in Nat /\ \A r \in Requests : start[r].time \in Nat
BY ExchangeAssumption, MaxTimeAssumption DEF TypeInv, TypeOK, CacheTypeOK

\* What is resolved has not expired.
LEMMA ResolvedIsFresh ==
  ASSUME TypeInv, NEW e, NEW x \in Resolved(e)
  PROVE  x.expires \in Int /\ nowMS < x.expires
<1> DEFINE ref == e.contract
<1>1. x \in ResolveManifest(ref)
  BY DEF Resolved
<1> HIDE DEF ref
<1>2. ref.hash \in DOMAIN manifests
  BY <1>1 DEF ResolveManifest
<1>3. PICK m : m = manifests[ref.hash]
  OBVIOUS
<1>4. m \in NormalizedDocuments
  BY <1>2, <1>3 DEF TypeInv, TypeOK, CacheTypeOK
<1>5. PICK c \in findContract(m, ref) : x = toExchangeManifest(m, c) /\ Verify(m, nowMS)
  BY <1>1, <1>2, <1>3 DEF ResolveManifest
<1>6. x.expires = m.expires
  BY <1>5 DEF toExchangeManifest
<1>7. m.expires \in Int /\ m.expires > nowMS
  BY <1>4, <1>5, TimesAssumption DEF Verify
<1>8. QED BY <1>6, <1>7, TimesAreNumbers


-----------------------------------------------------------------------------
(* The inductive invariant *)

\* Calls that were granted what they need to dispatch and have not yet done so.
Granting(r) ==
  \/ pc[r] \in {"lookup", "dispatch"}
  \/ pc[r] = "audit" /\ decision[r] = Allow /\ ~Discovery(env[r])

\* Calls whose keys must be nobody else's.
Holds(r) == Granting(r) \/ r \in calls

\* What is true of a call by where it is: its trail of audited decisions, its
\* dispatch, the life of the process it belongs to, and that an action that
\* needs an idempotency key got past the claim only with a replay cache.
CallInv(r) ==
  /\ pc[r] \in {"new", "resolve", "approve", "check", "consult", "claim", "lookup", "audit"} =>
       auditLog[r] = <<>>
  /\ pc[r] = "dispatch" =>
       auditLog[r] = <<Allow>> /\ decision[r] = Allow /\ ~Discovery(env[r])
  /\ pc[r] = "reaudit" =>
       auditLog[r] = <<Allow>> /\ decision[r] # Allow
  /\ pc[r] = "answered" =>
       /\ auditLog[r] # <<>> /\ auditLog[r][Len(auditLog[r])] = decision[r]
       /\ decision[r] = Allow /\ ~Discovery(env[r]) => r \in calls
  /\ r \in calls =>
       /\ pc[r] \in {"reaudit", "answered", "failed", "lost"}
       /\ auditLog[r] # <<>> /\ auditLog[r][1] = Allow
  /\ InFlight(r) => start[r].boot = boot
  /\ start[r].boot <= boot
  /\ Holds(r) /\ Strict(env[r]) /\ needsIdempotency(r) => "replay" \in wired

\* The keys of the calls that hold any are filed, for as long as the process
\* lives, and are nobody else's.
KeyInv ==
  "replay" \in wired =>
    /\ \A r \in Requests :
         Holds(r) /\ start[r].boot = boot => ClaimKeys(env[r]) \subseteq seen
    /\ \A r, q \in Requests :
         r # q /\ Holds(r) /\ Holds(q) /\ start[r].boot = start[q].boot =>
           ClaimKeys(env[r]) \cap ClaimKeys(env[q]) = {}

IInv == TypeInv /\ (\A r \in Requests : CallInv(r)) /\ KeyInv

\* A move changes the place and the decision of one call.
LEMMA GotoMoves ==
  ASSUME TypeInv, NEW r \in Requests, NEW p, NEW d, Goto(r, p, d)
  PROVE  /\ pc'[r] = p /\ decision'[r] = d
         /\ \A q \in Requests : q # r => pc'[q] = pc[q] /\ decision'[q] = decision[q]
BY DEF TypeInv, TypeOK, Goto

\* Deciding a call's fate moves it on, undecided, or to the audit of a denial.
LEMMA DenyOrMoves ==
  ASSUME TypeInv, NEW r \in Requests, NEW code, NEW p, DenyOr(r, code, p)
  PROVE  /\ \/ pc'[r] = p /\ decision'[r] = NoDecision
            \/ pc'[r] = "audit" /\ decision'[r] = Deny(code)
         /\ \A q \in Requests : q # r => pc'[q] = pc[q] /\ decision'[q] = decision[q]
BY GotoMoves, ZenonT(30) DEF DenyOr

\* No denial is an allowance.
LEMMA DenyIsNotAllow == NoDecision # Allow /\ \A code : Deny(code) # Allow
BY Zenon DEF Deny, Allow, NoDecision

\* A step of call r other than the claim of its keys.
PlainStep(r) ==
  \/ \E s \in Sessions, e \in Envelopes : Begin(r, s, e)
  \/ Resolve(r) \/ Approve(r) \/ Check(r) \/ Consult(r)
  \/ Lookup(r) \/ Audit(r) \/ Dispatch(r)

\* A call's own state: nothing else about it enters the invariant.
SameCall(q) ==
  /\ pc'[q] = pc[q] /\ decision'[q] = decision[q] /\ auditLog'[q] = auditLog[q]
  /\ env'[q] = env[q] /\ manifest'[q] = manifest[q] /\ start'[q] = start[q]
  /\ q \in calls' <=> q \in calls

\* A step of one call leaves every other call as it was.
LEMMA OtherCallsStay ==
  ASSUME TypeInv, NEW r \in Requests, NEW q \in Requests, q # r,
         PlainStep(r) \/ Claim(r)
  PROVE  SameCall(q)
<1>1. pc'[q] = pc[q] /\ decision'[q] = decision[q]
  BY GotoMoves, DenyOrMoves, Zenon
     DEF PlainStep, Begin, Resolve, Approve, Check, Consult, Claim, Granted, Lookup, Audit, Dispatch
<1>2. /\ auditLog'[q] = auditLog[q] /\ env'[q] = env[q] /\ manifest'[q] = manifest[q]
      /\ start'[q] = start[q] /\ (q \in calls' <=> q \in calls)
  BY Zenon DEF TypeInv, TypeOK, PlainStep, Begin, Resolve, Approve, Check, Consult, Claim, Lookup, Audit,
         Dispatch
<1>3. QED BY <1>1, <1>2 DEF SameCall

\* What a call asks for depends on its envelope and its manifest only.
LEMMA SameContract ==
  ASSUME NEW q \in Requests, env'[q] = env[q], manifest'[q] = manifest[q]
  PROVE  /\ Strict(env[q])' = Strict(env[q]) /\ Discovery(env[q])' = Discovery(env[q])
         /\ needsIdempotency(q)' = needsIdempotency(q)
<1>1. Strict(env[q])' = Strict(env[q]) /\ Discovery(env[q])' = Discovery(env[q])
  BY DEF Strict, Discovery, ManifestIndependent
<1>2. Action(q)' = Action(q)
  BY DEF Action, Strict, Discovery, ManifestIndependent, IndependentAction
<1>3. QED BY <1>1, <1>2 DEF needsIdempotency

\* What is true of a call stays true while the call, the wiring and the boot
\* stay the same.
LEMMA SameCallInv ==
  ASSUME NEW q \in Requests, SameCall(q), wired' = wired, boot' = boot
  PROVE  /\ CallInv(q) => CallInv(q)'
         /\ Holds(q)' <=> Holds(q)
<1>1. env'[q] = env[q] /\ manifest'[q] = manifest[q]
  BY Zenon DEF SameCall
<1>2. /\ needsIdempotency(q)' = needsIdempotency(q)
      /\ Strict(env[q])' = Strict(env[q]) /\ Discovery(env[q])' = Discovery(env[q])
  BY <1>1, SameContract, Zenon
<1>3. Holds(q)' = Holds(q) /\ InFlight(q)' = InFlight(q)
  BY <1>2 DEF SameCall, Holds, Granting, InFlight
<1>4. QED BY <1>2, <1>3 DEF SameCall, CallInv

\* A step of a call other than the claim hands out no keys: if the call holds
\* its keys after the step, it held them before.
LEMMA OnlyClaimGrants ==
  ASSUME TypeInv, NEW r \in Requests, CallInv(r),
         PlainStep(r),
         Holds(r)'
  PROVE  Holds(r) /\ env'[r] = env[r] /\ start'[r] = start[r] /\ manifest'[r] = manifest[r]
<1> USE DEF TypeInv, TypeOK
<1>1. ASSUME NEW code, NEW p \in {"resolve", "approve", "check", "consult", "claim"},
             DenyOr(r, code, p), calls' = calls, r \notin calls
      PROVE  FALSE
  <2>1. pc'[r] = p \/ (pc'[r] = "audit" /\ decision'[r] # Allow)
    BY <1>1, DenyOrMoves, DenyIsNotAllow, ZenonT(30)
  <2>2. QED BY <1>1, <2>1 DEF Holds, Granting
<1>2. CASE \E s \in Sessions, e \in Envelopes : Begin(r, s, e)
  BY <1>1, <1>2, Zenon DEF Begin, CallInv
<1>3. CASE Resolve(r)
  BY <1>1, <1>3 DEF Resolve, CallInv
<1>4. CASE Approve(r)
  BY <1>1, <1>4, Zenon DEF Approve, CallInv
<1>5. CASE Check(r)
  BY <1>1, <1>5 DEF Check, CallInv
<1>6. CASE Consult(r)
  BY <1>1, <1>6 DEF Consult, CallInv
<1>7. CASE Lookup(r)
  BY <1>7 DEF Lookup, Goto, Holds, Granting, CallInv
<1>8. CASE Audit(r)
  <2>1. pc'[r] \in {"dispatch", "answered", "failed"} /\ decision'[r] = decision[r] /\ calls' = calls
    BY <1>8 DEF Audit, Goto
  <2>2. pc'[r] = "dispatch" => decision[r] = Allow /\ ~Discovery(env[r])
    BY <1>8 DEF Audit, Goto
  <2>3. pc[r] = "reaudit" => decision[r] # Allow
    BY DEF CallInv
  <2>4. QED BY <1>8, <2>1, <2>2, <2>3, Zenon DEF Audit, Holds, Granting
<1>9. CASE Dispatch(r)
  BY <1>9, Zenon DEF Dispatch, Holds, Granting
<1>10. QED BY <1>2, <1>3, <1>4, <1>5, <1>6, <1>7, <1>8, <1>9, ZenonT(30) DEF PlainStep

\* Appending to a log keeps its first entry and makes the new one the last.
LEMMA AppendFacts ==
  ASSUME NEW S, NEW log \in Seq(S), NEW d \in S, NEW grown, grown = Append(log, d)
  PROVE  /\ grown # <<>> /\ grown[Len(grown)] = d
         /\ log = <<>> => grown = <<d>>
         /\ log # <<>> => grown[1] = log[1]
<1>1. Len(grown) = Len(log) + 1 /\ Len(log) \in Nat
  OBVIOUS
<1>2. grown # <<>>
  BY <1>1
<1>3. grown[Len(grown)] = d
  BY <1>1
<1>4. log = <<>> => grown = <<d>>
  OBVIOUS
<1>5. log # <<>> => grown[1] = log[1]
  OBVIOUS
<1>6. QED BY <1>2, <1>3, <1>4, <1>5

\* The boot counter is an integer.
LEMMA TypeInt == ASSUME TypeInv PROVE boot \in Nat
BY ExchangeAssumption DEF TypeInv, TypeOK

\* A call that needs an idempotency key and still holds what it held is, after
\* the step too, one that got past a replay cache.
LEMMA GuardStays ==
  ASSUME TypeInv, NEW r \in Requests, CallInv(r), wired' = wired,
         PlainStep(r),
         Holds(r)', Strict(env[r])', needsIdempotency(r)'
  PROVE  "replay" \in wired'
<1>1. Holds(r) /\ env'[r] = env[r] /\ manifest'[r] = manifest[r]
  BY OnlyClaimGrants
<1>2. Strict(env[r]) /\ needsIdempotency(r)
  BY <1>1, SameContract, Zenon
<1>3. QED BY <1>1, <1>2, Zenon DEF CallInv

\* The early steps of a call, those that only move it on or deny it.
LEMMA EarlyStepInv ==
  ASSUME TypeInv, NEW r \in Requests, CallInv(r), boot' = boot, wired' = wired,
         \/ Resolve(r) \/ Approve(r) \/ Check(r) \/ Consult(r)
  PROVE  CallInv(r)'
<1>1. /\ pc[r] \in {"resolve", "approve", "check", "consult"}
      /\ UNCHANGED <<env, auditLog, calls, start>>
      /\ \E code : \E p \in {"approve", "check", "consult", "claim"} : DenyOr(r, code, p)
  BY Zenon DEF Resolve, Approve, Check, Consult
<1>2. pc'[r] \in {"approve", "check", "consult", "claim", "audit"}
  BY <1>1, DenyOrMoves
<1>3. Holds(r)' /\ Strict(env[r])' /\ needsIdempotency(r)' => "replay" \in wired'
  BY GuardStays DEF PlainStep
<1>4. auditLog[r] = <<>> /\ r \notin calls /\ start[r].boot = boot
  BY <1>1, ZenonT(30) DEF CallInv, InFlight
<1>5. QED BY <1>1, <1>2, <1>3, <1>4, TypeInt, ZenonT(30) DEF CallInv, InFlight

\* Beginning a call.
LEMMA BeginInv ==
  ASSUME TypeInv, NEW r \in Requests, CallInv(r), boot' = boot, wired' = wired,
         NEW s \in Sessions, NEW e \in Envelopes, Begin(r, s, e)
  PROVE  CallInv(r)'
<1>1. \E code : \E p \in {"resolve", "check"} : DenyOr(r, code, p)
  BY DEF Begin
<1>2. pc'[r] \in {"resolve", "check", "audit"}
  BY <1>1, DenyOrMoves
<1>3. Holds(r)' /\ Strict(env[r])' /\ needsIdempotency(r)' => "replay" \in wired'
  BY GuardStays DEF PlainStep
<1>4. auditLog'[r] = <<>> /\ r \notin calls' /\ start'[r].boot = boot
  BY Zenon DEF Begin, CallInv, TypeInv, TypeOK
<1>5. QED BY <1>2, <1>3, <1>4, TypeInt DEF CallInv, InFlight

\* Claiming: the only step that hands out keys.
LEMMA ClaimInv ==
  ASSUME TypeInv, NEW r \in Requests, CallInv(r), boot' = boot, wired' = wired, Claim(r)
  PROVE  CallInv(r)'
<1>1. UNCHANGED <<env, manifest, auditLog, calls, start>> /\ pc[r] = "claim"
  BY Zenon DEF Claim
<1>2. pc'[r] \in {"lookup", "audit"}
  BY GotoMoves DEF Claim, Granted
<1>3. auditLog[r] = <<>> /\ r \notin calls /\ start[r].boot = boot
  BY <1>1, ZenonT(30) DEF CallInv, InFlight
<1>4. ASSUME Strict(env[r])', needsIdempotency(r)', Holds(r)' PROVE "replay" \in wired'
  <2>1. env'[r] = env[r] /\ manifest'[r] = manifest[r]
    BY <1>1
  <2>2. Strict(env[r]) /\ needsIdempotency(r)
    BY <1>4, <2>1, SameContract, Zenon
  <2>3. SUFFICES ASSUME "replay" \notin wired PROVE FALSE
    OBVIOUS
  <2>4. pc'[r] = "audit" /\ decision'[r] # Allow
    <3>1. Goto(r, "audit", Deny("replay_unavailable"))
      BY <2>2, <2>3, Zenon DEF Claim, ClaimReplay
    <3>2. QED BY <3>1, GotoMoves, DenyIsNotAllow, Zenon
  <2>5. QED BY <1>1, <1>3, <1>4, <2>4, Zenon DEF Holds, Granting
<1>5. auditLog'[r] = <<>> /\ r \notin calls'
  BY <1>1, <1>3
<1>6. start'[r].boot = boot' /\ start'[r].boot <= boot'
  BY <1>1, <1>3, TypeInt
<1>7. QED BY <1>2, <1>4, <1>5, <1>6, ZenonT(60) DEF CallInv

\* Looking the documents up, auditing and dispatching.
LEMMA LateStepInv ==
  ASSUME TypeInv, NEW r \in Requests, CallInv(r), boot' = boot, wired' = wired,
         Lookup(r) \/ Audit(r) \/ Dispatch(r)
  PROVE  CallInv(r)'
<1>1. Holds(r)' /\ Strict(env[r])' /\ needsIdempotency(r)' => "replay" \in wired'
  BY GuardStays DEF PlainStep
<1>2. auditLog[r] \in Seq(Decisions) /\ decision[r] \in Decisions /\ start[r].boot = boot
  <2>1. pc[r] \in {"lookup", "audit", "reaudit", "dispatch"}
    BY Zenon DEF Lookup, Audit, Dispatch
  <2>2. QED BY <2>1, Zenon DEF CallInv, InFlight, TypeInv, TypeOK
<1>3. CASE Lookup(r)
  <2>1. pc'[r] = "audit"
    BY <1>3, GotoMoves, Zenon DEF Lookup
  <2>2. auditLog'[r] = <<>> /\ r \notin calls' /\ start'[r].boot = boot
    BY <1>2, <1>3, Zenon DEF Lookup, CallInv
  <2>3. QED BY <1>1, <1>2, <2>1, <2>2, TypeInt, Zenon DEF CallInv, InFlight
<1>4. CASE Audit(r)
  <2>1. UNCHANGED <<env, calls, start>> /\ decision'[r] = decision[r]
    BY <1>4, GotoMoves, Zenon DEF Audit
  <2>2. CASE pc'[r] = "failed"
    <3>1. auditLog'[r] = auditLog[r]
      <4> DEFINE p == IF decision[r] = Allow /\ ~Discovery(env[r]) THEN "dispatch" ELSE "answered"
      <4>1. p # "failed"
        OBVIOUS
      <4> HIDE DEF p
      <4>2. ~Goto(r, p, decision[r])
        BY <2>2, <4>1, GotoMoves, Zenon
      <4>3. auditLog' = auditLog
        BY <1>4, <4>2, Zenon DEF Audit, p
      <4>4. QED BY <4>3
    <3>2. QED BY <1>1, <1>2, <2>1, <2>2, <3>1, TypeInt, Zenon DEF CallInv, InFlight, Audit
  <2>3. CASE pc'[r] # "failed"
    <3>1. auditLog' = [auditLog EXCEPT ![r] = Append(@, decision[r])]
      BY <1>4, <2>3, GotoMoves, SMTT(30) DEF Audit
    <3>2. pc'[r] = IF decision[r] = Allow /\ ~Discovery(env[r]) THEN "dispatch" ELSE "answered"
      BY <1>4, <2>3, GotoMoves DEF Audit
    <3>3. auditLog'[r] = Append(auditLog[r], decision[r])
      BY <3>1 DEF TypeInv, TypeOK
    <3>4. /\ auditLog'[r] # <<>>
          /\ auditLog'[r][Len(auditLog'[r])] = decision[r]
          /\ auditLog[r] = <<>> => auditLog'[r] = <<decision[r]>>
          /\ auditLog[r] # <<>> => auditLog'[r][1] = auditLog[r][1]
      <4> DEFINE log == auditLog[r]
                 grown == auditLog'[r]
                 d == decision[r]
      <4>1. log \in Seq(Decisions) /\ d \in Decisions /\ grown = Append(log, d)
        BY <1>2, <3>3, Zenon
      <4> HIDE DEF log, grown, d
      <4>2. grown # <<>> /\ grown[Len(grown)] = d
        BY <4>1, AppendFacts
      <4>3. log = <<>> => grown = <<d>>
        BY <4>1, AppendFacts
      <4>4. log # <<>> => grown[1] = log[1]
        BY <4>1, AppendFacts
      <4>5. QED BY <4>2, <4>3, <4>4, Zenon DEF log, grown, d
    <3>5. CASE pc[r] = "audit"
      <4>1. auditLog'[r] = <<decision[r]>> /\ r \notin calls'
        BY <2>1, <3>4, <3>5, Zenon DEF CallInv
      <4>2. QED BY <1>1, <1>2, <2>1, <3>2, <3>4, <4>1, TypeInt, Zenon DEF CallInv, InFlight
    <3>6. CASE pc[r] = "reaudit"
      <4>1. decision[r] # Allow /\ pc'[r] = "answered" /\ auditLog[r] = <<Allow>>
        BY <3>2, <3>6, Zenon DEF CallInv
      <4>2. auditLog'[r][1] = Allow
        BY <3>4, <4>1, OneEntry, Zenon
      <4>3. QED BY <1>1, <1>2, <2>1, <3>4, <4>1, <4>2, TypeInt, Zenon DEF CallInv, InFlight
    <3>7. QED BY <1>4, <3>5, <3>6, SMTT(30) DEF Audit
  <2>4. QED BY <2>2, <2>3
<1>5. CASE Dispatch(r)
  <2>1. /\ UNCHANGED <<env, auditLog, start>>
        /\ auditLog[r] = <<Allow>> /\ decision[r] = Allow
    BY <1>5, ZenonT(60) DEF Dispatch, CallInv
  <2>2. \/ pc'[r] = "reaudit" /\ decision'[r] # Allow
        \/ pc'[r] = "answered" /\ decision'[r] = Allow /\ r \in calls'
    BY <1>5, <2>1, GotoMoves, DenyIsNotAllow, ZenonT(60) DEF Dispatch
  <2>3. auditLog[r] # <<>> /\ auditLog[r][1] = Allow /\ auditLog[r][Len(auditLog[r])] = Allow
    BY <2>1, OneEntry, Zenon
  <2>4. QED BY <1>1, <1>2, <2>1, <2>2, <2>3, TypeInt, Zenon DEF CallInv, InFlight
<1>6. QED BY <1>3, <1>4, <1>5

\* If no call gains keys, none changes its envelope while it holds any, and
\* the cache forgets nothing, the keys stay exclusive.
LEMMA KeysStay ==
  ASSUME KeyInv, wired' = wired, boot' = boot, seen \subseteq seen',
         \A q \in Requests : Holds(q)' => Holds(q) /\ env'[q] = env[q] /\ start'[q] = start[q]
  PROVE  KeyInv'
BY Zenon DEF KeyInv

\* A step of a call that is not a claim keeps the keys exclusive.
LEMMA StepKeepsKeys ==
  ASSUME TypeInv, KeyInv, wired' = wired, boot' = boot,
         NEW r \in Requests, CallInv(r),
         PlainStep(r)
  PROVE  KeyInv'
<1>1. seen' = seen
  BY ZenonT(60) DEF PlainStep, Begin, Resolve, Approve, Check, Consult, Lookup, Audit, Dispatch
<1>2. ASSUME NEW q \in Requests, Holds(q)'
      PROVE  Holds(q) /\ env'[q] = env[q] /\ start'[q] = start[q]
  <2>1. CASE q = r
    BY <1>2, <2>1, OnlyClaimGrants
  <2>2. CASE q # r
    <3>1. SameCall(q)
      BY <2>2, OtherCallsStay
    <3>2. QED BY <1>2, <3>1, SameCallInv DEF SameCall
  <2>3. QED BY <2>1, <2>2
<1>3. QED BY <1>1, <1>2, KeysStay, Zenon

\* A claim keeps the keys exclusive: it takes only keys that nobody filed, and
\* every call of this life of the process that holds keys has filed them.
LEMMA ClaimKeepsKeys ==
  ASSUME TypeInv, KeyInv, wired' = wired, boot' = boot,
         NEW r \in Requests, CallInv(r), Claim(r)
  PROVE  KeyInv'
<1> SUFFICES ASSUME "replay" \in wired PROVE KeyInv'
  BY Zenon DEF KeyInv
<1>1. UNCHANGED <<env, calls, start>> /\ pc[r] = "claim"
  BY Zenon DEF Claim
<1>2. ASSUME NEW q \in Requests, q # r PROVE Holds(q)' <=> Holds(q)
  BY <1>2, OtherCallsStay, SameCallInv, Zenon
<1>3. CASE ClaimReplay(r)
  <2>1. ClaimKeys(env[r]) \cap seen = {} /\ seen' = seen \cup ClaimKeys(env[r])
    BY <1>3 DEF ClaimReplay
  <2>2. start[r].boot = boot
    BY <1>1, Zenon DEF CallInv, InFlight
  <2>3. ASSUME NEW q \in Requests, q # r, Holds(q), start[q].boot = boot
        PROVE  ClaimKeys(env[r]) \cap ClaimKeys(env[q]) = {}
    BY <2>1, <2>3, Zenon DEF KeyInv
  <2>4. QED BY <1>1, <1>2, <2>1, <2>2, <2>3, Zenon DEF KeyInv
<1>4. CASE ~ClaimReplay(r)
  <2>1. seen' = seen /\ pc'[r] = "audit" /\ decision'[r] # Allow
    <3>1. seen' = seen /\ Goto(r, "audit", Deny("replay_detected"))
      BY <1>4, Zenon DEF Claim
    <3>2. QED BY <3>1, GotoMoves, DenyIsNotAllow, ZenonT(30)
  <2>2. ~Holds(r)'
    BY <1>1, <2>1 DEF Holds, Granting, CallInv
  <2>3. QED BY <1>1, <1>2, <2>1, <2>2, Zenon DEF KeyInv
<1>5. QED BY <1>3, <1>4

\* A restart: the calls that ran are of an earlier life of the process, the
\* others are gone.
LEMMA RestartInv ==
  ASSUME TypeInv, \A r \in Requests : CallInv(r), KeyInv, Restart
  PROVE  KeyInv' /\ \A r \in Requests : CallInv(r)'
<1>1. /\ UNCHANGED <<wired, env, manifest, decision, auditLog, calls, start>>
      /\ boot' = boot + 1
      /\ \A r \in Requests : pc'[r] = IF InFlight(r) THEN "lost" ELSE pc[r]
  BY DEF Restart
<1>2. ASSUME NEW r \in Requests PROVE start[r].boot < boot'
  <2>1. start[r].boot \in 0..MaxRestarts /\ boot \in Nat
    BY TypeInt DEF TypeInv, TypeOK
  <2>2. start[r].boot <= boot
    BY DEF CallInv
  <2>3. QED BY <1>1, <2>1, <2>2, ExchangeAssumption
<1>3. ASSUME NEW r \in Requests PROVE ~InFlight(r)' /\ (Holds(r)' <=> r \in calls)
  BY <1>1, Zenon DEF InFlight, Holds, Granting
<1>4. KeyInv'
  <2>1. \A r \in Requests : start[r].boot # boot'
    <3>1. ASSUME NEW r \in Requests PROVE start[r].boot # boot'
      <4>1. start[r].boot \in 0..MaxRestarts
        BY DEF TypeInv, TypeOK
      <4>2. QED BY <1>2, <4>1, ExchangeAssumption
    <3>2. QED BY <3>1
  <2>2. \A r \in Requests : Holds(r)' => Holds(r)
    BY <1>3, Zenon DEF Holds
  <2>3. \A r \in Requests : ClaimKeys(env[r])' = ClaimKeys(env[r]) /\ start'[r] = start[r]
    BY <1>1, Zenon DEF ClaimKeys
  <2>4. QED BY <1>1, <2>1, <2>2, <2>3 DEF KeyInv
<1>5. ASSUME NEW r \in Requests PROVE CallInv(r)'
  <2>1. env'[r] = env[r] /\ manifest'[r] = manifest[r]
    BY <1>1
  <2>2. /\ needsIdempotency(r)' = needsIdempotency(r)
        /\ Strict(env[r])' = Strict(env[r]) /\ Discovery(env[r])' = Discovery(env[r])
    BY <2>1, SameContract, Zenon
  <2>3. pc'[r] = pc[r] \/ pc'[r] = "lost"
    BY <1>1
  <2>4. (Holds(r)' /\ Strict(env[r])' /\ needsIdempotency(r)' => "replay" \in wired')
    BY <1>1, <1>3, <2>2, ZenonT(60) DEF CallInv, Holds
  <2>5. start'[r].boot <= boot'
    <3>1. start[r].boot \in 0..MaxRestarts /\ boot \in Nat
      BY TypeInt DEF TypeInv, TypeOK
    <3>2. QED BY <1>1, <1>2, <3>1, ExchangeAssumption
  <2>6. ~InFlight(r)'
    BY <1>3
  <2>7. CallInv(r)
    OBVIOUS
  <2>8. CASE pc'[r] = "lost"
    <3>1. r \in calls => auditLog[r] # <<>> /\ auditLog[r][1] = Allow
      BY <2>7, ZenonT(60) DEF CallInv
    <3>2. QED BY <1>1, <2>4, <2>5, <2>6, <2>8, <3>1, ZenonT(60) DEF CallInv
  <2>9. CASE pc'[r] = pc[r]
    BY <1>1, <2>2, <2>4, <2>5, <2>6, <2>7, <2>9, ZenonT(60) DEF CallInv
  <2>10. QED BY <2>3, <2>8, <2>9, Zenon
<1>6. QED BY <1>4, <1>5

\* The invariant is preserved by every step.
LEMMA NextInv ==
  ASSUME IInv, [Next]_vars
  PROVE  IInv'
<1>1. TypeInv'
  BY NextType DEF IInv
<1>2. ASSUME UNCHANGED <<wired, seen, boot, callVars>>
      PROVE  KeyInv' /\ \A q \in Requests : CallInv(q)'
  <2>1. \A q \in Requests : SameCall(q)
    BY <1>2 DEF callVars, SameCall
  <2>2. QED BY <1>2, <2>1, SameCallInv, KeysStay, Zenon DEF IInv, SameCall
<1>3. ASSUME NEW r \in Requests, wired' = wired, boot' = boot, CallInv(r)', KeyInv',
             \A q \in Requests : q # r => SameCall(q)
      PROVE  KeyInv' /\ \A q \in Requests : CallInv(q)'
  BY <1>3, SameCallInv DEF IInv
<1>4. CASE Next
  <2>1. ASSUME NEW r \in Requests, NEW s \in Sessions, NEW e \in Envelopes, Begin(r, s, e),
               wired' = wired, boot' = boot
        PROVE  KeyInv' /\ \A q \in Requests : CallInv(q)'
    <3>1. PlainStep(r)
      BY <2>1 DEF PlainStep
    <3>2. QED BY <1>3, <2>1, <3>1, BeginInv, StepKeepsKeys, OtherCallsStay DEF IInv
  <2>2. ASSUME NEW r \in Requests, wired' = wired, boot' = boot,
               \/ Resolve(r) \/ Approve(r) \/ Check(r) \/ Consult(r)
               \/ Lookup(r) \/ Audit(r) \/ Dispatch(r)
        PROVE  KeyInv' /\ \A q \in Requests : CallInv(q)'
    <3>1. PlainStep(r)
      BY <2>2 DEF PlainStep
    <3>2. CallInv(r)'
      BY <2>2, EarlyStepInv, LateStepInv DEF IInv
    <3>3. QED BY <1>3, <2>2, <3>1, <3>2, StepKeepsKeys, OtherCallsStay DEF IInv
  <2>3. ASSUME NEW r \in Requests, wired' = wired, boot' = boot, Claim(r)
        PROVE  KeyInv' /\ \A q \in Requests : CallInv(q)'
    BY <1>3, <2>3, ClaimInv, ClaimKeepsKeys, OtherCallsStay DEF IInv
  <2>4. ASSUME Restart PROVE KeyInv' /\ \A q \in Requests : CallInv(q)'
    BY <2>4, RestartInv DEF IInv
  <2>5. KeyInv' /\ \A q \in Requests : CallInv(q)'
    <3>1. ASSUME NEW r \in Requests, wired' = wired, boot' = boot,
                 \/ Resolve(r) \/ Approve(r) \/ Check(r) \/ Consult(r) \/ Claim(r)
                 \/ Lookup(r) \/ Audit(r) \/ Dispatch(r)
          PROVE  KeyInv' /\ \A q \in Requests : CallInv(q)'
      BY <2>2, <2>3, <3>1
    <3>2. QED BY <1>2, <1>4, <2>1, <2>4, <3>1, StepCases
  <2>6. QED BY <1>1, <2>5 DEF IInv
<1>5. CASE UNCHANGED vars
  BY <1>1, <1>2, <1>5 DEF IInv, vars
<1>6. QED BY <1>4, <1>5

\* The invariant holds at the start.
LEMMA InitInv ==
  ASSUME Init
  PROVE  IInv
<1>1. TypeInv
  BY InitType, SMTT(30)
<1>2. \A r \in Requests : ~Holds(r) /\ CallInv(r)
  BY DEF Init, Holds, Granting, CallInv, InFlight
<1>3. QED BY <1>1, <1>2 DEF IInv, KeyInv

\* The invariant holds of every behaviour.
LEMMA Invariance == Spec => []IInv
BY InitInv, NextInv, PTL DEF Spec

-----------------------------------------------------------------------------
(* The audit trail *)

\* No facade method runs without an "allow" on record before it, and what the
\* peer is told is the last thing on record about its call.
THEOREM AuditTrailHolds == Spec => []AuditTrailTellsTheTruth
<1>1. IInv => AuditTrailTellsTheTruth
  BY DEF IInv, CallInv, AuditTrailTellsTheTruth
<1>2. QED BY <1>1, Invariance, PTL

-----------------------------------------------------------------------------
(* Gates that were passed *)

\* PassedGates for two gates.
LEMMA PassedTwo ==
  ASSUME NEW a \in BOOLEAN, NEW b \in BOOLEAN, NEW S, NEW x \in S, NEW y \in S,
         FirstDenial(<< <<a, x>>, <<b, y>> >>) \notin S
  PROVE  a = FALSE /\ b = FALSE
<1> DEFINE g == << <<a, x>>, <<b, y>> >>
<1>1. DOMAIN g = 1..2 /\ \A i \in 1..2 : g[i][2] \in S
  OBVIOUS
<1>2. g[1][1] = a /\ g[2][1] = b
  OBVIOUS
<1> HIDE DEF g
<1>3. \A i \in 1..2 : ~g[i][1]
  <2>1. FirstDenial(g) \notin S
    BY DEF g
  <2>2. QED BY <1>1, <2>1, PassedGates
<1>4. QED BY <1>2, <1>3

\* PassedGates for the first three of four gates.
LEMMA PassedFour ==
  ASSUME NEW a \in BOOLEAN, NEW b \in BOOLEAN, NEW c \in BOOLEAN, NEW d, NEW S,
         NEW x \in S, NEW y \in S, NEW z \in S, NEW w \in S,
         FirstDenial(<< <<a, x>>, <<b, y>>, <<c, z>>, <<d, w>> >>) \notin S
  PROVE  a = FALSE /\ b = FALSE /\ c = FALSE
<1> DEFINE g == << <<a, x>>, <<b, y>>, <<c, z>>, <<d, w>> >>
<1>1. DOMAIN g = 1..4 /\ \A i \in 1..4 : g[i][2] \in S
  OBVIOUS
<1>2. g[1][1] = a /\ g[2][1] = b /\ g[3][1] = c
  OBVIOUS
<1> HIDE DEF g
<1>3. \A i \in 1..4 : ~g[i][1]
  <2>1. FirstDenial(g) \notin S
    BY DEF g
  <2>2. QED BY <1>1, <2>1, PassedGates
<1>4. QED BY <1>2, <1>3

\* A call that is not sent to the audit was not denied.
LEMMA NotDenied ==
  ASSUME TypeInv, NEW r \in Requests, NEW code, NEW p, DenyOr(r, code, p), pc'[r] # "audit"
  PROVE  code = "" /\ pc'[r] = p
BY GotoMoves, Zenon DEF DenyOr

\* An envelope that passes the checks is not late, has the idempotency key its
\* action asks for, and no payload if it asks for discovery.
LEMMA PassedEnvelope ==
  ASSUME NEW r \in Requests, EnvelopeDenial(r) = ""
  PROVE  /\ ~(env[r].expires <= 0) /\ ~pastExpiry(env[r].expires)
         /\ Strict(env[r]) /\ needsIdempotency(r) => env[r].idem # ""
         /\ Discovery(env[r]) => env[r].payload.size = 0
<1> DEFINE S == {"expired", "payload_invalid", "replay_detected"}
           e == env[r]
           late == \/ e.expires <= 0
                   \/ pastExpiry(e.expires)
                   \/ \E m \in manifest[r] : m.expires > 0 /\ pastExpiry(m.expires)
           filled == Discovery(e) /\ e.payload.size # 0
           keyless == Strict(e) /\ needsIdempotency(r) /\ e.idem = ""
           bad == Strict(e) /\ ~validatePayload(e, Action(r))
           verdict == FirstDenial(<< <<late, "expired">>, <<filled, "payload_invalid">>,
                                     <<keyless, "replay_detected">>, <<bad, "payload_invalid">> >>)
<1>1. EnvelopeDenial(r) = verdict
  BY Zenon DEF EnvelopeDenial
<1>2. late \in BOOLEAN /\ filled \in BOOLEAN /\ keyless \in BOOLEAN
  BY Zenon
<1>3. "expired" \in S /\ "payload_invalid" \in S /\ "replay_detected" \in S /\ "" \notin S
  BY Zenon
<1> HIDE DEF late, filled, keyless, bad, S
<1>4. verdict \notin S
  BY <1>1, <1>3, Zenon
<1>5. late = FALSE /\ filled = FALSE /\ keyless = FALSE
  BY <1>2, <1>3, <1>4, PassedFour, ZenonT(30)
<1>6. QED BY <1>5, Zenon DEF late, filled, keyless

=============================================================================
