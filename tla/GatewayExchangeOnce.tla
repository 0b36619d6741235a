------------------------- MODULE GatewayExchangeOnce -------------------------
(***************************************************************************)
(* The refinement mapping from GatewayExchange to DispatchOnce.            *)
(***************************************************************************)
EXTENDS GatewayExchange

\* The promise of DispatchOnce, read off the handler: a call is open until it
\* claims, granted until it dispatches or gives up, done from then on.
AbstractPhase(r) ==
  CASE pc[r] = "new" -> "idle"
    [] pc[r] \in {"resolve", "approve", "check", "consult", "claim"} -> "open"
    [] pc[r] \in {"lookup", "dispatch"} -> "granted"
    [] pc[r] = "audit" /\ decision[r] = Allow /\ ~Discovery(env[r]) -> "granted"
    [] OTHER -> "done"

AbstractHeld(r) ==
  IF "replay" \in wired /\ (AbstractPhase(r) = "granted" \/ r \in calls)
    THEN ClaimKeys(env[r]) ELSE {}

Once == INSTANCE DispatchOnce WITH
  Calls <- Requests,
  Keys <- UNION { ClaimKeys(e) : e \in Envelopes },
  MaxEpochs <- MaxRestarts,
  phase <- [r \in Requests |-> AbstractPhase(r)],
  epoch <- boot,
  born <- [r \in Requests |-> start[r].boot],
  taken <- seen,
  held <- [r \in Requests |-> AbstractHeld(r)],
  ran <- calls

\* Handle implements DispatchOnce: every step of a call, of the control plane
\* or of the process is a step of that specification or changes nothing in it.
OnceRefinement == Once!OnceSpec

=============================================================================
