----------------------------- MODULE DispatchOnce -----------------------------
(***************************************************************************)
(* What the exchange promises about effects, and nothing else: a call must *)
(* be granted keys that nobody was granted before it, in this life of the  *)
(* process, to run; it runs at most once; and it may end at any time.      *)
(* GatewayExchange implements this (OnceRefinement, GatewayExchangeOnce).  *)
(***************************************************************************)
EXTENDS Naturals

CONSTANTS
  Calls,       \* calls of the handler
  Keys,        \* replay keys
  MaxEpochs    \* bound on restarts

VARIABLES
  phase,       \* "idle", "open", "granted" or "done"
  epoch,       \* restarts so far
  born,        \* epoch each call was opened in
  taken,       \* keys granted in this epoch
  held,        \* keys each granted or run call was granted
  ran          \* calls that ran

onceVars == <<phase, epoch, born, taken, held, ran>>

OnceInit ==
  /\ phase = [c \in Calls |-> "idle"]
  /\ epoch = 0
  /\ born = [c \in Calls |-> 0]
  /\ taken = {}
  /\ held = [c \in Calls |-> {}]
  /\ ran = {}

\* A call is opened; one that is turned away at once is done.
OnceOpen(c) ==
  /\ phase[c] = "idle"
  /\ \E p \in {"open", "done"} : phase' = [phase EXCEPT ![c] = p]
  /\ born' = [born EXCEPT ![c] = epoch]
  /\ UNCHANGED <<epoch, taken, held, ran>>

\* A call is granted keys, or no key at all when nothing guards it.
OnceGrant(c) ==
  /\ phase[c] = "open"
  /\ \E K \in SUBSET (Keys \ taken) :
       /\ taken' = taken \cup K
       /\ held' = [held EXCEPT ![c] = K]
  /\ phase' = [phase EXCEPT ![c] = "granted"]
  /\ UNCHANGED <<epoch, born, ran>>

OnceRun(c) ==
  /\ phase[c] = "granted"
  /\ phase' = [phase EXCEPT ![c] = "done"]
  /\ ran' = ran \cup {c}
  /\ UNCHANGED <<epoch, born, taken, held>>

\* A call ends without running.  Its keys stay taken.
OnceEnd(c) ==
  /\ phase[c] \in {"open", "granted"}
  /\ phase' = [phase EXCEPT ![c] = "done"]
  /\ held' = [held EXCEPT ![c] = {}]
  /\ UNCHANGED <<epoch, born, taken, ran>>

\* The process restarts: open and granted calls are gone, and so are the keys.
OnceRestart ==
  /\ epoch < MaxEpochs
  /\ epoch' = epoch + 1
  /\ phase' = [c \in Calls |-> IF phase[c] \in {"open", "granted"} THEN "done" ELSE phase[c]]
  /\ held' = [c \in Calls |-> IF c \in ran THEN held[c] ELSE {}]
  /\ taken' = {}
  /\ UNCHANGED <<born, ran>>

OnceNext ==
  \/ \E c \in Calls : OnceOpen(c) \/ OnceGrant(c) \/ OnceRun(c) \/ OnceEnd(c)
  \/ OnceRestart

OnceSpec == OnceInit /\ [][OnceNext]_onceVars

\* Two calls of one epoch that both ran were granted disjoint keys.
RunOnce ==
  \A c, d \in ran : c # d /\ born[c] = born[d] => held[c] \cap held[d] = {}

=============================================================================
