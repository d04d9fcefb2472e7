---------------------------- MODULE Orchestrator ----------------------------
(***************************************************************************)
(* What the sequence orchestrator of Bind promises (spec 4.3), for         *)
(* concurrent Send calls, with the rate limiter and the bytes left out.    *)
(* A call starts Idle (detecting).  A batch that holds a handshake         *)
(* initiation may start the synchronous PreHandshake phase; any batch may *)
(* instead go straight to InitiationForward (no initiation, or throttled). *)
(* PreHandshake attempts at most SigCap signature packets (I1..I5) and at  *)
(* most JunkCap junk packets, then returns control: with an Amnezia        *)
(* configuration it launches the PostHandshake task, once, as it returns.  *)
(* InitiationForward hands the batch to the transport and the call is     *)
(* done.  The PostHandshake task sends junk until it ends, independently   *)
(* of the call.  PreflightBind implements this specification (see          *)
(* PreflightBindOrchestratorProofs).                                       *)
(***************************************************************************)
EXTENDS Naturals

CONSTANTS
  Callers,     \* concurrent Send calls
  Batches,     \* the batches a call may carry
  Triggers,    \* the batches that hold a handshake initiation
  HasConfig,   \* an Amnezia configuration is set
  SigCap,      \* signature packets of one PreHandshake phase (I1..I5)
  JunkCap      \* the bounded cap of before-handshake junk (step 3)

VARIABLES
  batch,       \* the batch of each call
  phase,       \* "idle", "pre", "forward" or "done"
  post,        \* the PostHandshake task: "none", "run" or "done"
  preSigs,     \* signature packets attempted in PreHandshake
  preJunk,     \* junk packets attempted in PreHandshake
  postJunk,    \* junk packets attempted by the PostHandshake task
  real         \* the batch was handed to the transport

vars == <<batch, phase, post, preSigs, preJunk, postJunk, real>>

Init ==
  /\ batch \in [Callers -> Batches]
  /\ phase = [c \in Callers |-> "idle"]
  /\ post = [c \in Callers |-> "none"]
  /\ preSigs = [c \in Callers |-> 0]
  /\ preJunk = [c \in Callers |-> 0]
  /\ postJunk = [c \in Callers |-> 0]
  /\ real = [c \in Callers |-> FALSE]

Move(c, from, to) ==
  /\ phase[c] = from
  /\ phase' = [phase EXCEPT ![c] = to]

\* No initiation in the batch, or the rate limiter refused: forward directly.
Pass(c) ==
  /\ Move(c, "idle", "forward")
  /\ UNCHANGED <<batch, post, preSigs, preJunk, postJunk, real>>

\* Detecting -> PreHandshake, only for a batch holding an initiation.
Trigger(c) ==
  /\ batch[c] \in Triggers
  /\ Move(c, "idle", "pre")
  /\ UNCHANGED <<batch, post, preSigs, preJunk, postJunk, real>>

\* Steps 1-2: one signature packet attempted.
PreSig(c) ==
  /\ phase[c] = "pre"
  /\ preSigs[c] < SigCap
  /\ preSigs' = [preSigs EXCEPT ![c] = @ + 1]
  /\ UNCHANGED <<batch, phase, post, preJunk, postJunk, real>>

\* Step 3: one junk packet attempted, within the cap.
PreJunk(c) ==
  /\ phase[c] = "pre"
  /\ preJunk[c] < JunkCap
  /\ preJunk' = [preJunk EXCEPT ![c] = @ + 1]
  /\ UNCHANGED <<batch, phase, post, preSigs, postJunk, real>>

\* Step 4 with an Amnezia configuration: return and launch PostHandshake.
Launch(c) ==
  /\ HasConfig
  /\ post[c] = "none"
  /\ Move(c, "pre", "forward")
  /\ post' = [post EXCEPT ![c] = "run"]
  /\ UNCHANGED <<batch, preSigs, preJunk, postJunk, real>>

\* Step 4 without one: return, nothing is launched.
Return(c) ==
  /\ ~HasConfig
  /\ Move(c, "pre", "forward")
  /\ UNCHANGED <<batch, post, preSigs, preJunk, postJunk, real>>

\* InitiationForward: the batch goes to the transport.
Deliver(c) ==
  /\ Move(c, "forward", "done")
  /\ real' = [real EXCEPT ![c] = TRUE]
  /\ UNCHANGED <<batch, post, preSigs, preJunk, postJunk>>

\* Steps 5-8: the PostHandshake task attempts one junk packet.
PostJunk(c) ==
  /\ post[c] = "run"
  /\ postJunk' = [postJunk EXCEPT ![c] = @ + 1]
  /\ UNCHANGED <<batch, phase, post, preSigs, preJunk, real>>

\* The PostHandshake task ends.
PostEnd(c) ==
  /\ post[c] = "run"
  /\ post' = [post EXCEPT ![c] = "done"]
  /\ UNCHANGED <<batch, phase, preSigs, preJunk, postJunk, real>>

Next ==
  \E c \in Callers :
    \/ Pass(c) \/ Trigger(c) \/ PreSig(c) \/ PreJunk(c) \/ Launch(c)
    \/ Return(c) \/ Deliver(c) \/ PostJunk(c) \/ PostEnd(c)

Spec == Init /\ [][Next]_vars

=============================================================================
