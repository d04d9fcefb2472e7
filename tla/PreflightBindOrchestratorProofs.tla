------------------- MODULE PreflightBindOrchestratorProofs -------------------
(***************************************************************************)
(* Proof that concurrent Send calls implement the orchestrator of spec     *)
(* 4.3 (OrchestratorRefined), for every value of the constants.  It rests  *)
(* on IInv of PreflightBindProofs and on OrchInv, shown inductive here.    *)
(***************************************************************************)
EXTENDS PreflightBindSendProofs

\* OrchInv for one call.
OrchAt(e) ==
  /\ pc[e] = "lock" => SeenInit(batch[e])
  /\ pc[e] = "simple" => ~HasConfig
  /\ pc[e] \in {"i1", "sig", "prejunk", "spawn"} => HasConfig
  /\ pc[e] \notin {"forward", "done"} => postPc[e] = "none"
  /\ postPc[e] = "none" => postIdx[e] = 1
  /\ pc[e] \in {"idle", "lock", "simple", "i1"} => sent[e].sigs = 0
  /\ pc[e] = "sig" => sent[e].sigs <= sigIdx[e] - 1
  /\ sent[e].sigs <= 5
  /\ PreJunkTried(e) >= 0
  /\ PreJunkTried(e) + preLeft[e] <= PreCap
  /\ pc[e] # "prejunk" => preLeft[e] = 0
  /\ pc[e] \in {"idle", "lock", "simple", "i1", "sig"} => PreJunkTried(e) = 0

\* The values one call's part of OrchInv depends on.
CallView(e) == <<pc[e], sent[e], postPc[e], postIdx[e], sigIdx[e], preLeft[e]>>

\* A step that leaves a call's view and the batches alone keeps its OrchAt.
LEMMA OrchFrame ==
  ASSUME NEW e, OrchAt(e), CallView(e)' = CallView(e), batch' = batch
  PROVE  OrchAt(e)'
BY DEF OrchAt, CallView, PreJunkTried

THEOREM InitOrchInv == Init => OrchInv
BY DEF Init, OrchInv, PreJunkTried, PreCap


\* The step leaves every call but c, and the batches, alone.
OthersAlone(c) ==
  /\ \A x \in Callers \ {c} : CallView(x)' = CallView(x)
  /\ batch' = batch

\* A step of call c keeps OrchInv when it keeps OrchAt(c).
LEMMA OrchCombine ==
  ASSUME OrchInv, NEW c \in Callers, OthersAlone(c), OrchAt(c)'
  PROVE  OrchInv'
<1>1. SUFFICES ASSUME NEW e \in Callers PROVE OrchAt(e)'
  BY DEF OrchInv, OrchAt
<1>2. CASE e = c
  BY <1>2
<1>3. CASE e # c
  <2>1. OrchAt(e)
    BY DEF OrchInv, OrchAt
  <2>2. CallView(e)' = CallView(e) /\ batch' = batch
    BY <1>3 DEF OthersAlone
  <2>3. QED
    BY <2>1, <2>2, OrchFrame
<1>4. QED
  BY <1>2, <1>3

(***************************************************************************)
(* Each step keeps OrchInv.  The admission follows the detected            *)
(* initiation and picks the path HasConfig selects; the I1 write and each  *)
(* loop iteration add at most one signature attempt per index; the I5     *)
(* step starts the train with at most PreCap packets; each packet moves    *)
(* one unit from preLeft to the attempts; the goroutine starts as the call *)
(* leaves the synchronous part, and its packets are counted by postIdx.    *)
(***************************************************************************)
LEMMA OrchInvStep ==
  TypeOK /\ ControlInv /\ OrchInv /\ [Next]_vars => OrchInv'
<1> SUFFICES ASSUME TypeOK, ControlInv, OrchInv, [Next]_vars PROVE OrchInv'
  OBVIOUS
<1>0. /\ OutTypeOK
      /\ pc \in [Callers -> PcValues]
      /\ sigIdx \in [Callers -> 2 .. 6]
      /\ preLeft \in [Callers -> 0 .. PreCap]
      /\ postPc \in [Callers -> {"none", "run", "done"}]
      /\ postIdx \in [Callers -> 1 .. Len(PostPlan) + 1]
      /\ Len(PostPlan) \in Nat
      /\ sent \in [Callers -> Stats]
  BY PostPlanType DEF TypeOK, CallTypeOK, PostTypeOK, OutTypeOK
<1>1. ASSUME NEW c \in Callers, DetectInit(c) \/ DetectNone(c) \/ Throttle(c)
      PROVE  OrchInv'
  <2>1. OrchAt(c)
    BY DEF OrchInv, OrchAt
  <2>2. /\ pc[c] \in {"idle", "lock"}
        /\ \/ pc' = [pc EXCEPT ![c] = "lock"] /\ SeenInit(batch[c])
           \/ pc' = [pc EXCEPT ![c] = "forward"]
        /\ UNCHANGED <<sent, postPc, postIdx, sigIdx, preLeft, batch>>
    BY <1>1 DEF DetectInit, DetectNone, Throttle, Goto, postVars, outVars,
       envVars
  <2>3. OthersAlone(c)
    BY <1>0, <2>2 DEF OthersAlone, CallView
  <2>4. OrchAt(c)'
    BY <1>0, <2>1, <2>2 DEF OrchAt, PreJunkTried
  <2>5. QED
    BY <2>3, <2>4, OrchCombine
<1>2. ASSUME NEW c \in Callers, Admit(c) PROVE OrchInv'
  <2>1. OrchAt(c)
    BY DEF OrchInv, OrchAt
  <2>2. /\ pc[c] = "lock"
        /\ pc' = [pc EXCEPT ![c] = IF HasConfig THEN "i1" ELSE "simple"]
        /\ UNCHANGED <<sent, postPc, postIdx, sigIdx, preLeft, batch>>
    BY <1>2 DEF Admit, postVars, outVars, envVars
  <2>3. OthersAlone(c)
    BY <1>0, <2>2 DEF OthersAlone, CallView
  <2>4. OrchAt(c)'
    BY <1>0, <2>1, <2>2 DEF OrchAt, PreJunkTried
  <2>5. QED
    BY <2>3, <2>4, OrchCombine
<1>3. ASSUME NEW c \in Callers, SimplePreflight(c) \/ Forward(c)
      PROVE  OrchInv'
  <2>1. OrchAt(c)
    BY DEF OrchInv, OrchAt
  <2>2. /\ \/ pc[c] = "simple" /\ pc' = [pc EXCEPT ![c] = "forward"]
           \/ pc[c] = "forward" /\ pc' = [pc EXCEPT ![c] = "done"]
        /\ UNCHANGED <<postPc, postIdx, sigIdx, preLeft, batch>>
    BY <1>3 DEF SimplePreflight, Forward, Goto, postVars, envVars
  <2>3. /\ \A x \in Callers \ {c} : sent'[x] = sent[x]
        /\ sent'[c].sigs = sent[c].sigs /\ sent'[c].junk = sent[c].junk
    <3>1. CASE SimplePreflight(c)
      BY <3>1 DEF SimplePreflight, outVars
    <3>2. CASE Forward(c)
      BY <1>0, <3>2, ForwardSent
    <3>3. QED
      BY <1>3, <3>1, <3>2
  <2>4. OthersAlone(c)
    BY <1>0, <2>2, <2>3 DEF OthersAlone, CallView
  <2>5. OrchAt(c)'
    BY <1>0, <2>1, <2>2, <2>3 DEF OrchAt, PreJunkTried
  <2>6. QED
    BY <2>4, <2>5, OrchCombine
<1>4. ASSUME NEW c \in Callers, SendI1(c) PROVE OrchInv'
  <2>1. OrchAt(c) /\ sigIdx[c] = 2
    BY <1>4 DEF OrchInv, OrchAt, ControlInv, SendI1, Goto
  <2>2. /\ pc[c] = "i1" /\ pc' = [pc EXCEPT ![c] = "sig"]
        /\ UNCHANGED <<postPc, postIdx, sigIdx, preLeft, batch>>
    BY <1>4 DEF SendI1, Goto, postVars, envVars
  <2>3. /\ \A x \in Callers \ {c} : sent'[x] = sent[x]
        /\ sent'[c].sigs <= sent[c].sigs + 1 /\ sent'[c].junk = sent[c].junk
    <3>0. sent[c].sigs \in Nat
      BY <1>0 DEF Stats
    <3>1. CASE PayloadSet
      <4>1. WriteSig(c, 1, 0)
        BY <1>4, <3>1 DEF SendI1
      <4>2. QED
        BY <1>0, <3>0, <4>1, WriteSigSent
    <3>2. CASE ~PayloadSet
      BY <1>0, <1>4, <3>0, <3>2 DEF SendI1
    <3>3. QED
      BY <3>1, <3>2
  <2>4. sent[c].sigs \in Nat /\ sent'[c].sigs \in Nat
    <3>1. sent[c].sigs \in Nat
      BY <1>0 DEF Stats
    <3>2. QED
      BY <1>0, <1>4, <3>1, WriteSigSent DEF SendI1
  <2>5. OthersAlone(c)
    BY <1>0, <2>2, <2>3 DEF OthersAlone, CallView
  <2>6. OrchAt(c)'
    BY <1>0, <2>1, <2>2, <2>3, <2>4 DEF OrchAt, PreJunkTried
  <2>7. QED
    BY <2>5, <2>6, OrchCombine

<1>5. ASSUME NEW c \in Callers, SendSignature(c) PROVE OrchInv'
  <2> DEFINE i == sigIdx[c]
  <2>1. OrchAt(c) /\ pc[c] = "sig" /\ i \in 2 .. 5
    BY <1>5 DEF OrchInv, OrchAt, ControlInv, SendSignature
  <2>2. /\ \A x \in Callers \ {c} : sent'[x] = sent[x]
        /\ sent'[c].sigs <= sent[c].sigs + 1 /\ sent'[c].junk = sent[c].junk
        /\ sent[c].sigs \in Nat /\ sent'[c].sigs \in Nat
    <3>1. sent[c].sigs \in Nat
      BY <1>0 DEF Stats
    <3>2. CASE Sig[i] = "random"
      BY <1>0, <1>5, <3>1, <3>2, WriteSigSent DEF SendSignature
    <3>3. CASE Sig[i] = "static"
      BY <1>0, <1>5, <3>1, <3>3, WriteSigSent DEF SendSignature
    <3>4. CASE Sig[i] # "random" /\ Sig[i] # "static"
      BY <1>5, <3>1, <3>4 DEF SendSignature, outVars
    <3>5. QED
      BY <3>2, <3>3, <3>4
  <2>3. /\ sigIdx' = [sigIdx EXCEPT ![c] = i + 1]
        /\ UNCHANGED <<postPc, postIdx, batch>>
    BY <1>5 DEF SendSignature, postVars, envVars
  <2>4. \/ /\ i < 5 /\ UNCHANGED <<pc, preLeft>>
        \/ /\ i = 5 /\ JcBeforeHS > 0
           /\ pc' = [pc EXCEPT ![c] = "prejunk"]
           /\ preLeft' = [preLeft EXCEPT ![c] = PreJunkCount]
        \/ /\ i = 5
           /\ pc' = [pc EXCEPT ![c] = "spawn"] /\ UNCHANGED preLeft
    BY <1>5, <2>1 DEF SendSignature
  <2>5. JcBeforeHS > 0 => PreJunkCount \in 1 .. PreCap
    BY ConstantsAssumption DEF PreJunkCount, PreCap
  <2>6. OthersAlone(c)
    BY <1>0, <2>2, <2>3, <2>4 DEF OthersAlone, CallView
  <2>7. OrchAt(c)'
    BY <1>0, <2>1, <2>2, <2>3, <2>4, <2>5 DEF OrchAt, PreJunkTried, PreCap
  <2>8. QED
    BY <2>6, <2>7, OrchCombine
<1>6. ASSUME NEW c \in Callers, SendPreJunk(c) PROVE OrchInv'
  <2>1. OrchAt(c)
    BY DEF OrchInv, OrchAt
  <2>2. /\ pc[c] = "prejunk" /\ preLeft[c] > 0
        /\ preLeft' = [preLeft EXCEPT ![c] = @ - 1]
        /\ pc' = [pc EXCEPT ![c] = IF preLeft[c] = 1 THEN "spawn" ELSE "prejunk"]
        /\ UNCHANGED <<postPc, postIdx, sigIdx, batch>>
    BY <1>6 DEF SendPreJunk, postVars, envVars
  <2>3. /\ \A x \in Callers \ {c} : sent'[x] = sent[x]
        /\ sent'[c].sigs = sent[c].sigs /\ sent'[c].junk = sent[c].junk + 1
    BY <1>0, <1>6, SendJunkSent DEF SendPreJunk
  <2>4. sent[c].junk \in Nat /\ sent[c].sigs \in Nat
    BY <1>0 DEF Stats
  <2>5. OthersAlone(c)
    BY <1>0, <2>2, <2>3 DEF OthersAlone, CallView
  <2>6. OrchAt(c)'
    BY <1>0, <2>1, <2>2, <2>3, <2>4 DEF OrchAt, PreJunkTried
  <2>7. QED
    BY <2>5, <2>6, OrchCombine
<1>7. ASSUME NEW c \in Callers, SpawnPost(c) PROVE OrchInv'
  <2>1. OrchAt(c)
    BY DEF OrchInv, OrchAt
  <2>2. /\ pc[c] = "spawn" /\ pc' = [pc EXCEPT ![c] = "forward"]
        /\ postPc' = [postPc EXCEPT ![c] = "run"]
        /\ UNCHANGED <<sent, postIdx, sigIdx, preLeft, batch>>
    BY <1>7 DEF SpawnPost, Goto, outVars, envVars
  <2>3. OthersAlone(c)
    BY <1>0, <2>2 DEF OthersAlone, CallView
  <2>4. OrchAt(c)'
    BY <1>0, <2>1, <2>2 DEF OrchAt, PreJunkTried
  <2>5. QED
    BY <2>3, <2>4, OrchCombine
<1>8. ASSUME NEW c \in Callers, PostSend(c) PROVE OrchInv'
  <2>1. OrchAt(c)
    BY DEF OrchInv, OrchAt
  <2>2. /\ postPc[c] = "run"
        /\ postIdx' = [postIdx EXCEPT ![c] = @ + 1]
        /\ UNCHANGED <<pc, postPc, sigIdx, preLeft, batch>>
    BY <1>8 DEF PostSend, callVars, envVars
  <2>3. /\ \A x \in Callers \ {c} : sent'[x] = sent[x]
        /\ sent'[c].sigs = sent[c].sigs /\ sent'[c].junk = sent[c].junk + 1
    BY <1>0, <1>8, SendJunkSent DEF PostSend
  <2>4. sent[c].junk \in Nat /\ sent[c].sigs \in Nat
    BY <1>0 DEF Stats
  <2>5. OthersAlone(c)
    BY <1>0, <2>2, <2>3 DEF OthersAlone, CallView
  <2>6. /\ postIdx'[c] = postIdx[c] + 1 /\ postIdx[c] \in Nat
        /\ PreJunkTried(c)' = PreJunkTried(c)
    BY <1>0, <2>2, <2>3, <2>4 DEF PreJunkTried
  <2>7. OrchAt(c)'
    BY <1>0, <2>1, <2>2, <2>3, <2>6 DEF OrchAt
  <2>8. QED
    BY <2>5, <2>7, OrchCombine
<1>9. ASSUME NEW c \in Callers, PostExit(c) PROVE OrchInv'
  <2>1. OrchAt(c)
    BY DEF OrchInv, OrchAt
  <2>2. /\ postPc[c] = "run" /\ postPc' = [postPc EXCEPT ![c] = "done"]
        /\ UNCHANGED <<pc, sent, postIdx, sigIdx, preLeft, batch>>
    BY <1>9 DEF PostExit, callVars, outVars, envVars
  <2>3. OthersAlone(c)
    BY <1>0, <2>2 DEF OthersAlone, CallView
  <2>4. OrchAt(c)'
    BY <1>0, <2>1, <2>2 DEF OrchAt, PreJunkTried
  <2>5. QED
    BY <2>3, <2>4, OrchCombine
<1>10. CASE Tick \/ Terminated \/ UNCHANGED vars
  BY <1>10 DEF Tick, Terminated, vars, callVars, postVars, outVars, envVars,
     OrchInv, PreJunkTried
<1>11. QED
  BY <1>1, <1>2, <1>3, <1>4, <1>5, <1>6, <1>7, <1>8, <1>9, <1>10
  DEF Next, Caller, Post


-----------------------------------------------------------------------------
(***************************************************************************)
(* How the orchestrator's view changes when one call moves: its phase is   *)
(* the phase of its new control state, and its counters are read from its *)
(* own history; the other calls' entries stay.                            *)
(***************************************************************************)
LEMMA PhaseExcept ==
  ASSUME NEW c \in Callers, NEW v, pc \in [Callers -> PcValues],
         pc' = [pc EXCEPT ![c] = v]
  PROVE  OrchPhase' = [OrchPhase EXCEPT ![c] = PhaseOf(v)]
BY DEF OrchPhase

\* A move inside one phase is invisible to the orchestrator.
LEMMA PhaseSame ==
  ASSUME NEW c \in Callers, NEW v, pc \in [Callers -> PcValues],
         pc' = [pc EXCEPT ![c] = v], PhaseOf(v) = PhaseOf(pc[c])
  PROVE  OrchPhase' = OrchPhase
BY DEF OrchPhase

LEMMA CountsExcept ==
  ASSUME NEW c \in Callers,
         \A x \in Callers \ {c} : sent'[x] = sent[x] /\ postIdx'[x] = postIdx[x]
  PROVE  /\ OrchPreSigs' = [OrchPreSigs EXCEPT ![c] = sent'[c].sigs]
         /\ OrchPreJunk' = [OrchPreJunk EXCEPT ![c] = PreJunkTried(c)']
         /\ OrchPostJunk' = [OrchPostJunk EXCEPT ![c] = postIdx'[c] - 1]
         /\ OrchReal' = [OrchReal EXCEPT ![c] = sent'[c].real]
BY DEF OrchPreSigs, OrchPreJunk, OrchPostJunk, OrchReal, PreJunkTried

\* A step that leaves the histories and the goroutines' progress alone.
LEMMA CountsSame ==
  ASSUME UNCHANGED <<sent, postIdx>>
  PROVE  UNCHANGED <<OrchPreSigs, OrchPreJunk, OrchPostJunk, OrchReal>>
BY DEF OrchPreSigs, OrchPreJunk, OrchPostJunk, OrchReal, PreJunkTried



(***************************************************************************)
(* The three ways a write of call c shows in the orchestrator's view: one  *)
(* more signature attempt, one more synchronous junk attempt, or one more *)
(* junk attempt of its goroutine.                                          *)
(***************************************************************************)
CountStep(c) ==
  /\ sent[c] \in Stats
  /\ \A x \in Callers \ {c} : sent'[x] = sent[x] /\ postIdx'[x] = postIdx[x]
  /\ sent'[c].real = sent[c].real
  /\ postIdx[c] \in Int
  /\ UNCHANGED <<postPc, batch, OrchPhase>>

LEMMA SigCounted ==
  ASSUME NEW c \in Callers, CountStep(c), OrchPhase[c] = "pre",
         sent[c].sigs < 5,
         sent'[c].sigs = sent[c].sigs + 1, sent'[c].junk = sent[c].junk,
         postIdx'[c] = postIdx[c]
  PROVE  Orch!PreSig(c)
<1>1. /\ OrchPreSigs' = [OrchPreSigs EXCEPT ![c] = @ + 1]
      /\ UNCHANGED <<OrchPreJunk, OrchPostJunk, OrchReal>>
  <2>1. PreJunkTried(c)' = PreJunkTried(c)
    BY DEF PreJunkTried
  <2>2. QED
    BY <2>1, CountsExcept DEF CountStep, OrchPreSigs, OrchPreJunk,
       OrchPostJunk, OrchReal
<1>2. QED
  BY <1>1 DEF CountStep, Orch!PreSig, OrchPreSigs

LEMMA JunkCounted ==
  ASSUME NEW c \in Callers, CountStep(c), OrchPhase[c] = "pre",
         PreJunkTried(c) < PreCap,
         sent'[c].sigs = sent[c].sigs, sent'[c].junk = sent[c].junk + 1,
         postIdx'[c] = postIdx[c]
  PROVE  Orch!PreJunk(c)
<1>1. /\ OrchPreJunk' = [OrchPreJunk EXCEPT ![c] = @ + 1]
      /\ UNCHANGED <<OrchPreSigs, OrchPostJunk, OrchReal>>
  <2>1. sent[c].junk \in Nat
    BY DEF CountStep, Stats
  <2>2. PreJunkTried(c)' = PreJunkTried(c) + 1
    BY <2>1 DEF PreJunkTried, CountStep
  <2>3. QED
    BY <2>2, CountsExcept DEF CountStep, OrchPreSigs, OrchPreJunk,
       OrchPostJunk, OrchReal
<1>2. QED
  BY <1>1 DEF CountStep, Orch!PreJunk, OrchPreJunk

LEMMA PostCounted ==
  ASSUME NEW c \in Callers, CountStep(c), postPc[c] = "run",
         sent'[c].sigs = sent[c].sigs, sent'[c].junk = sent[c].junk + 1,
         postIdx'[c] = postIdx[c] + 1
  PROVE  Orch!PostJunk(c)
<1>1. /\ OrchPostJunk' = [OrchPostJunk EXCEPT ![c] = @ + 1]
      /\ UNCHANGED <<OrchPreSigs, OrchPreJunk, OrchReal>>
  <2>1. sent[c].junk \in Nat
    BY DEF CountStep, Stats
  <2>2. PreJunkTried(c)' = PreJunkTried(c)
    BY <2>1 DEF PreJunkTried, CountStep
  <2>3. /\ OrchPreSigs' = [OrchPreSigs EXCEPT ![c] = sent'[c].sigs]
        /\ OrchPreJunk' = [OrchPreJunk EXCEPT ![c] = PreJunkTried(c)']
        /\ OrchPostJunk' = [OrchPostJunk EXCEPT ![c] = postIdx'[c] - 1]
        /\ OrchReal' = [OrchReal EXCEPT ![c] = sent'[c].real]
    BY CountsExcept DEF CountStep
  <2>4. /\ OrchPreSigs[c] = sent[c].sigs /\ OrchPreJunk[c] = PreJunkTried(c)
        /\ OrchPostJunk[c] = postIdx[c] - 1 /\ OrchReal[c] = sent[c].real
    BY DEF OrchPreSigs, OrchPreJunk, OrchPostJunk, OrchReal
  <2>5. postIdx'[c] - 1 = OrchPostJunk[c] + 1
    BY <2>4 DEF CountStep
  <2>6. OrchPreSigs' = OrchPreSigs
    BY DEF OrchPreSigs, CountStep
  <2>7. OrchPreJunk' = OrchPreJunk
    <3>1. \A x \in Callers : PreJunkTried(x)' = PreJunkTried(x)
      BY <2>2 DEF PreJunkTried, CountStep
    <3>2. QED
      BY <3>1 DEF OrchPreJunk
  <2>8. OrchReal' = OrchReal
    BY DEF OrchReal, CountStep
  <2>9. OrchPostJunk' = [OrchPostJunk EXCEPT ![c] = @ + 1]
    BY <2>3, <2>5
  <2>10. QED
    BY <2>6, <2>7, <2>8, <2>9
<1>2. QED
  BY <1>1 DEF CountStep, Orch!PostJunk

(***************************************************************************)
(* Each step of the Send path is a step of the orchestrator or leaves its  *)
(* view alone.  Detection, the loop iterations that write nothing, Tick    *)
(* and the end of the behaviour are stutters; DetectNone and Throttle are  *)
(* Pass; Admit is Trigger (OrchInv: a waiting call saw an initiation); the *)
(* I1 and I2..I5 writes are PreSig (OrchInv: at most one per index);      *)
(* sendJunkPackets' packets are PreJunk (OrchInv: within PreCap); the "go" *)
(* is Launch and executeSimplePreflight's return is Return (OrchInv: the  *)
(* path matches HasConfig, the goroutine was not started); inner.Send is  *)
(* Deliver; the goroutine's packets and exit are PostJunk and PostEnd.    *)
(***************************************************************************)
LEMMA OrchStep ==
  IInv /\ OrchInv /\ [Next]_vars => [Orch!Next]_Orch!vars
<1> SUFFICES ASSUME IInv, OrchInv, [Next]_vars
             PROVE  [Orch!Next]_Orch!vars
  OBVIOUS
<1>0. /\ OutTypeOK
      /\ pc \in [Callers -> PcValues]
      /\ sigIdx \in [Callers -> 2 .. 6]
      /\ postPc \in [Callers -> {"none", "run", "done"}]
      /\ postIdx \in [Callers -> 1 .. Len(PostPlan) + 1]
      /\ Len(PostPlan) \in Nat
      /\ sent \in [Callers -> Stats]
      /\ batch \in [Callers -> Batches]
      /\ ControlInv
  BY PostPlanType DEF IInv, TypeOK, CallTypeOK, PostTypeOK, OutTypeOK,
     EnvTypeOK
<1>1. ASSUME NEW c \in Callers, DetectInit(c) PROVE UNCHANGED Orch!vars
  <2>1. pc[c] = "idle" /\ pc' = [pc EXCEPT ![c] = "lock"]
    BY <1>1 DEF DetectInit, Goto
  <2>2. OrchPhase' = OrchPhase
    BY <1>0, <2>1, PhaseSame DEF PhaseOf
  <2>3. UNCHANGED <<sent, postIdx, postPc, batch>>
    BY <1>1 DEF DetectInit, postVars, outVars, envVars
  <2>4. QED
    BY <2>2, <2>3, CountsSame DEF Orch!vars
<1>2. ASSUME NEW c \in Callers, DetectNone(c) \/ Throttle(c) PROVE Orch!Next
  <2>1. pc[c] \in {"idle", "lock"} /\ pc' = [pc EXCEPT ![c] = "forward"]
    BY <1>2 DEF DetectNone, Throttle, Goto
  <2>2. OrchPhase[c] = "idle"
    BY <1>0, <2>1 DEF OrchPhase, PhaseOf
  <2>3. OrchPhase' = [OrchPhase EXCEPT ![c] = "forward"]
    BY <1>0, <2>1, PhaseExcept DEF PhaseOf
  <2>4. UNCHANGED <<sent, postIdx, postPc, batch>>
    BY <1>2 DEF DetectNone, Throttle, postVars, outVars, envVars
  <2>5. Orch!Pass(c)
    BY <2>2, <2>3, <2>4, CountsSame DEF Orch!Pass, Orch!Move
  <2>6. QED
    BY <2>5 DEF Orch!Next
<1>3. ASSUME NEW c \in Callers, Admit(c) PROVE Orch!Next
  <2>1. /\ pc[c] = "lock"
        /\ pc' = [pc EXCEPT ![c] = IF HasConfig THEN "i1" ELSE "simple"]
    BY <1>3 DEF Admit
  <2>2. OrchPhase[c] = "idle"
    BY <1>0, <2>1 DEF OrchPhase, PhaseOf
  <2>3. OrchPhase' = [OrchPhase EXCEPT ![c] = "pre"]
    <3>1. PhaseOf(IF HasConfig THEN "i1" ELSE "simple") = "pre"
      BY DEF PhaseOf
    <3>2. QED
      BY <1>0, <2>1, <3>1, PhaseExcept
  <2>4. batch[c] \in {b \in Batches : SeenInit(b)}
    BY <1>0, <2>1 DEF OrchInv
  <2>5. UNCHANGED <<sent, postIdx, postPc, batch>>
    BY <1>3 DEF Admit, postVars, outVars, envVars
  <2>6. Orch!Trigger(c)
    BY <2>2, <2>3, <2>4, <2>5, CountsSame DEF Orch!Trigger, Orch!Move
  <2>7. QED
    BY <2>6 DEF Orch!Next
<1>4. ASSUME NEW c \in Callers, SimplePreflight(c) PROVE Orch!Next
  <2>1. pc[c] = "simple" /\ pc' = [pc EXCEPT ![c] = "forward"]
    BY <1>4 DEF SimplePreflight, Goto
  <2>2. OrchPhase[c] = "pre" /\ ~HasConfig
    BY <1>0, <2>1 DEF OrchPhase, PhaseOf, OrchInv
  <2>3. OrchPhase' = [OrchPhase EXCEPT ![c] = "forward"]
    BY <1>0, <2>1, PhaseExcept DEF PhaseOf
  <2>4. UNCHANGED <<sent, postIdx, postPc, batch>>
    BY <1>4 DEF SimplePreflight, postVars, outVars, envVars
  <2>5. Orch!Return(c)
    BY <2>2, <2>3, <2>4, CountsSame DEF Orch!Return, Orch!Move
  <2>6. QED
    BY <2>5 DEF Orch!Next
<1>5. ASSUME NEW c \in Callers, SpawnPost(c) PROVE Orch!Next
  <2>1. /\ pc[c] = "spawn" /\ pc' = [pc EXCEPT ![c] = "forward"]
        /\ postPc' = [postPc EXCEPT ![c] = "run"]
    BY <1>5 DEF SpawnPost, Goto
  <2>2. OrchPhase[c] = "pre" /\ HasConfig /\ postPc[c] = "none"
    BY <1>0, <2>1 DEF OrchPhase, PhaseOf, OrchInv
  <2>3. OrchPhase' = [OrchPhase EXCEPT ![c] = "forward"]
    BY <1>0, <2>1, PhaseExcept DEF PhaseOf
  <2>4. UNCHANGED <<sent, postIdx, batch>>
    BY <1>5 DEF SpawnPost, outVars, envVars
  <2>5. Orch!Launch(c)
    BY <2>1, <2>2, <2>3, <2>4, CountsSame DEF Orch!Launch, Orch!Move
  <2>6. QED
    BY <2>5 DEF Orch!Next
<1>6. ASSUME NEW c \in Callers, PostExit(c) PROVE Orch!Next
  <2>1. /\ postPc[c] = "run" /\ postPc' = [postPc EXCEPT ![c] = "done"]
        /\ UNCHANGED <<pc, sent, postIdx, batch>>
    BY <1>6 DEF PostExit, callVars, outVars, envVars
  <2>2. Orch!PostEnd(c)
    BY <2>1, CountsSame DEF Orch!PostEnd, OrchPhase
  <2>3. QED
    BY <2>2 DEF Orch!Next

<1>7. ASSUME NEW c \in Callers, SendI1(c) PROVE [Orch!Next]_Orch!vars
  <2>1. pc[c] = "i1" /\ pc' = [pc EXCEPT ![c] = "sig"]
    BY <1>7 DEF SendI1, Goto
  <2>2. OrchPhase' = OrchPhase /\ OrchPhase[c] = "pre"
    BY <1>0, <2>1, PhaseSame DEF PhaseOf, OrchPhase
  <2>3. UNCHANGED <<postIdx, postPc, batch>>
    BY <1>7 DEF SendI1, postVars, envVars
  <2>4. CASE PayloadSet
    <3>1. WriteSig(c, 1, 0)
      BY <1>7, <2>4 DEF SendI1
    <3>2. sent[c].sigs = 0
      BY <1>0, <2>1 DEF OrchInv
    <3>3. /\ \A x \in Callers \ {c} : sent'[x] = sent[x]
          /\ sent'[c].real = sent[c].real
          /\ sent'[c].sigs = sent[c].sigs + 1 /\ sent'[c].junk = sent[c].junk
      BY <1>0, <3>1, WriteSigSent
    <3>4. CountStep(c)
      BY <1>0, <2>2, <2>3, <3>3 DEF CountStep
    <3>5. Orch!PreSig(c)
      BY <2>2, <2>3, <3>2, <3>3, <3>4, SigCounted
    <3>6. QED
      BY <3>5 DEF Orch!Next
  <2>5. CASE ~PayloadSet
    <3>1. UNCHANGED sent
      BY <1>7, <2>5 DEF SendI1
    <3>2. QED
      BY <2>2, <2>3, <3>1, CountsSame DEF Orch!vars
  <2>6. QED
    BY <2>4, <2>5
<1>8. ASSUME NEW c \in Callers, SendSignature(c) PROVE [Orch!Next]_Orch!vars
  <2> DEFINE i == sigIdx[c]
  <2>1. pc[c] = "sig" /\ i \in 2 .. 5 /\ sent[c].sigs <= i - 1
    BY <1>0, <1>8 DEF SendSignature, ControlInv, OrchInv
  <2>2. \E v \in {"sig", "prejunk", "spawn"} : pc' = [pc EXCEPT ![c] = v]
    <3>1. pc = [pc EXCEPT ![c] = "sig"]
      BY <1>0, <2>1
    <3>2. QED
      BY <1>8, <3>1 DEF SendSignature
  <2>3. OrchPhase' = OrchPhase /\ OrchPhase[c] = "pre"
    <3>1. PICK v \in {"sig", "prejunk", "spawn"} : pc' = [pc EXCEPT ![c] = v]
      BY <2>2
    <3>2. QED
      BY <1>0, <2>1, <3>1, PhaseSame DEF PhaseOf, OrchPhase
  <2>4. UNCHANGED <<postIdx, postPc, batch>>
    BY <1>8 DEF SendSignature, postVars, envVars
  <2>5. CASE Sig[i] \in {"random", "static"}
    <3>1. \E r : WriteSig(c, i, r)
      <4>1. CASE Sig[i] = "random"
        BY <1>8, <4>1 DEF SendSignature
      <4>2. CASE Sig[i] = "static"
        BY <1>8, <4>2 DEF SendSignature
      <4>3. QED
        BY <2>5, <4>1, <4>2
    <3>2. sent[c].sigs \in Nat /\ sent[c].sigs < 5
      BY <1>0, <2>1 DEF Stats
    <3>3. /\ \A x \in Callers \ {c} : sent'[x] = sent[x]
          /\ sent'[c].real = sent[c].real
          /\ sent'[c].sigs = sent[c].sigs + 1 /\ sent'[c].junk = sent[c].junk
      BY <1>0, <3>1, WriteSigSent
    <3>4. CountStep(c)
      BY <1>0, <2>3, <2>4, <3>3 DEF CountStep
    <3>5. Orch!PreSig(c)
      BY <2>3, <2>4, <3>2, <3>3, <3>4, SigCounted
    <3>6. QED
      BY <3>5 DEF Orch!Next
  <2>6. CASE Sig[i] \notin {"random", "static"}
    <3>1. UNCHANGED sent
      BY <1>8, <2>6 DEF SendSignature, outVars
    <3>2. QED
      BY <2>3, <2>4, <3>1, CountsSame DEF Orch!vars
  <2>7. QED
    BY <2>5, <2>6
<1>9. ASSUME NEW c \in Callers, SendPreJunk(c) PROVE Orch!Next
  <2>1. /\ pc[c] = "prejunk" /\ preLeft[c] > 0
        /\ pc' = [pc EXCEPT ![c] = IF preLeft[c] = 1 THEN "spawn" ELSE "prejunk"]
    BY <1>9 DEF SendPreJunk
  <2>2. OrchPhase' = OrchPhase /\ OrchPhase[c] = "pre"
    BY <1>0, <2>1, PhaseSame DEF PhaseOf, OrchPhase
  <2>3. PreJunkTried(c) < PreCap
    <3>1. preLeft[c] \in 0 .. PreCap
      BY DEF IInv, TypeOK, CallTypeOK
    <3>2. PreJunkTried(c) + preLeft[c] <= PreCap /\ PreJunkTried(c) \in Int
      BY <1>0 DEF OrchInv, PreJunkTried, Stats
    <3>3. QED
      BY <2>1, <3>1, <3>2 DEF PreCap
  <2>4. UNCHANGED <<postIdx, postPc, batch>>
    BY <1>9 DEF SendPreJunk, postVars, envVars
  <2>5. SendJunk(c, "preOut")
    BY <1>9 DEF SendPreJunk
  <2>6. /\ \A x \in Callers \ {c} : sent'[x] = sent[x]
        /\ sent'[c].real = sent[c].real
        /\ sent'[c].sigs = sent[c].sigs /\ sent'[c].junk = sent[c].junk + 1
    BY <1>0, <2>5, SendJunkSent
  <2>7. sent[c] \in Stats /\ postIdx[c] \in Int
    BY <1>0
  <2>8. CountStep(c)
    BY <2>2, <2>4, <2>6, <2>7 DEF CountStep
  <2>9. Orch!PreJunk(c)
    BY <2>2, <2>3, <2>4, <2>6, <2>8, JunkCounted
  <2>10. QED
    BY <2>9 DEF Orch!Next
<1>10. ASSUME NEW c \in Callers, PostSend(c) PROVE Orch!Next
  <2>1. /\ postPc[c] = "run" /\ postIdx' = [postIdx EXCEPT ![c] = @ + 1]
        /\ UNCHANGED <<pc, postPc, batch>>
    BY <1>10 DEF PostSend, callVars, envVars
  <2>2. OrchPhase' = OrchPhase
    BY <2>1 DEF OrchPhase
  <2>3. SendJunk(c, "postOut")
    BY <1>10 DEF PostSend
  <2>4. /\ \A x \in Callers \ {c} : sent'[x] = sent[x]
        /\ sent'[c].real = sent[c].real
        /\ sent'[c].sigs = sent[c].sigs /\ sent'[c].junk = sent[c].junk + 1
    BY <1>0, <2>3, SendJunkSent
  <2>5. sent[c] \in Stats /\ postIdx[c] \in Int
    BY <1>0
  <2>6. /\ \A x \in Callers \ {c} : postIdx'[x] = postIdx[x]
        /\ postIdx'[c] = postIdx[c] + 1
    BY <1>0, <2>1
  <2>7. CountStep(c)
    BY <2>1, <2>2, <2>4, <2>5, <2>6 DEF CountStep
  <2>8. Orch!PostJunk(c)
    BY <2>1, <2>4, <2>6, <2>7, PostCounted
  <2>9. QED
    BY <2>8 DEF Orch!Next
<1>11. ASSUME NEW c \in Callers, Forward(c) PROVE Orch!Next
  <2>1. pc[c] = "forward" /\ pc' = [pc EXCEPT ![c] = "done"]
    BY <1>11 DEF Forward, Goto
  <2>2. OrchPhase[c] = "forward"
    BY <1>0, <2>1 DEF OrchPhase, PhaseOf
  <2>3. OrchPhase' = [OrchPhase EXCEPT ![c] = "done"]
    <3>1. PhaseOf("done") = "done"
      BY DEF PhaseOf
    <3>2. QED
      BY <1>0, <2>1, <3>1, PhaseExcept
  <2>4. UNCHANGED <<postIdx, postPc, batch>>
    BY <1>11 DEF Forward, postVars, envVars
  <2>5. /\ \A x \in Callers \ {c} : sent'[x] = sent[x]
        /\ sent'[c].real = TRUE
        /\ sent'[c].sigs = sent[c].sigs /\ sent'[c].junk = sent[c].junk
    BY <1>0, <1>11, ForwardSent
  <2>6. /\ OrchReal' = [OrchReal EXCEPT ![c] = TRUE]
        /\ UNCHANGED <<OrchPreSigs, OrchPreJunk, OrchPostJunk>>
    <3>1. PreJunkTried(c)' = PreJunkTried(c)
      BY <2>4, <2>5 DEF PreJunkTried
    <3>2. QED
      BY <2>4, <2>5, <3>1, CountsExcept DEF OrchPreSigs, OrchPreJunk,
         OrchPostJunk, OrchReal
  <2>7. Orch!Deliver(c)
    BY <2>2, <2>3, <2>4, <2>6 DEF Orch!Deliver, Orch!Move
  <2>8. QED
    BY <2>7 DEF Orch!Next
<1>12. CASE Tick \/ Terminated \/ UNCHANGED vars
  <2>1. UNCHANGED <<pc, sent, postIdx, postPc, batch>>
    BY <1>12 DEF Tick, Terminated, vars, callVars, postVars, outVars, envVars
  <2>2. QED
    BY <2>1, CountsSame DEF Orch!vars, OrchPhase
<1>13. QED
  BY <1>1, <1>2, <1>3, <1>4, <1>5, <1>6, <1>7, <1>8, <1>9, <1>10, <1>11,
     <1>12 DEF Next, Caller, Post

(***************************************************************************)
(* OrchInv holds in every reachable state, for every number of callers and *)
(* every configuration: each call's program counter agrees with its       *)
(* goroutine state, its signature count and its junk budget (Send and the *)
(* goroutine it launches in maybePreflight).                               *)
(***************************************************************************)
THEOREM OrchInvariant == Spec => []OrchInv
<1>1. IInv /\ OrchInv /\ [Next]_vars => IInv' /\ OrchInv'
  BY StepIInv, OrchInvStep DEF IInv
<1>2. QED
  BY <1>1, InitIInv, InitOrchInv, PTL DEF Spec

(***************************************************************************)
(* Concurrent Send calls implement the sequence orchestrator of spec 4.3,  *)
(* for every number of callers and every configuration: seen through the   *)
(* phase of each call, its goroutine, and its counts of signature and      *)
(* junk attempts, every behaviour of PreflightBind is one of Orchestrator. *)
(***************************************************************************)
THEOREM OrchestratorRefinement == Spec => OrchestratorRefined
<1>1. Init => Orch!Init
  BY DEF Init, Orch!Init, OrchPhase, PhaseOf, OrchPreSigs, OrchPreJunk,
     OrchPostJunk, OrchReal, PreJunkTried
<1>2. IInv /\ OrchInv /\ [Next]_vars => IInv' /\ OrchInv'
  BY StepIInv, OrchInvStep DEF IInv
<1>3. QED
  BY <1>1, <1>2, InitIInv, InitOrchInv, OrchStep, PTL
  DEF Spec, OrchestratorRefined, Orch!Spec

=============================================================================
