------------------------ MODULE PreflightBindProofs ------------------------
(***************************************************************************)
(* Proofs about PreflightBind for every value of its constants: the type   *)
(* invariant, and the rate limiter's separation of admitted triggers per   *)
(* destination (RateSeparation), from the inductive invariant IInv.       *)
(***************************************************************************)
EXTENDS PreflightBind, SequenceTheorems, TLAPS

\* Repeat(label, n) is a sequence, also for n <= 0 (it is then empty).
LEMMA RepeatType ==
  ASSUME NEW S, NEW l \in S, NEW n \in Int
  PROVE  Repeat(l, n) \in Seq(S)
<1>1. CASE n \in Nat
  BY <1>1 DEF Repeat
<1>2. CASE n < 0
  <2>1. Repeat(l, n) = << >>
    BY <1>2 DEF Repeat
  <2>2. QED
    BY <2>1
<1>3. QED
  BY <1>1, <1>2

Stages == {"beforeHS", "jc", "afterI1", "afterHS"}

\* The goroutine's plan is a finite sequence of stage labels.
LEMMA PostPlanType == PostPlan \in Seq(Stages) /\ Len(PostPlan) \in Nat
<1>1. /\ Repeat("beforeHS", JcBeforeHS - PreCap) \in Seq(Stages)
      /\ Repeat("jc", Jc) \in Seq(Stages)
      /\ Repeat("afterI1", JcAfterI1) \in Seq(Stages)
      /\ Repeat("afterHS", JcAfterHS) \in Seq(Stages)
  <2>1. JcBeforeHS - PreCap \in Int /\ Jc \in Int
        /\ JcAfterI1 \in Int /\ JcAfterHS \in Int
    BY ConstantsAssumption DEF PreCap
  <2>2. QED
    BY <2>1, RepeatType DEF Stages
<1>2. PostPlan \in Seq(Stages)
  BY <1>1, ConcatProperties DEF PostPlan
<1>3. QED
  BY <1>2, LenProperties

-----------------------------------------------------------------------------
THEOREM InitIInv == Init => IInv
<1> SUFFICES ASSUME Init PROVE IInv
  OBVIOUS
<1>1. TypeOK
  <2>1. Len(PostPlan) \in Nat
    BY PostPlanType
  <2>2. sent \in [Callers -> Stats]
    BY DEF Init, Stats
  <2>3. sigsOut \in Seq((1 .. 5) \X Nat)
    BY EmptySeq DEF Init
  <2>4. /\ clock \in Time
        /\ lastSent \in [Dsts -> Time \cup {NoTime}]
        /\ admitted \in [Callers -> Time \cup {NoTime}]
        /\ now \in [Callers -> Time]
    BY ConstantsAssumption DEF Init, Time, NoTime
  <2>5. /\ pc \in [Callers -> PcValues]
        /\ sigIdx \in [Callers -> 2 .. 6]
        /\ preLeft \in [Callers -> 0 .. PreCap]
        /\ postPc \in [Callers -> {"none", "run", "done"}]
    BY DEF Init, PcValues, PreCap
  <2>6. postIdx \in [Callers -> 1 .. Len(PostPlan) + 1]
    BY <2>1 DEF Init
  <2>7. QED
    BY <2>2, <2>3, <2>4, <2>5, <2>6 DEF Init, TypeOK, LimiterTypeOK, EnvTypeOK,
       CallTypeOK, PostTypeOK, OutTypeOK
<1>2. ControlInv /\ RateInv /\ RateSeparation
  BY DEF Init, ControlInv, RateInv, RateSeparation
<1>3. QED
  BY <1>1, <1>2 DEF IInv

(***************************************************************************)
(* A step that leaves the limiter (b.lastSent), the admission history and *)
(* the destinations alone preserves RateInv and RateSeparation.           *)
(***************************************************************************)
LEMMA RateUnchanged ==
  ASSUME IInv, UNCHANGED <<lastSent, admitted, dst>>
  PROVE  RateInv' /\ RateSeparation'
BY DEF IInv, RateInv, RateSeparation

(***************************************************************************)
(* Admit(c), the only step that changes b.lastSent: c was not admitted     *)
(* before (ControlInv); every earlier admission d of its destination is   *)
(* at most lastSent (RateInv), which is at least Interval before now[c].  *)
(***************************************************************************)
LEMMA AdmitIInv ==
  ASSUME IInv, NEW c \in Callers, Admit(c)
  PROVE  IInv'
<1> USE ConstantsAssumption
<1> DEFINE d == dst[c]
           last == lastSent[d]
<1>1. /\ admitted[c] = NoTime
      /\ now[c] \in Time
      /\ last \in Time \cup {NoTime}
  BY DEF Admit, IInv, ControlInv, TypeOK, CallTypeOK, LimiterTypeOK, EnvTypeOK
<1>2. last = NoTime \/ now[c] - last >= Interval
  BY DEF Admit
<1>3. TypeOK'
  BY <1>1 DEF Admit, IInv, TypeOK, LimiterTypeOK, EnvTypeOK, CallTypeOK,
     PostTypeOK, OutTypeOK, Time, NoTime, PcValues, envVars, postVars, outVars
<1>4. ControlInv'
  BY DEF Admit, IInv, TypeOK, CallTypeOK, ControlInv, envVars
<1>5. ASSUME NEW e \in Callers, e # c, dst[e] = d, admitted[e] # NoTime
      PROVE  now[c] - admitted[e] >= Interval /\ admitted[e] <= now[c]
  <2>1. last # NoTime /\ admitted[e] <= last /\ admitted[e] \in Time
    BY <1>5 DEF IInv, RateInv, TypeOK, LimiterTypeOK, EnvTypeOK, NoTime
  <2>2. QED
    BY <1>1, <1>2, <2>1 DEF Time, NoTime
<1>6. RateInv'
  <2>1. SUFFICES ASSUME NEW e \in Callers, admitted'[e] # NoTime
                 PROVE  lastSent'[dst'[e]] # NoTime
                        /\ admitted'[e] <= lastSent'[dst'[e]]
    BY DEF RateInv
  <2>2. CASE e = c
    BY <1>1, <2>2 DEF Admit, IInv, TypeOK, LimiterTypeOK, EnvTypeOK, envVars, Time, NoTime
  <2>3. CASE e # c /\ dst[e] = d
    <3>1. admitted'[e] = admitted[e] /\ dst'[e] = d /\ lastSent'[d] = now[c]
      BY <2>3 DEF Admit, IInv, TypeOK, EnvTypeOK, LimiterTypeOK, envVars
    <3>2. admitted[e] <= now[c]
      BY <1>5, <2>1, <2>3, <3>1
    <3>3. QED
      BY <1>1, <3>1, <3>2 DEF Time, NoTime
  <2>4. CASE e # c /\ dst[e] # d
    BY <2>1, <2>4 DEF Admit, IInv, RateInv, envVars
  <2>5. QED
    BY <2>2, <2>3, <2>4
<1>7. RateSeparation'
  <2>1. SUFFICES ASSUME NEW e1 \in Callers, NEW e2 \in Callers, e1 # e2,
                        dst'[e1] = dst'[e2],
                        admitted'[e1] # NoTime, admitted'[e2] # NoTime
                 PROVE  \/ admitted'[e1] - admitted'[e2] >= Interval
                        \/ admitted'[e2] - admitted'[e1] >= Interval
    BY DEF RateSeparation
  <2>2. CASE e1 = c
    BY <1>1, <1>5, <2>1, <2>2 DEF Admit, IInv, TypeOK, EnvTypeOK, CallTypeOK,
       Time, NoTime, envVars
  <2>3. CASE e2 = c
    BY <1>1, <1>5, <2>1, <2>3 DEF Admit, IInv, TypeOK, EnvTypeOK, CallTypeOK,
       Time, NoTime, envVars
  <2>4. CASE e1 # c /\ e2 # c
    BY <2>1, <2>4 DEF Admit, IInv, RateSeparation, envVars
  <2>5. QED
    BY <2>2, <2>3, <2>4
<1>8. QED
  BY <1>3, <1>4, <1>6, <1>7 DEF IInv

(***************************************************************************)
(* The writes keep the output history well typed.                          *)
(***************************************************************************)
LEMMA WriteSigType ==
  ASSUME OutTypeOK, NEW c \in Callers, NEW i \in 1 .. 5, NEW r \in Nat,
         WriteSig(c, i, r)
  PROVE  sent' \in [Callers -> Stats] /\ sigsOut' \in Seq((1 .. 5) \X Nat)
<1>1. sent' \in [Callers -> Stats]
  <2>1. sent[c] \in Stats
    BY DEF OutTypeOK
  <2>2. [sent[c] EXCEPT !.sigs = @ + 1] \in Stats
    BY <2>1 DEF Stats
  <2>3. sent' = [sent EXCEPT ![c] = [sent[c] EXCEPT !.sigs = @ + 1]]
    BY DEF WriteSig
  <2>4. QED
    BY <2>2, <2>3 DEF OutTypeOK
<1>2. sigsOut' \in Seq((1 .. 5) \X Nat)
  <2>1. CASE sigsOut' = Append(sigsOut, <<i, r>>)
    <3>1. <<i, r>> \in (1 .. 5) \X Nat
      OBVIOUS
    <3>2. QED
      BY <2>1, <3>1, AppendProperties DEF OutTypeOK
  <2>2. CASE UNCHANGED sigsOut
    BY <2>2 DEF OutTypeOK
  <2>3. QED
    BY <2>1, <2>2 DEF WriteSig
<1>3. QED
  BY <1>1, <1>2

LEMMA SendJunkType ==
  ASSUME OutTypeOK, NEW c \in Callers, NEW field \in {"preOut", "postOut"},
         SendJunk(c, field)
  PROVE  sent' \in [Callers -> Stats]
<1>1. PICK o \in JunkOutcomes :
        \E n \in 0 .. (IF o = "zero" THEN 2 ELSE 1) :
          sent' = [sent EXCEPT ![c].junk = @ + 1, ![c][field] = @ + n]
  BY DEF SendJunk
<1>2. PICK n \in 0 .. (IF o = "zero" THEN 2 ELSE 1) :
        sent' = [sent EXCEPT ![c].junk = @ + 1, ![c][field] = @ + n]
  BY <1>1
<1>3. n \in Nat /\ sent[c] \in Stats
  BY DEF OutTypeOK
<1>4. /\ sent[c].sigs \in Nat /\ sent[c].junk + 1 \in Nat
      /\ sent[c].preOut \in Nat /\ sent[c].postOut \in Nat
      /\ sent[c].preOut + n \in Nat /\ sent[c].postOut + n \in Nat
      /\ sent[c].real \in BOOLEAN
  BY <1>3 DEF Stats
<1>5. /\ sent' = [sent EXCEPT ![c] = sent'[c]]
      /\ sent'[c] = [sent[c] EXCEPT !.junk = @ + 1, ![field] = @ + n]
  BY <1>2, <1>3 DEF OutTypeOK
<1>8. sent[c] = [sigs |-> sent[c].sigs, junk |-> sent[c].junk,
                 preOut |-> sent[c].preOut, postOut |-> sent[c].postOut,
                 real |-> sent[c].real]
  BY <1>3 DEF Stats
<1>6. CASE field = "preOut"
  <2>0. sent'[c] = [sent[c] EXCEPT !.junk = @ + 1, !.preOut = @ + n]
    BY <1>5, <1>6
  <2>1. sent'[c] = [sigs |-> sent[c].sigs, junk |-> sent[c].junk + 1,
                    preOut |-> sent[c].preOut + n, postOut |-> sent[c].postOut,
                    real |-> sent[c].real]
    BY <1>8, <2>0
  <2>2. sent'[c] \in Stats
    BY <1>4, <2>1 DEF Stats
  <2>3. QED
    BY <1>5, <2>2 DEF OutTypeOK
<1>7. CASE field = "postOut"
  <2>0. sent'[c] = [sent[c] EXCEPT !.junk = @ + 1, !.postOut = @ + n]
    BY <1>5, <1>7
  <2>1. sent'[c] = [sigs |-> sent[c].sigs, junk |-> sent[c].junk + 1,
                    preOut |-> sent[c].preOut, postOut |-> sent[c].postOut + n,
                    real |-> sent[c].real]
    BY <1>8, <2>0
  <2>2. sent'[c] \in Stats
    BY <1>4, <2>1 DEF Stats
  <2>3. QED
    BY <1>5, <2>2 DEF OutTypeOK
<1>9. QED
  BY <1>6, <1>7

(***************************************************************************)
(* Every step of Next, and every stuttering step, preserves IInv.          *)
(***************************************************************************)
LEMMA StepIInv == IInv /\ [Next]_vars => IInv'
<1> SUFFICES ASSUME IInv, [Next]_vars PROVE IInv'
  OBVIOUS
<1> USE ConstantsAssumption, PostPlanType
<1>1. CASE Tick
  <2>1. LimiterTypeOK'
    BY <1>1 DEF Tick, IInv, TypeOK, LimiterTypeOK, Time, NoTime, PcValues, Stats, PreCap, envVars, callVars, postVars, outVars
  <2>2. EnvTypeOK'
    BY <1>1 DEF Tick, IInv, TypeOK, EnvTypeOK, envVars, callVars, postVars, outVars
  <2>3. CallTypeOK'
    BY <1>1 DEF Tick, IInv, TypeOK, CallTypeOK, envVars, callVars, postVars, outVars
  <2>4. PostTypeOK'
    BY <1>1 DEF Tick, IInv, TypeOK, PostTypeOK, envVars, callVars, postVars, outVars
  <2>5. OutTypeOK'
    BY <1>1 DEF Tick, IInv, TypeOK, OutTypeOK, envVars, callVars, postVars, outVars
  <2>6. ControlInv'
    BY <1>1 DEF Tick, IInv, TypeOK, CallTypeOK, ControlInv, envVars, callVars, postVars, outVars
  <2>7. QED
    BY <1>1, <2>1, <2>2, <2>3, <2>4, <2>5, <2>6, RateUnchanged
    DEF Tick, IInv, TypeOK, envVars, callVars, postVars, outVars
<1>2. ASSUME NEW c \in Callers, DetectInit(c) PROVE IInv'
  <2>1. LimiterTypeOK'
    BY <1>2 DEF DetectInit, Goto, IInv, TypeOK, LimiterTypeOK, envVars, callVars, postVars, outVars
  <2>2. EnvTypeOK'
    BY <1>2 DEF DetectInit, Goto, IInv, TypeOK, EnvTypeOK, envVars, callVars, postVars, outVars
  <2>3. CallTypeOK'
    BY <1>2 DEF DetectInit, Goto, IInv, TypeOK, CallTypeOK, LimiterTypeOK, Time, NoTime, PcValues, Stats,
       PreCap, envVars, callVars, postVars, outVars
  <2>4. PostTypeOK'
    BY <1>2 DEF DetectInit, Goto, IInv, TypeOK, PostTypeOK, envVars, callVars, postVars, outVars
  <2>5. OutTypeOK'
    BY <1>2 DEF DetectInit, Goto, IInv, TypeOK, OutTypeOK, envVars, callVars, postVars, outVars
  <2>6. ControlInv'
    BY <1>2 DEF DetectInit, Goto, IInv, TypeOK, CallTypeOK, ControlInv, envVars, callVars, postVars, outVars
  <2>7. QED
    BY <1>2, <2>1, <2>2, <2>3, <2>4, <2>5, <2>6, RateUnchanged
    DEF DetectInit, Goto, IInv, TypeOK, envVars, callVars, postVars, outVars
<1>3. ASSUME NEW c \in Callers, DetectNone(c) PROVE IInv'
  <2>1. LimiterTypeOK'
    BY <1>3 DEF DetectNone, Goto, IInv, TypeOK, LimiterTypeOK, envVars, callVars, postVars, outVars
  <2>2. EnvTypeOK'
    BY <1>3 DEF DetectNone, Goto, IInv, TypeOK, EnvTypeOK, envVars, callVars, postVars, outVars
  <2>3. CallTypeOK'
    BY <1>3 DEF DetectNone, Goto, IInv, TypeOK, CallTypeOK, LimiterTypeOK, Time, NoTime, PcValues, Stats,
       PreCap, envVars, callVars, postVars, outVars
  <2>4. PostTypeOK'
    BY <1>3 DEF DetectNone, Goto, IInv, TypeOK, PostTypeOK, envVars, callVars, postVars, outVars
  <2>5. OutTypeOK'
    BY <1>3 DEF DetectNone, Goto, IInv, TypeOK, OutTypeOK, envVars, callVars, postVars, outVars
  <2>6. ControlInv'
    BY <1>3 DEF DetectNone, Goto, IInv, TypeOK, CallTypeOK, ControlInv, envVars, callVars, postVars, outVars
  <2>7. QED
    BY <1>3, <2>1, <2>2, <2>3, <2>4, <2>5, <2>6, RateUnchanged
    DEF DetectNone, Goto, IInv, TypeOK, envVars, callVars, postVars, outVars
<1>4. ASSUME NEW c \in Callers, Throttle(c) PROVE IInv'
  <2>1. LimiterTypeOK'
    BY <1>4 DEF Throttle, Goto, IInv, TypeOK, LimiterTypeOK, envVars, callVars, postVars, outVars
  <2>2. EnvTypeOK'
    BY <1>4 DEF Throttle, Goto, IInv, TypeOK, EnvTypeOK, envVars, callVars, postVars, outVars
  <2>3. CallTypeOK'
    BY <1>4 DEF Throttle, Goto, IInv, TypeOK, CallTypeOK, LimiterTypeOK, Time, NoTime, PcValues, Stats,
       PreCap, envVars, callVars, postVars, outVars
  <2>4. PostTypeOK'
    BY <1>4 DEF Throttle, Goto, IInv, TypeOK, PostTypeOK, envVars, callVars, postVars, outVars
  <2>5. OutTypeOK'
    BY <1>4 DEF Throttle, Goto, IInv, TypeOK, OutTypeOK, envVars, callVars, postVars, outVars
  <2>6. ControlInv'
    BY <1>4 DEF Throttle, Goto, IInv, TypeOK, CallTypeOK, ControlInv, envVars, callVars, postVars, outVars
  <2>7. QED
    BY <1>4, <2>1, <2>2, <2>3, <2>4, <2>5, <2>6, RateUnchanged
    DEF Throttle, Goto, IInv, TypeOK, envVars, callVars, postVars, outVars
<1>5. ASSUME NEW c \in Callers, SimplePreflight(c) PROVE IInv'
  <2>1. LimiterTypeOK'
    BY <1>5 DEF SimplePreflight, Goto, IInv, TypeOK, LimiterTypeOK, envVars, callVars, postVars, outVars
  <2>2. EnvTypeOK'
    BY <1>5 DEF SimplePreflight, Goto, IInv, TypeOK, EnvTypeOK, envVars, callVars, postVars, outVars
  <2>3. CallTypeOK'
    BY <1>5 DEF SimplePreflight, Goto, IInv, TypeOK, CallTypeOK, LimiterTypeOK, Time, NoTime, PcValues, Stats,
       PreCap, envVars, callVars, postVars, outVars
  <2>4. PostTypeOK'
    BY <1>5 DEF SimplePreflight, Goto, IInv, TypeOK, PostTypeOK, envVars, callVars, postVars, outVars
  <2>5. OutTypeOK'
    BY <1>5 DEF SimplePreflight, Goto, IInv, TypeOK, OutTypeOK, envVars, callVars, postVars, outVars
  <2>6. ControlInv'
    BY <1>5 DEF SimplePreflight, Goto, IInv, TypeOK, CallTypeOK, ControlInv, envVars, callVars, postVars, outVars
  <2>7. QED
    BY <1>5, <2>1, <2>2, <2>3, <2>4, <2>5, <2>6, RateUnchanged
    DEF SimplePreflight, Goto, IInv, TypeOK, envVars, callVars, postVars, outVars
<1>6. ASSUME NEW c \in Callers, SendI1(c) PROVE IInv'
  <2>1. LimiterTypeOK'
    BY <1>6 DEF SendI1, Goto, IInv, TypeOK, LimiterTypeOK, envVars, callVars, postVars, outVars
  <2>2. EnvTypeOK'
    BY <1>6 DEF SendI1, Goto, IInv, TypeOK, EnvTypeOK, envVars, callVars, postVars, outVars
  <2>3. CallTypeOK'
    BY <1>6 DEF SendI1, Goto, IInv, TypeOK, CallTypeOK, LimiterTypeOK, Time, NoTime, PcValues, Stats,
       PreCap, envVars, callVars, postVars, outVars
  <2>4. PostTypeOK'
    BY <1>6 DEF SendI1, Goto, IInv, TypeOK, PostTypeOK, envVars, callVars, postVars, outVars
  <2>5. OutTypeOK'
    BY <1>6, WriteSigType DEF SendI1, Goto, IInv, TypeOK, OutTypeOK,
       postVars, outVars
  <2>6. ControlInv'
    BY <1>6 DEF SendI1, Goto, IInv, TypeOK, CallTypeOK, ControlInv, envVars, callVars, postVars, outVars
  <2>7. QED
    BY <1>6, <2>1, <2>2, <2>3, <2>4, <2>5, <2>6, RateUnchanged
    DEF SendI1, Goto, IInv, TypeOK, envVars, callVars, postVars, outVars
<1>7. ASSUME NEW c \in Callers, SendSignature(c) PROVE IInv'
  <2> DEFINE i == sigIdx[c]
  <2>1. pc[c] = "sig" /\ i \in 2 .. 5
    BY <1>7 DEF SendSignature, IInv, ControlInv
  <2>2. /\ sigIdx' = [sigIdx EXCEPT ![c] = i + 1]
        /\ UNCHANGED <<clock, lastSent, admitted, dst, batch, now, postPc,
                       postIdx>>
    BY <1>7 DEF SendSignature, envVars, postVars
  <2>3. \/ i < 5 /\ UNCHANGED <<pc, preLeft>>
        \/ /\ i = 5 /\ JcBeforeHS > 0
           /\ pc' = [pc EXCEPT ![c] = "prejunk"]
           /\ preLeft' = [preLeft EXCEPT ![c] = PreJunkCount]
        \/ /\ i = 5 /\ ~(JcBeforeHS > 0)
           /\ pc' = [pc EXCEPT ![c] = "spawn"] /\ UNCHANGED preLeft
    BY <1>7, <2>1 DEF SendSignature
  <2>4. JcBeforeHS > 0 => PreJunkCount \in 0 .. PreCap
    BY DEF PreJunkCount, PreCap
  <2>5. CallTypeOK'
    <3>1. sigIdx' \in [Callers -> 2 .. 6]
      BY <2>1, <2>2 DEF IInv, TypeOK, CallTypeOK
    <3>2. now' \in [Callers -> Time]
      BY <2>2 DEF IInv, TypeOK, CallTypeOK
    <3>3. pc' \in [Callers -> PcValues] /\ preLeft' \in [Callers -> 0 .. PreCap]
      <4>1. CASE i < 5 /\ UNCHANGED <<pc, preLeft>>
        BY <4>1 DEF IInv, TypeOK, CallTypeOK
      <4>2. CASE /\ i = 5 /\ JcBeforeHS > 0
                 /\ pc' = [pc EXCEPT ![c] = "prejunk"]
                 /\ preLeft' = [preLeft EXCEPT ![c] = PreJunkCount]
        BY <2>4, <4>2 DEF IInv, TypeOK, CallTypeOK, PcValues
      <4>3. CASE /\ i = 5 /\ ~(JcBeforeHS > 0)
                 /\ pc' = [pc EXCEPT ![c] = "spawn"] /\ UNCHANGED preLeft
        BY <4>3 DEF IInv, TypeOK, CallTypeOK, PcValues
      <4>4. QED
        BY <2>3, <4>1, <4>2, <4>3
    <3>4. QED
      BY <3>1, <3>2, <3>3 DEF CallTypeOK
  <2>6. ControlInv'
    <3>1. CASE i < 5 /\ UNCHANGED <<pc, preLeft>>
      <4>1. sigIdx'[c] \in 2 .. 5 /\ pc'[c] = "sig"
        BY <2>1, <2>2, <3>1 DEF IInv, TypeOK, CallTypeOK
      <4>2. QED
        BY <2>2, <3>1, <4>1 DEF IInv, TypeOK, CallTypeOK, ControlInv
    <3>2. CASE i = 5 /\ pc'[c] \in {"prejunk", "spawn"}
                 /\ \A e \in Callers \ {c} : pc'[e] = pc[e]
      BY <2>2, <3>2 DEF IInv, TypeOK, CallTypeOK, ControlInv
    <3>3. QED
      BY <2>3, <3>1, <3>2 DEF IInv, TypeOK, CallTypeOK
  <2>7. OutTypeOK'
    <3>1. CASE Sig[i] = "random"
      <4>1. draws' = draws + 1 /\ WriteSig(c, i, draws + 1)
        BY <1>7, <3>1 DEF SendSignature
      <4>2. QED
        BY <2>1, <4>1, WriteSigType DEF IInv, TypeOK, OutTypeOK
    <3>2. CASE Sig[i] = "static"
      <4>1. UNCHANGED draws /\ WriteSig(c, i, 0)
        BY <1>7, <3>2 DEF SendSignature
      <4>2. QED
        BY <2>1, <4>1, WriteSigType DEF IInv, TypeOK, OutTypeOK
    <3>3. CASE Sig[i] # "random" /\ Sig[i] # "static"
      BY <1>7, <3>3 DEF SendSignature, IInv, TypeOK, OutTypeOK, outVars
    <3>4. QED
      BY <3>1, <3>2, <3>3
  <2>8. QED
    BY <2>2, <2>5, <2>6, <2>7, RateUnchanged
    DEF IInv, TypeOK, LimiterTypeOK, EnvTypeOK, PostTypeOK
<1>8. ASSUME NEW c \in Callers, SendPreJunk(c) PROVE IInv'
  <2>1. LimiterTypeOK'
    BY <1>8 DEF SendPreJunk, Goto, IInv, TypeOK, LimiterTypeOK, envVars, callVars, postVars, outVars
  <2>2. EnvTypeOK'
    BY <1>8 DEF SendPreJunk, Goto, IInv, TypeOK, EnvTypeOK, envVars, callVars, postVars, outVars
  <2>3. CallTypeOK'
    BY <1>8 DEF SendPreJunk, Goto, IInv, TypeOK, CallTypeOK, LimiterTypeOK, Time, NoTime, PcValues, Stats,
       PreCap, envVars, callVars, postVars, outVars
  <2>4. PostTypeOK'
    BY <1>8 DEF SendPreJunk, Goto, IInv, TypeOK, PostTypeOK, envVars, callVars, postVars, outVars
  <2>5. OutTypeOK'
    BY <1>8, SendJunkType DEF SendPreJunk, IInv, TypeOK, OutTypeOK
  <2>6. ControlInv'
    BY <1>8 DEF SendPreJunk, Goto, IInv, TypeOK, CallTypeOK, ControlInv, envVars, callVars, postVars, outVars
  <2>7. QED
    BY <1>8, <2>1, <2>2, <2>3, <2>4, <2>5, <2>6, RateUnchanged
    DEF SendPreJunk, Goto, IInv, TypeOK, envVars, callVars, postVars, outVars
<1>9. ASSUME NEW c \in Callers, SpawnPost(c) PROVE IInv'
  <2>1. LimiterTypeOK'
    BY <1>9 DEF SpawnPost, Goto, IInv, TypeOK, LimiterTypeOK, envVars, callVars, postVars, outVars
  <2>2. EnvTypeOK'
    BY <1>9 DEF SpawnPost, Goto, IInv, TypeOK, EnvTypeOK, envVars, callVars, postVars, outVars
  <2>3. CallTypeOK'
    BY <1>9 DEF SpawnPost, Goto, IInv, TypeOK, CallTypeOK, LimiterTypeOK, Time, NoTime, PcValues, Stats,
       PreCap, envVars, callVars, postVars, outVars
  <2>4. PostTypeOK'
    BY <1>9 DEF SpawnPost, Goto, IInv, TypeOK, PostTypeOK, Time, NoTime, PcValues, Stats, PreCap, envVars, callVars, postVars, outVars
  <2>5. OutTypeOK'
    BY <1>9 DEF SpawnPost, Goto, IInv, TypeOK, OutTypeOK, envVars, callVars, postVars, outVars
  <2>6. ControlInv'
    BY <1>9 DEF SpawnPost, Goto, IInv, TypeOK, CallTypeOK, ControlInv, envVars, callVars, postVars, outVars
  <2>7. QED
    BY <1>9, <2>1, <2>2, <2>3, <2>4, <2>5, <2>6, RateUnchanged
    DEF SpawnPost, Goto, IInv, TypeOK, envVars, callVars, postVars, outVars
<1>10. ASSUME NEW c \in Callers, Forward(c) PROVE IInv'
  <2>1. LimiterTypeOK'
    BY <1>10 DEF Forward, Goto, IInv, TypeOK, LimiterTypeOK, envVars, callVars, postVars, outVars
  <2>2. EnvTypeOK'
    BY <1>10 DEF Forward, Goto, IInv, TypeOK, EnvTypeOK, envVars, callVars, postVars, outVars
  <2>3. CallTypeOK'
    BY <1>10 DEF Forward, Goto, IInv, TypeOK, CallTypeOK, LimiterTypeOK, Time, NoTime, PcValues, Stats,
       PreCap, envVars, callVars, postVars, outVars
  <2>4. PostTypeOK'
    BY <1>10 DEF Forward, Goto, IInv, TypeOK, PostTypeOK, envVars, callVars, postVars, outVars
  <2>5. OutTypeOK'
    BY <1>10 DEF Forward, Goto, IInv, TypeOK, OutTypeOK, Time, NoTime, PcValues, Stats, PreCap, envVars, callVars, postVars, outVars
  <2>6. ControlInv'
    BY <1>10 DEF Forward, Goto, IInv, TypeOK, CallTypeOK, ControlInv, envVars, callVars, postVars, outVars
  <2>7. QED
    BY <1>10, <2>1, <2>2, <2>3, <2>4, <2>5, <2>6, RateUnchanged
    DEF Forward, Goto, IInv, TypeOK, envVars, callVars, postVars, outVars
<1>11. ASSUME NEW c \in Callers, PostSend(c) PROVE IInv'
  <2>1. LimiterTypeOK'
    BY <1>11 DEF PostSend, Goto, IInv, TypeOK, LimiterTypeOK, envVars, callVars, postVars, outVars
  <2>2. EnvTypeOK'
    BY <1>11 DEF PostSend, Goto, IInv, TypeOK, EnvTypeOK, envVars, callVars, postVars, outVars
  <2>3. CallTypeOK'
    BY <1>11 DEF PostSend, Goto, IInv, TypeOK, CallTypeOK, envVars, callVars, postVars, outVars
  <2>4. PostTypeOK'
    BY <1>11 DEF PostSend, Goto, IInv, TypeOK, PostTypeOK, Time, NoTime, PcValues, Stats, PreCap, envVars, callVars, postVars, outVars
  <2>5. OutTypeOK'
    BY <1>11, SendJunkType DEF PostSend, IInv, TypeOK, OutTypeOK
  <2>6. ControlInv'
    BY <1>11 DEF PostSend, Goto, IInv, TypeOK, CallTypeOK, ControlInv, envVars, callVars, postVars, outVars
  <2>7. QED
    BY <1>11, <2>1, <2>2, <2>3, <2>4, <2>5, <2>6, RateUnchanged
    DEF PostSend, Goto, IInv, TypeOK, envVars, callVars, postVars, outVars
<1>12. ASSUME NEW c \in Callers, PostExit(c) PROVE IInv'
  <2>1. LimiterTypeOK'
    BY <1>12 DEF PostExit, Goto, IInv, TypeOK, LimiterTypeOK, envVars, callVars, postVars, outVars
  <2>2. EnvTypeOK'
    BY <1>12 DEF PostExit, Goto, IInv, TypeOK, EnvTypeOK, envVars, callVars, postVars, outVars
  <2>3. CallTypeOK'
    BY <1>12 DEF PostExit, Goto, IInv, TypeOK, CallTypeOK, envVars, callVars, postVars, outVars
  <2>4. PostTypeOK'
    BY <1>12 DEF PostExit, Goto, IInv, TypeOK, PostTypeOK, Time, NoTime, PcValues, Stats, PreCap, envVars, callVars, postVars, outVars
  <2>5. OutTypeOK'
    BY <1>12 DEF PostExit, Goto, IInv, TypeOK, OutTypeOK, envVars, callVars, postVars, outVars
  <2>6. ControlInv'
    BY <1>12 DEF PostExit, Goto, IInv, TypeOK, CallTypeOK, ControlInv, envVars, callVars, postVars, outVars
  <2>7. QED
    BY <1>12, <2>1, <2>2, <2>3, <2>4, <2>5, <2>6, RateUnchanged
    DEF PostExit, Goto, IInv, TypeOK, envVars, callVars, postVars, outVars
<1>13. ASSUME NEW c \in Callers, Admit(c) PROVE IInv'
  BY <1>13, AdmitIInv
<1>14. CASE Terminated \/ UNCHANGED vars
  BY <1>14, RateUnchanged
  DEF Terminated, vars, IInv, TypeOK, LimiterTypeOK, EnvTypeOK, CallTypeOK,
      PostTypeOK, OutTypeOK, ControlInv, envVars, callVars, postVars, outVars
<1>15. QED
  BY <1>1, <1>2, <1>3, <1>4, <1>5, <1>6, <1>7, <1>8, <1>9, <1>10, <1>11, <1>12, <1>13, <1>14 DEF Next, Caller, Post

(***************************************************************************)
(* The type invariant and the rate limiter's separation of admitted        *)
(* triggers hold in every state of every behaviour, for all constants.    *)
(***************************************************************************)
THEOREM TypeCorrect == Spec => []TypeOK
BY InitIInv, StepIInv, PTL DEF Spec, IInv

\* Two admissions for one destination are at least Interval apart.
THEOREM RateLimited == Spec => []RateSeparation
BY InitIInv, StepIInv, PTL DEF Spec, IInv

-----------------------------------------------------------------------------
(***************************************************************************)
(* Every step but Tick, DetectInit and Admit leaves the clock, the         *)
(* destinations, b.lastSent, the admissions and the readings alone.        *)
(***************************************************************************)
LEMMA QuietStep ==
  ASSUME NEW c \in Callers, Caller(c) \/ Post(c), ~DetectInit(c), ~Admit(c)
  PROVE  UNCHANGED <<clock, dst, lastSent, admitted, now>>
<1>1. CASE DetectNone(c) \/ Throttle(c) \/ SimplePreflight(c) \/ SendI1(c)
  BY <1>1 DEF DetectNone, Throttle, SimplePreflight, SendI1, envVars
<1>2. CASE SendSignature(c) \/ SendPreJunk(c) \/ SpawnPost(c) \/ Forward(c)
  BY <1>2 DEF SendSignature, SendPreJunk, SpawnPost, Forward, envVars
<1>3. CASE PostSend(c) \/ PostExit(c)
  BY <1>3 DEF PostSend, PostExit, envVars, callVars
<1>4. QED
  BY <1>1, <1>2, <1>3 DEF Caller, Post

=============================================================================
