---------------------- MODULE PreflightBindSendProofs ----------------------
(***************************************************************************)
(* Proofs about what a Send call puts on the network, for every value of   *)
(* the constants: b.lastSent never moves backwards (LastSentNeverBack),    *)
(* and, when generateJunkPacket cannot return a zero-length packet, the    *)
(* synchronous train of a call writes at most PreCap junk datagrams        *)
(* (PreJunkBound).                                                         *)
(***************************************************************************)
EXTENDS PreflightBindProofs

\* The control states of a call before its synchronous junk train.
EarlyPcs == {"idle", "lock", "simple", "i1", "sig"}

(***************************************************************************)
(* What the writes do to the history sent: a signature write counts an    *)
(* attempt of caller c and touches nothing else that is observed.          *)
(***************************************************************************)
LEMMA WriteSigSent ==
  ASSUME OutTypeOK, NEW c \in Callers, NEW i, NEW r, WriteSig(c, i, r)
  PROVE  /\ \A x \in Callers \ {c} : sent'[x] = sent[x]
         /\ sent'[c].real = sent[c].real
         /\ sent'[c].preOut = sent[c].preOut
         /\ sent'[c].sigs = sent[c].sigs + 1
         /\ sent'[c].junk = sent[c].junk
<1>1. sent[c] \in Stats
  BY DEF OutTypeOK
<1>2. sent[c] = [sigs |-> sent[c].sigs, junk |-> sent[c].junk,
                 preOut |-> sent[c].preOut, postOut |-> sent[c].postOut,
                 real |-> sent[c].real]
  BY <1>1 DEF Stats
<1>3. sent' = [sent EXCEPT ![c] = [sent[c] EXCEPT !.sigs = @ + 1]]
  BY DEF WriteSig
<1>4. [sent[c] EXCEPT !.sigs = @ + 1]
        = [sigs |-> sent[c].sigs + 1, junk |-> sent[c].junk,
           preOut |-> sent[c].preOut, postOut |-> sent[c].postOut,
           real |-> sent[c].real]
  BY <1>2
<1>5. QED
  BY <1>3, <1>4 DEF OutTypeOK

\* inner.Send marks the batch forwarded and touches nothing else observed.
LEMMA ForwardSent ==
  ASSUME OutTypeOK, NEW c \in Callers, Forward(c)
  PROVE  /\ \A x \in Callers \ {c} : sent'[x] = sent[x]
         /\ sent'[c].real = TRUE
         /\ sent'[c].preOut = sent[c].preOut
         /\ sent'[c].sigs = sent[c].sigs
         /\ sent'[c].junk = sent[c].junk
<1>1. sent[c] \in Stats
  BY DEF OutTypeOK
<1>2. sent[c] = [sigs |-> sent[c].sigs, junk |-> sent[c].junk,
                 preOut |-> sent[c].preOut, postOut |-> sent[c].postOut,
                 real |-> sent[c].real]
  BY <1>1 DEF Stats
<1>3. sent' = [sent EXCEPT ![c] = [sent[c] EXCEPT !.real = TRUE]]
  BY DEF Forward
<1>4. /\ [sent[c] EXCEPT !.real = TRUE].real = TRUE
      /\ [sent[c] EXCEPT !.real = TRUE].preOut = sent[c].preOut
      /\ [sent[c] EXCEPT !.real = TRUE].sigs = sent[c].sigs
      /\ [sent[c] EXCEPT !.real = TRUE].junk = sent[c].junk
  BY <1>2, Zenon
<1>5. QED
  BY <1>3, <1>4 DEF OutTypeOK

(***************************************************************************)
(* One junk packet adds n datagrams to the field of caller c, with n at    *)
(* most 1 unless generateJunkPacket can return a zero-length packet (which *)
(* sendStandardZeroByte writes twice).                                     *)
(***************************************************************************)
LEMMA SendJunkSent ==
  ASSUME OutTypeOK, NEW c \in Callers, NEW field \in {"preOut", "postOut"},
         SendJunk(c, field)
  PROVE  \E n \in 0 .. 2 :
           /\ "zero" \notin JunkOutcomes => n \in 0 .. 1
           /\ \A x \in Callers \ {c} : sent'[x] = sent[x]
           /\ sent'[c].real = sent[c].real
           /\ sent'[c].preOut = IF field = "preOut" THEN sent[c].preOut + n
                                                    ELSE sent[c].preOut
           /\ sent'[c].sigs = sent[c].sigs
           /\ sent'[c].junk = sent[c].junk + 1
<1>1. PICK o \in JunkOutcomes :
        \E n \in 0 .. (IF o = "zero" THEN 2 ELSE 1) :
          sent' = [sent EXCEPT ![c].junk = @ + 1, ![c][field] = @ + n]
  BY DEF SendJunk
<1>2. PICK n \in 0 .. (IF o = "zero" THEN 2 ELSE 1) :
        sent' = [sent EXCEPT ![c].junk = @ + 1, ![c][field] = @ + n]
  BY <1>1
<1>3. n \in 0 .. 2 /\ ("zero" \notin JunkOutcomes => n \in 0 .. 1)
  BY <1>1, <1>2
<1>4. sent[c] \in Stats
  BY DEF OutTypeOK
<1>5. /\ sent' = [sent EXCEPT ![c] = sent'[c]]
      /\ sent'[c] = [sent[c] EXCEPT !.junk = @ + 1, ![field] = @ + n]
  BY <1>2, <1>4 DEF OutTypeOK
<1>6. sent[c] = [sigs |-> sent[c].sigs, junk |-> sent[c].junk,
                 preOut |-> sent[c].preOut, postOut |-> sent[c].postOut,
                 real |-> sent[c].real]
  BY <1>4 DEF Stats
<1>7. \A x \in Callers \ {c} : sent'[x] = sent[x]
  BY <1>5 DEF OutTypeOK
<1>8. CASE field = "preOut"
  <2>1. sent'[c] = [sent[c] EXCEPT !.junk = @ + 1, !.preOut = @ + n]
    BY <1>5, <1>8
  <2>2. sent'[c] = [sigs |-> sent[c].sigs, junk |-> sent[c].junk + 1,
                    preOut |-> sent[c].preOut + n, postOut |-> sent[c].postOut,
                    real |-> sent[c].real]
    BY <1>6, <2>1
  <2>3. QED
    BY <1>3, <1>7, <1>8, <2>2
<1>9. CASE field = "postOut"
  <2>1. sent'[c] = [sent[c] EXCEPT !.junk = @ + 1, !.postOut = @ + n]
    BY <1>5, <1>9
  <2>2. sent'[c] = [sigs |-> sent[c].sigs, junk |-> sent[c].junk + 1,
                    preOut |-> sent[c].preOut, postOut |-> sent[c].postOut + n,
                    real |-> sent[c].real]
    BY <1>6, <2>1
  <2>3. QED
    BY <1>3, <1>7, <1>9, <2>2
<1>10. QED
  BY <1>8, <1>9


-----------------------------------------------------------------------------
(***************************************************************************)
(* Every step keeps b.lastSent monotone: only Admit writes it, and its     *)
(* guard (now - last >= Interval, with Interval >= 0) makes the stored     *)
(* reading at least the one it replaces, however stale it is.             *)
(***************************************************************************)
LEMMA LastSentStep == TypeOK /\ [Next]_vars => LastSentMonotone
<1> SUFFICES ASSUME TypeOK, [Next]_vars PROVE LastSentMonotone
  OBVIOUS
<1>1. ASSUME NEW c \in Callers, Admit(c) PROVE LastSentMonotone
  <2>1. SUFFICES ASSUME NEW d \in Dsts, lastSent[d] # NoTime
                 PROVE  lastSent'[d] # NoTime /\ lastSent'[d] >= lastSent[d]
    BY DEF LastSentMonotone
  <2>2. CASE d = dst[c]
    <3>1. lastSent'[d] = now[c] /\ now[c] \in Time /\ lastSent[d] \in Time
      BY <1>1, <2>1, <2>2 DEF Admit, TypeOK, LimiterTypeOK, EnvTypeOK,
         CallTypeOK
    <3>2. now[c] - lastSent[d] >= Interval
      BY <1>1, <2>1, <2>2 DEF Admit
    <3>3. QED
      BY <3>1, <3>2, ConstantsAssumption DEF Time, NoTime
  <2>3. CASE d # dst[c]
    BY <1>1, <2>1, <2>3 DEF Admit, TypeOK, LimiterTypeOK, Time, NoTime
  <2>4. QED
    BY <2>2, <2>3
<1>2. UNCHANGED lastSent => LastSentMonotone
  BY DEF LastSentMonotone, TypeOK, LimiterTypeOK, Time, NoTime
<1>3. ASSUME NEW c \in Callers, Caller(c) \/ Post(c), ~DetectInit(c),
             ~Admit(c)
      PROVE  UNCHANGED lastSent
  BY <1>3, QuietStep
<1>4. ASSUME NEW c \in Callers, DetectInit(c) PROVE UNCHANGED lastSent
  BY <1>4 DEF DetectInit
<1>5. ASSUME Tick \/ Terminated \/ UNCHANGED vars PROVE UNCHANGED lastSent
  BY <1>5 DEF Tick, Terminated, vars
<1>6. QED
  BY <1>1, <1>2, <1>3, <1>4, <1>5 DEF Next

(***************************************************************************)
(* b.lastSent never moves backwards and no entry is removed, although the  *)
(* reading stored by maybePreflight was taken before b.mu (lines 356-364). *)
(***************************************************************************)
THEOREM LastSentNeverBackwards == Spec => LastSentNeverBack
<1>1. TypeOK /\ [Next]_vars => [LastSentMonotone]_vars
  BY LastSentStep
<1>2. QED
  BY <1>1, TypeCorrect, PTL DEF Spec, LastSentNeverBack

-----------------------------------------------------------------------------
-----------------------------------------------------------------------------
\* PreJunkInv for one caller.
PreJunkAt(e) ==
  /\ sent[e].preOut + preLeft[e] <= PreCap
  /\ pc[e] # "prejunk" => preLeft[e] = 0
  /\ pc[e] \in EarlyPcs => sent[e].preOut = 0

(***************************************************************************)
(* A step that keeps the junk train and its datagrams, and moves at most   *)
(* one call between two states outside the train, without entering the     *)
(* states before it from a later one, keeps PreJunkInv.                    *)
(***************************************************************************)
LEMMA PcMove ==
  ASSUME TypeOK, PreJunkInv, NEW c \in Callers, NEW v,
         pc' = [pc EXCEPT ![c] = v],
         pc[c] # "prejunk", v # "prejunk", v \in EarlyPcs => pc[c] \in EarlyPcs,
         UNCHANGED preLeft, \A x \in Callers : sent'[x].preOut = sent[x].preOut
  PROVE  PreJunkInv'
<1>1. SUFFICES ASSUME NEW e \in Callers PROVE PreJunkAt(e)'
  BY DEF PreJunkInv, PreJunkAt, EarlyPcs
<1>2. PreJunkAt(e)
  BY DEF PreJunkInv, PreJunkAt, EarlyPcs
<1>3. pc \in [Callers -> PcValues]
  BY DEF TypeOK, CallTypeOK
<1>4. CASE e = c
  BY <1>2, <1>3, <1>4 DEF PreJunkAt
<1>5. CASE e # c
  BY <1>2, <1>3, <1>5 DEF PreJunkAt
<1>6. QED
  BY <1>4, <1>5

\* A step that moves no call and keeps the train and its datagrams.
LEMMA PcStay ==
  ASSUME PreJunkInv, UNCHANGED <<pc, preLeft>>,
         \A x \in Callers : sent'[x].preOut = sent[x].preOut
  PROVE  PreJunkInv'
BY DEF PreJunkInv

(***************************************************************************)
(* With no zero-length junk, each step keeps PreJunkInv: the I5 step of    *)
(* the loop starts the train with at most PreCap packets and no datagram   *)
(* out yet; each packet of the train puts at most one datagram out and     *)
(* uses up one packet.                                                     *)
(***************************************************************************)
LEMMA PreJunkStep ==
  ASSUME "zero" \notin JunkOutcomes
  PROVE  TypeOK /\ PreJunkInv /\ [Next]_vars => PreJunkInv'
<1> SUFFICES ASSUME TypeOK, PreJunkInv, [Next]_vars PROVE PreJunkInv'
  OBVIOUS
<1>0. /\ OutTypeOK /\ pc \in [Callers -> PcValues]
      /\ preLeft \in [Callers -> 0 .. PreCap]
  BY DEF TypeOK, CallTypeOK
<1>1. ASSUME NEW c \in Callers, DetectInit(c) \/ DetectNone(c) \/ Throttle(c)
      PROVE  PreJunkInv'
  <2>1. pc[c] \in {"idle", "lock"}
    BY <1>1 DEF DetectInit, DetectNone, Throttle, Goto
  <2>2. \E v \in {"lock", "forward"} : pc' = [pc EXCEPT ![c] = v]
    BY <1>1 DEF DetectInit, DetectNone, Throttle, Goto
  <2>3. UNCHANGED <<preLeft, sent>>
    BY <1>1 DEF DetectInit, DetectNone, Throttle, outVars
  <2>4. QED
    BY <2>1, <2>2, <2>3, PcMove DEF EarlyPcs
<1>2. ASSUME NEW c \in Callers, Admit(c) PROVE PreJunkInv'
  <2>1. pc[c] = "lock" /\ pc' = [pc EXCEPT ![c] = IF HasConfig THEN "i1" ELSE "simple"]
    BY <1>2 DEF Admit
  <2>2. UNCHANGED <<preLeft, sent>>
    BY <1>2 DEF Admit, outVars
  <2>3. QED
    BY <2>1, <2>2, PcMove DEF EarlyPcs
<1>3. ASSUME NEW c \in Callers, SimplePreflight(c) \/ SpawnPost(c)
      PROVE  PreJunkInv'
  <2>1. pc[c] \in {"simple", "spawn"} /\ pc' = [pc EXCEPT ![c] = "forward"]
    BY <1>3 DEF SimplePreflight, SpawnPost, Goto
  <2>2. UNCHANGED <<preLeft, sent>>
    BY <1>3 DEF SimplePreflight, SpawnPost, outVars
  <2>3. QED
    BY <2>1, <2>2, PcMove DEF EarlyPcs
<1>4. ASSUME NEW c \in Callers, SendI1(c) PROVE PreJunkInv'
  <2>1. pc[c] = "i1" /\ pc' = [pc EXCEPT ![c] = "sig"] /\ UNCHANGED preLeft
    BY <1>4 DEF SendI1, Goto
  <2>2. \A x \in Callers : sent'[x].preOut = sent[x].preOut
    <3>1. CASE PayloadSet
      BY <1>0, <1>4, <3>1, WriteSigSent DEF SendI1
    <3>2. CASE ~PayloadSet
      BY <1>4, <3>2 DEF SendI1
    <3>3. QED
      BY <3>1, <3>2
  <2>3. QED
    BY <2>1, <2>2, PcMove DEF EarlyPcs
<1>5. ASSUME NEW c \in Callers, Forward(c) PROVE PreJunkInv'
  <2>1. pc[c] = "forward" /\ pc' = [pc EXCEPT ![c] = "done"] /\ UNCHANGED preLeft
    BY <1>5 DEF Forward, Goto
  <2>2. \A x \in Callers : sent'[x].preOut = sent[x].preOut
    BY <1>0, <1>5, ForwardSent
  <2>3. QED
    BY <2>1, <2>2, PcMove DEF EarlyPcs
<1>6. ASSUME NEW c \in Callers, SendSignature(c) PROVE PreJunkInv'
  <2> DEFINE i == sigIdx[c]
  <2>1. pc[c] = "sig"
    BY <1>6 DEF SendSignature
  <2>2. \A x \in Callers : sent'[x].preOut = sent[x].preOut
    <3>1. CASE Sig[i] = "random"
      BY <1>0, <1>6, <3>1, WriteSigSent DEF SendSignature
    <3>2. CASE Sig[i] = "static"
      BY <1>0, <1>6, <3>2, WriteSigSent DEF SendSignature
    <3>3. CASE Sig[i] # "random" /\ Sig[i] # "static"
      BY <1>6, <3>3 DEF SendSignature, outVars
    <3>4. QED
      BY <3>1, <3>2, <3>3
  <2>3. CASE UNCHANGED <<pc, preLeft>>
    BY <2>2, <2>3, PcStay
  <2>4. CASE pc' = [pc EXCEPT ![c] = "spawn"] /\ UNCHANGED preLeft
    BY <2>1, <2>2, <2>4, PcMove DEF EarlyPcs
  <2>5. CASE /\ JcBeforeHS > 0
             /\ pc' = [pc EXCEPT ![c] = "prejunk"]
             /\ preLeft' = [preLeft EXCEPT ![c] = PreJunkCount]
    <3>1. SUFFICES ASSUME NEW e \in Callers PROVE PreJunkAt(e)'
      BY DEF PreJunkInv, PreJunkAt, EarlyPcs
    <3>2. PreJunkAt(e)
      BY DEF PreJunkInv, PreJunkAt, EarlyPcs
    <3>3. CASE e = c
      <4>1. sent[c].preOut = 0
        BY <2>1, <3>2, <3>3 DEF PreJunkAt, EarlyPcs
      <4>2. PreJunkCount \in 0 .. PreCap
        BY <2>5, ConstantsAssumption DEF PreJunkCount, PreCap
      <4>3. QED
        BY <1>0, <2>2, <2>5, <3>3, <4>1, <4>2 DEF PreJunkAt, EarlyPcs
    <3>4. CASE e # c
      BY <1>0, <2>2, <2>5, <3>2, <3>4 DEF PreJunkAt
    <3>5. QED
      BY <3>3, <3>4
  <2>6. QED
    BY <1>6, <2>3, <2>4, <2>5 DEF SendSignature
<1>7. ASSUME NEW c \in Callers, SendPreJunk(c) PROVE PreJunkInv'
  <2>1. /\ pc[c] = "prejunk" /\ preLeft[c] > 0
        /\ preLeft' = [preLeft EXCEPT ![c] = @ - 1]
        /\ pc' = [pc EXCEPT ![c] = IF preLeft[c] = 1 THEN "spawn" ELSE "prejunk"]
    BY <1>7 DEF SendPreJunk
  <2>2. PICK n \in 0 .. 2 :
          /\ "zero" \notin JunkOutcomes => n \in 0 .. 1
          /\ \A x \in Callers \ {c} : sent'[x] = sent[x]
          /\ sent'[c].preOut = sent[c].preOut + n
    BY <1>0, <1>7, SendJunkSent DEF SendPreJunk
  <2>3. n \in 0 .. 1
    BY <2>2
  <2>4. SUFFICES ASSUME NEW e \in Callers PROVE PreJunkAt(e)'
    BY DEF PreJunkInv, PreJunkAt, EarlyPcs
  <2>5. PreJunkAt(e)
    BY DEF PreJunkInv, PreJunkAt, EarlyPcs
  <2>6. CASE e = c
    <3>1. sent[c].preOut \in Nat
      BY <1>0 DEF OutTypeOK, Stats
    <3>2. QED
      BY <1>0, <2>1, <2>2, <2>3, <2>5, <2>6, <3>1 DEF PreJunkAt, EarlyPcs, PreCap
  <2>7. CASE e # c
    BY <1>0, <2>1, <2>2, <2>5, <2>7 DEF PreJunkAt
  <2>8. QED
    BY <2>6, <2>7
<1>8. ASSUME NEW c \in Callers, PostSend(c) PROVE PreJunkInv'
  <2>1. UNCHANGED <<pc, preLeft>>
    BY <1>8 DEF PostSend, callVars
  <2>2. \A x \in Callers : sent'[x].preOut = sent[x].preOut
    BY <1>0, <1>8, SendJunkSent DEF PostSend
  <2>3. QED
    BY <2>1, <2>2, PcStay
<1>9. CASE Tick \/ Terminated \/ UNCHANGED vars \/ \E c \in Callers : PostExit(c)
  BY <1>9 DEF Tick, Terminated, vars, PostExit, callVars, outVars, PreJunkInv
<1>10. QED
  BY <1>1, <1>2, <1>3, <1>4, <1>5, <1>6, <1>7, <1>8, <1>9 DEF Next, Caller, Post

(***************************************************************************)
(* Spec 4.3 step 3: when generateJunkPacket cannot return a zero-length    *)
(* packet (Jmin >= 1, or AllowZeroSize false and Jmax >= 1), the            *)
(* synchronous junk train of a call (lines 450-460, before the go          *)
(* statement and inner.Send) writes at most PreCap junk datagrams.  The    *)
(* goroutine's junk is not bounded here.  A zero-length packet is written  *)
(* twice by sendStandardZeroByte, which is why the hypothesis is needed    *)
(* (run bind_zero_junk).                                                   *)
(***************************************************************************)
THEOREM PreJunkBounded ==
  ASSUME "zero" \notin JunkOutcomes
  PROVE  Spec => []PreJunkBound
<1>1. Init => PreJunkInv
  BY DEF Init, PreJunkInv, PreCap
<1>2. TypeOK /\ PreJunkInv /\ [Next]_vars => PreJunkInv'
  BY PreJunkStep
<1>3. TypeOK /\ PreJunkInv => PreJunkBound
  <2> SUFFICES ASSUME TypeOK, PreJunkInv, NEW c \in Callers
               PROVE  sent[c].preOut <= PreCap
    BY DEF PreJunkBound
  <2>1. preLeft[c] \in 0 .. PreCap /\ sent[c] \in Stats
    BY DEF TypeOK, CallTypeOK, OutTypeOK
  <2>2. sent[c].preOut \in Nat /\ sent[c].preOut + preLeft[c] <= PreCap
    BY <2>1 DEF Stats, PreJunkInv
  <2>3. QED
    BY <2>1, <2>2 DEF PreCap
<1>4. QED
  BY <1>1, <1>2, <1>3, TypeCorrect, PTL DEF Spec

=============================================================================
