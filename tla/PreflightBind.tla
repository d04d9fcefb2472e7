--------------------------- MODULE PreflightBind ---------------------------
(***************************************************************************)
(* The send path of preflightbind.Bind                                     *)
(* (src/wireguard/preflightbind/preflight_bind.go): concurrent calls of    *)
(* Bind.Send, each running maybePreflight (detection, the per-destination  *)
(* rate limiter under b.mu, the synchronous pre-handshake sequence) before *)
(* handing its batch to the inner bind, and the post-handshake goroutine   *)
(* each admitted sequence starts with "go".                                *)
(*                                                                         *)
(* Every write may fail (dial error, write deadline) and its failure is    *)
(* swallowed.  What the writes did is kept per call as counters: attempts  *)
(* of signature and junk packets, junk datagrams that reached the network *)
(* before and after the call, whether the batch was handed to the inner    *)
(* bind; and the signature packets that reached the network, in order, as *)
(* <<template index, resolution>>.  Sleeps and write deadlines are not     *)
(* modelled: they bound how long a step takes, not which steps follow.    *)
(* The clock is the reading time.Now() returns, in abstract ticks.         *)
(***************************************************************************)
EXTENDS Integers, Sequences, FiniteSets

CONSTANTS
  Callers,       \* goroutines calling Bind.Send, one call each
  Dsts,          \* destination IPs (ep.DstIP())
  Batches,       \* the batches a caller may pass to Send
  Interval,      \* b.interval, the rate-limit interval, in ticks
  MaxTime,       \* last clock tick of a behaviour
  HasConfig,     \* b.amneziaConfig # nil
  Sig,           \* I1..I5 as template kinds, Sig[1] = I1
  JcBeforeHS, Jc, JcAfterI1, JcAfterHS,   \* junk counts of AmneziaConfig
  JunkOutcomes   \* {"zero","data"}: lengths generateJunkPacket can return

(***************************************************************************)
(* A template is abstracted to what parseCPSPacket makes of it:            *)
(*   "empty"  the empty string: not sent;                                  *)
(*   "notag"  text without a <b>,<c>,<t>,<r> tag: resolves to nil;         *)
(*   "bad"    a tag parseCPSPacket rejects (bad hex, non-numeric <r>);     *)
(*   "static" only <b> tags: the same bytes on every resolution;           *)
(*   "random" an <r N> tag with N > 0: fresh bytes on every resolution.    *)
(***************************************************************************)
Templates == {"empty", "notag", "bad", "static", "random"}

\* A WireGuard buffer abstracted to its type byte and its length.
MessageInitiationType == 1
MessageInitiationSize == 148

NoTime == -1
Time == 0 .. MaxTime

ASSUME ConstantsAssumption ==
  /\ Interval \in Nat
  /\ MaxTime \in Nat
  /\ HasConfig \in BOOLEAN
  /\ Sig \in [1 .. 5 -> Templates]
  /\ Sig[1] # "bad"          \* NewWithAmnezia fails on a bad I1
  /\ {JcBeforeHS, Jc, JcAfterI1, JcAfterHS} \subseteq Int
  /\ JunkOutcomes \subseteq {"zero", "data"} /\ JunkOutcomes # {}
  /\ Batches \subseteq SUBSET [type : Nat, len : Nat]

\* handshakeInitiation(buf), lines 113-120.
handshakeInitiation(buf) ==
  /\ buf.len >= MessageInitiationSize
  /\ buf.type = MessageInitiationType

\* The scan over bufs in maybePreflight, lines 345-351.
SeenInit(bufs) == \E buf \in bufs : handshakeInitiation(buf)

\* Resolution of a template by parseCPSPacket: an error, nil, or bytes.
Resolves(t) == t \in {"static", "random"}

\* b.payload: I1 resolved once by NewWithAmnezia (lines 86-92), nonce 0.
PayloadSet == HasConfig /\ Resolves(Sig[1])

\* The cap of executeFastPreHandshakeSequence (lines 455-458).
PreCap == 3
\* Mutant: the cap of lines 456-458 dropped.
PreJunkCountUncapped == JcBeforeHS
PreJunkCount == IF JcBeforeHS > PreCap THEN PreCap ELSE JcBeforeHS

\* n copies of a stage label; empty when n <= 0 (sendJunkPackets returns).
Repeat(label, n) == [i \in 1 .. n |-> label]

\* The junk executePostHandshakeSequence sends, stage by stage (478-514).
\* Mutant: the goroutine resends one junk too few (JcBeforeHS - 4).
PostPlanOffByOne ==
  Repeat("beforeHS", JcBeforeHS - PreCap - 1) \o Repeat("jc", Jc)
    \o Repeat("afterI1", JcAfterI1) \o Repeat("afterHS", JcAfterHS)

PostPlan ==
  Repeat("beforeHS", JcBeforeHS - PreCap) \o Repeat("jc", Jc)
    \o Repeat("afterI1", JcAfterI1) \o Repeat("afterHS", JcAfterHS)

VARIABLES
  clock,      \* time.Now()
  lastSent,   \* b.lastSent: Dsts -> last admitted time, NoTime if absent
  dst,        \* ep.DstIP() of each caller's Send
  batch,      \* bufs of each caller's Send
  pc,         \* where each Send call is
  now,        \* the local "now" of maybePreflight
  sigIdx,     \* the loop index i of executeFastPreHandshakeSequence
  preLeft,    \* junk left in the synchronous sendJunkPackets call
  postPc,     \* state of the post-handshake goroutine of each call
  postIdx,    \* next PostPlan position of that goroutine
  draws,      \* resolutions of a random template so far (fresh bytes)
  sent,       \* history: what each call's writes did
  sigsOut,    \* history: signature packets on the network, in order
  admitted    \* history: the time each caller was admitted, or NoTime

envVars  == <<dst, batch>>
callVars == <<pc, now, sigIdx, preLeft>>
postVars == <<postPc, postIdx>>
outVars  == <<draws, sent, sigsOut>>
vars == <<clock, lastSent, admitted, envVars, callVars, postVars, outVars>>

PcValues == {"idle", "lock", "simple", "i1", "sig", "prejunk", "spawn",
             "forward", "done"}

Stats == [sigs : Nat, junk : Nat, preOut : Nat, postOut : Nat, real : BOOLEAN]

Init ==
  /\ clock = 0
  /\ lastSent = [d \in Dsts |-> NoTime]
  /\ dst \in [Callers -> Dsts]
  /\ batch \in [Callers -> Batches]
  /\ pc = [c \in Callers |-> "idle"]
  /\ now = [c \in Callers |-> 0]
  /\ sigIdx = [c \in Callers |-> 2]
  /\ preLeft = [c \in Callers |-> 0]
  /\ postPc = [c \in Callers |-> "none"]
  /\ postIdx = [c \in Callers |-> 1]
  /\ draws = 0
  /\ sent = [c \in Callers |->
               [sigs |-> 0, junk |-> 0, preOut |-> 0, postOut |-> 0,
                real |-> FALSE]]
  /\ sigsOut = <<>>
  /\ admitted = [c \in Callers |-> NoTime]

Goto(c, from, to) ==
  /\ pc[c] = from
  /\ pc' = [pc EXCEPT ![c] = to]

\* One write of signature I<i>, resolved to the bytes named by r.
WriteSig(c, i, r) ==
  /\ sent' = [sent EXCEPT ![c].sigs = @ + 1]
  /\ \/ sigsOut' = Append(sigsOut, <<i, r>>)
     \/ UNCHANGED sigsOut           \* the dial or the write failed

(***************************************************************************)
(* One junk packet of the call's synchronous part or of its goroutine:     *)
(* generateJunkPacket, then sendUDPPacket (lines 287-290, 300-316).  A     *)
(* zero-length packet goes through sendStandardZeroByte (lines 325-341),   *)
(* which writes it twice (a dialled conn, then a PacketConn), each write   *)
(* failing on its own; n datagrams reach the network.                      *)
(***************************************************************************)
SendJunk(c, field) ==
  \E o \in JunkOutcomes :
    \E n \in 0 .. (IF o = "zero" THEN 2 ELSE 1) :
      sent' = [sent EXCEPT ![c].junk = @ + 1, ![c][field] = @ + n]

-----------------------------------------------------------------------------
(***************************************************************************)
(* Actions of a Send call (lines 516-522) and of maybePreflight (343-376). *)
(***************************************************************************)

\* Time passes.
Tick ==
  /\ clock < MaxTime
  /\ clock' = clock + 1
  /\ UNCHANGED <<lastSent, admitted, envVars, callVars, postVars, outVars>>

\* Mutant: the type check of handshakeInitiation dropped, so any buffer of
\* initiation length starts a sequence.
DetectInitAny(c) ==
  /\ Goto(c, "idle", "lock")
  /\ \E buf \in batch[c] : buf.len >= MessageInitiationSize \/ buf.type = MessageInitiationType
  /\ now' = [now EXCEPT ![c] = clock]
  /\ UNCHANGED <<clock, lastSent, admitted, envVars, sigIdx, preLeft,
                 postVars, outVars>>

\* The batch holds a handshake initiation: now := time.Now() (line 356).
DetectInit(c) ==
  /\ Goto(c, "idle", "lock")
  /\ SeenInit(batch[c])
  /\ now' = [now EXCEPT ![c] = clock]
  /\ UNCHANGED <<clock, lastSent, admitted, envVars, sigIdx, preLeft,
                 postVars, outVars>>

\* No handshake initiation: maybePreflight returns (line 352).
DetectNone(c) ==
  /\ Goto(c, "idle", "forward")
  /\ ~SeenInit(batch[c])
  /\ UNCHANGED <<clock, lastSent, admitted, envVars, now, sigIdx, preLeft,
                 postVars, outVars>>

\* Mutant: the check is made but b.lastSent[dst] = now is never stored.
AdmitNoRecord(c) ==
  /\ pc[c] = "lock"
  /\ LET last == lastSent[dst[c]]
     IN  last = NoTime \/ now[c] - last >= Interval
  /\ admitted' = [admitted EXCEPT ![c] = now[c]]
  /\ pc' = [pc EXCEPT ![c] = IF HasConfig THEN "i1" ELSE "simple"]
  /\ UNCHANGED <<clock, lastSent, envVars, now, sigIdx, preLeft, postVars,
                 outVars>>

\* Mutant: the elapsed time taken as a magnitude, so a stale reading far
\* enough behind the last trigger also passes.
AdmitEitherOrder(c) ==
  /\ pc[c] = "lock"
  /\ LET last == lastSent[dst[c]]
     IN  last = NoTime \/ now[c] - last >= Interval \/ last - now[c] >= Interval
  /\ lastSent' = [lastSent EXCEPT ![dst[c]] = now[c]]
  /\ admitted' = [admitted EXCEPT ![c] = now[c]]
  /\ pc' = [pc EXCEPT ![c] = IF HasConfig THEN "i1" ELSE "simple"]
  /\ UNCHANGED <<clock, envVars, now, sigIdx, preLeft, postVars, outVars>>

\* Under b.mu: the last trigger is old enough (an absent entry is the zero
\* time, always old enough); record now (lines 357-364).
Admit(c) ==
  /\ pc[c] = "lock"
  /\ LET last == lastSent[dst[c]]
     IN  last = NoTime \/ now[c] - last >= Interval
  /\ lastSent' = [lastSent EXCEPT ![dst[c]] = now[c]]
  /\ admitted' = [admitted EXCEPT ![c] = now[c]]
  /\ pc' = [pc EXCEPT ![c] = IF HasConfig THEN "i1" ELSE "simple"]
  /\ UNCHANGED <<clock, envVars, now, sigIdx, preLeft, postVars, outVars>>

\* Under b.mu: too soon after the last trigger, return (lines 359-362).
Throttle(c) ==
  /\ pc[c] = "lock"
  /\ LET last == lastSent[dst[c]]
     IN  last # NoTime /\ now[c] - last < Interval
  /\ pc' = [pc EXCEPT ![c] = "forward"]
  /\ UNCHANGED <<clock, lastSent, admitted, envVars, now, sigIdx, preLeft,
                 postVars, outVars>>

\* executeSimplePreflight: one write of b.payload (lines 379-387); its
\* outcome is not observed by any property.
SimplePreflight(c) ==
  /\ Goto(c, "simple", "forward")
  /\ UNCHANGED <<clock, lastSent, admitted, envVars, now, sigIdx, preLeft,
                 postVars, outVars>>

\* executeMinimalPreHandshakeSequence step 1: write the payload resolved at
\* construction (resolution 0), if I1 is set and gave bytes (lines 396-406).
SendI1(c) ==
  /\ Goto(c, "i1", "sig")
  /\ IF PayloadSet THEN WriteSig(c, 1, 0) ELSE UNCHANGED <<sent, sigsOut>>
  /\ UNCHANGED <<clock, lastSent, admitted, envVars, now, sigIdx, preLeft,
                 postVars, draws>>

(***************************************************************************)
(* One iteration of the I2..I5 loop (lines 426-447): parse the template    *)
(* anew, skip it on an error or empty bytes, else write it.  After I5, the *)
(* capped junk of lines 450-460, or straight to the "go" of line 412.      *)
(***************************************************************************)
SendSignature(c) ==
  /\ pc[c] = "sig"
  /\ LET i == sigIdx[c] IN
     /\ CASE Sig[i] = "random" -> /\ draws' = draws + 1
                                  /\ WriteSig(c, i, draws + 1)
          [] Sig[i] = "static" -> /\ WriteSig(c, i, 0)
                                  /\ UNCHANGED draws
          [] OTHER             -> UNCHANGED outVars
     /\ sigIdx' = [sigIdx EXCEPT ![c] = i + 1]
     /\ IF i < 5
          THEN UNCHANGED <<pc, preLeft>>
          ELSE IF JcBeforeHS > 0
                 THEN /\ pc' = [pc EXCEPT ![c] = "prejunk"]
                      /\ preLeft' = [preLeft EXCEPT ![c] = PreJunkCount]
                 ELSE /\ pc' = [pc EXCEPT ![c] = "spawn"]
                      /\ UNCHANGED preLeft
  /\ UNCHANGED <<clock, lastSent, admitted, envVars, now, postVars>>

\* One packet of sendJunkPackets(host, criticalCount, fastDelay).
SendPreJunk(c) ==
  /\ pc[c] = "prejunk"
  /\ preLeft[c] > 0
  /\ SendJunk(c, "preOut")
  /\ preLeft' = [preLeft EXCEPT ![c] = @ - 1]
  /\ pc' = [pc EXCEPT ![c] = IF preLeft[c] = 1 THEN "spawn" ELSE "prejunk"]
  /\ UNCHANGED <<clock, lastSent, admitted, envVars, now, sigIdx, postVars,
                 draws, sigsOut>>

\* go b.executePostHandshakeSequence(host), then return (line 412).
SpawnPost(c) ==
  /\ Goto(c, "spawn", "forward")
  /\ postPc' = [postPc EXCEPT ![c] = "run"]
  /\ UNCHANGED <<clock, lastSent, admitted, envVars, now, sigIdx, preLeft,
                 postIdx, outVars>>

\* b.inner.Send(bufs, ep): the caller's batch, unmodified (line 521).
Forward(c) ==
  /\ Goto(c, "forward", "done")
  /\ sent' = [sent EXCEPT ![c].real = TRUE]
  /\ UNCHANGED <<clock, lastSent, admitted, envVars, now, sigIdx, preLeft,
                 postVars, draws, sigsOut>>

\* The post-handshake goroutine: the next junk packet of its plan.
PostSend(c) ==
  /\ postPc[c] = "run"
  /\ postIdx[c] <= Len(PostPlan)
  /\ SendJunk(c, "postOut")
  /\ postIdx' = [postIdx EXCEPT ![c] = @ + 1]
  /\ UNCHANGED <<clock, lastSent, admitted, envVars, callVars, postPc,
                 draws, sigsOut>>

\* The post-handshake goroutine returns.
PostExit(c) ==
  /\ postPc[c] = "run"
  /\ postIdx[c] > Len(PostPlan)
  /\ postPc' = [postPc EXCEPT ![c] = "done"]
  /\ UNCHANGED <<clock, lastSent, admitted, envVars, callVars, postIdx,
                 outVars>>

\* Every Send call has returned and every goroutine has exited.
Terminated ==
  /\ \A c \in Callers : pc[c] = "done" /\ postPc[c] # "run"
  /\ UNCHANGED vars

Caller(c) ==
  \/ DetectInit(c) \/ DetectNone(c) \/ Admit(c) \/ Throttle(c)
  \/ SimplePreflight(c) \/ SendI1(c) \/ SendSignature(c) \/ SendPreJunk(c)
  \/ SpawnPost(c) \/ Forward(c)

Post(c) == PostSend(c) \/ PostExit(c)

Next ==
  \/ Tick
  \/ \E c \in Callers : Caller(c) \/ Post(c)
  \/ Terminated

(***************************************************************************)
(* The Go scheduler eventually runs every runnable goroutine, and every    *)
(* write returns within its deadline: each caller and each post-handshake  *)
(* goroutine keeps making progress.  The clock needs no fairness.          *)
(***************************************************************************)
Fairness == \A c \in Callers : WF_vars(Caller(c)) /\ WF_vars(Post(c))

Spec == Init /\ [][Next]_vars /\ Fairness

-----------------------------------------------------------------------------
\* The type invariant, in one part per group of variables.
LimiterTypeOK ==
  /\ clock \in Time
  /\ lastSent \in [Dsts -> Time \cup {NoTime}]
  /\ admitted \in [Callers -> Time \cup {NoTime}]

EnvTypeOK == dst \in [Callers -> Dsts] /\ batch \in [Callers -> Batches]

CallTypeOK ==
  /\ pc \in [Callers -> PcValues]
  /\ now \in [Callers -> Time]
  /\ sigIdx \in [Callers -> 2 .. 6]
  /\ preLeft \in [Callers -> 0 .. PreCap]

PostTypeOK ==
  /\ postPc \in [Callers -> {"none", "run", "done"}]
  /\ postIdx \in [Callers -> 1 .. Len(PostPlan) + 1]

OutTypeOK ==
  /\ draws \in Nat
  /\ sent \in [Callers -> Stats]
  /\ sigsOut \in Seq((1 .. 5) \X Nat)

TypeOK == LimiterTypeOK /\ EnvTypeOK /\ CallTypeOK /\ PostTypeOK /\ OutTypeOK

(***************************************************************************)
(* The rate limiter's promise (spec 3, RateLimiterState): two admitted     *)
(* triggers for one destination are at least Interval apart, although     *)
(* each caller reads time.Now() before it takes b.mu and may be overtaken  *)
(* by a caller with a later reading.                                       *)
(***************************************************************************)
RateSeparation ==
  \A c1, c2 \in Callers :
    /\ c1 # c2 /\ dst[c1] = dst[c2]
    /\ admitted[c1] # NoTime /\ admitted[c2] # NoTime
    => \/ admitted[c1] - admitted[c2] >= Interval
       \/ admitted[c2] - admitted[c1] >= Interval

\* The counts the configuration asks for, negative counts sending nothing.
Pos(n) == IF n > 0 THEN n ELSE 0
ConfiguredJunk == Pos(JcBeforeHS) + Pos(Jc) + Pos(JcAfterI1) + Pos(JcAfterHS)
ConfiguredSigs == Cardinality({i \in 1 .. 5 : Resolves(Sig[i])})

(***************************************************************************)
(* Every admitted Amnezia sequence eventually attempts exactly the         *)
(* configured decoys: one packet per resolvable I1..I5 and                 *)
(* JcBeforeHS + Jc + JcAfterI1 + JcAfterHS junk packets, split between the *)
(* synchronous prefix and the goroutine, whatever writes fail.             *)
(***************************************************************************)
DecoysEventuallyAttempted ==
  \A c \in Callers :
    <>[](admitted[c] # NoTime /\ HasConfig =>
           sent[c].junk = ConfiguredJunk /\ sent[c].sigs = ConfiguredSigs)

(***************************************************************************)
(* Spec 4.3 and 8: the post-handshake junk of a sequence reaches the       *)
(* network only after the call handed the real handshake to the inner     *)
(* bind.                                                                   *)
(***************************************************************************)
PostAfterReal == \A c \in Callers : sent[c].postOut > 0 => sent[c].real

(***************************************************************************)
(* Spec 3 (ResolvedPacket is never cached): a signature template with a    *)
(* random tag puts fresh bytes on the network each time it is sent.        *)
(***************************************************************************)
SignaturesFresh ==
  \A i, j \in DOMAIN sigsOut :
    i # j /\ Sig[sigsOut[i][1]] = "random" => sigsOut[i] # sigsOut[j]

(***************************************************************************)
(* Spec 4.3 step 3 and section 9's bounded latency: the synchronous junk   *)
(* train of a call (sendJunkPackets with criticalCount, lines 450-460,     *)
(* run inside Send before the go statement and inner.Send) writes at most *)
(* PreCap junk datagrams.  The goroutine's junk is not counted here:       *)
(* whether it precedes the real handshake is what PostAfterReal asks.      *)
(***************************************************************************)
PreJunkBound == \A c \in Callers : sent[c].preOut <= PreCap

(***************************************************************************)
(* b.lastSent never moves backwards and an entry is never removed: a       *)
(* caller whose time.Now() reading was taken before b.mu, and overtaken by *)
(* a later admission, can never overwrite the newer trigger with its older *)
(* reading (lines 356-364).                                                *)
(***************************************************************************)
LastSentMonotone ==
  \A d \in Dsts :
    lastSent[d] # NoTime => lastSent'[d] # NoTime /\ lastSent'[d] >= lastSent[d]

LastSentNeverBack == [][LastSentMonotone]_vars

(***************************************************************************)
(* Where a Send call is, in the phases of spec 4.3: detection and the      *)
(* wait for b.mu are Idle; everything from the admission to the "go" of    *)
(* line 412 is the synchronous PreHandshake; then InitiationForward.       *)
(***************************************************************************)
PhaseOf(p) ==
  CASE p \in {"idle", "lock"} -> "idle"
    [] p \in {"simple", "i1", "sig", "prejunk", "spawn"} -> "pre"
    [] p = "forward" -> "forward"
    [] OTHER -> "done"

\* Junk attempts of a call made before its goroutine started: sent[c].junk
\* counts both, and the goroutine's are postIdx[c] - 1.
PreJunkTried(c) == sent[c].junk - (postIdx[c] - 1)

\* The orchestrator's state, seen through the Send calls.
OrchPhase    == [c \in Callers |-> PhaseOf(pc[c])]
OrchPreSigs  == [c \in Callers |-> sent[c].sigs]
OrchPreJunk  == [c \in Callers |-> PreJunkTried(c)]
OrchPostJunk == [c \in Callers |-> postIdx[c] - 1]
OrchReal     == [c \in Callers |-> sent[c].real]

(***************************************************************************)
(* Concurrent Send calls implement the orchestrator of spec 4.3: a         *)
(* sequence starts only for a batch with a handshake initiation; the       *)
(* synchronous part attempts at most I1..I5 and PreCap junk packets, all   *)
(* before the batch is forwarded; the goroutine is launched once, as the   *)
(* Amnezia sequence returns and never by executeSimplePreflight; its junk  *)
(* is sent only while it runs.                                             *)
(***************************************************************************)
Orch == INSTANCE Orchestrator
          WITH Callers <- Callers, Batches <- Batches,
               Triggers <- {b \in Batches : SeenInit(b)},
               HasConfig <- HasConfig, SigCap <- 5, JunkCap <- PreCap,
               batch <- batch, phase <- OrchPhase, post <- postPc,
               preSigs <- OrchPreSigs, preJunk <- OrchPreJunk,
               postJunk <- OrchPostJunk, real <- OrchReal

OrchestratorRefined == Orch!Spec

-----------------------------------------------------------------------------
(***************************************************************************)
(* The strengthening of TypeOK /\ RateSeparation that PreflightBindProofs  *)
(* shows inductive.  ControlInv: a call is admitted at most once (it is    *)
(* not admitted before it leaves "lock"), and the I2..I5 loop index stays  *)
(* inside 2..5 while the loop runs.  RateInv: every admitted time of a     *)
(* destination is at most the time b.lastSent holds for it, so a new      *)
(* admission, at least Interval after lastSent, is Interval after all.     *)
(***************************************************************************)
ControlInv ==
  \A c \in Callers :
    /\ pc[c] \in {"idle", "lock"} => admitted[c] = NoTime
    /\ pc[c] \in {"idle", "lock", "simple", "i1"} => sigIdx[c] = 2
    /\ pc[c] = "sig" => sigIdx[c] \in 2 .. 5

RateInv ==
  \A c \in Callers :
    admitted[c] # NoTime =>
      /\ lastSent[dst[c]] # NoTime
      /\ admitted[c] <= lastSent[dst[c]]

(***************************************************************************)
(* The strengthening of PreJunkBound: the junk datagrams of the            *)
(* synchronous train plus the packets it has left never exceed the cap;    *)
(* nothing is left outside the train, and nothing was sent before it.      *)
(***************************************************************************)
PreJunkInv ==
  \A c \in Callers :
    /\ sent[c].preOut + preLeft[c] <= PreCap
    /\ pc[c] # "prejunk" => preLeft[c] = 0
    /\ pc[c] \in {"idle", "lock", "simple", "i1", "sig"} => sent[c].preOut = 0

(***************************************************************************)
(* What the refinement to Orchestrator needs beyond ControlInv: a call     *)
(* waits for b.mu only with an initiation in its batch; the path taken on  *)
(* admission matches HasConfig; the goroutine is not started before the   *)
(* call leaves the synchronous part, and has sent nothing before it       *)
(* starts; signature attempts stay behind the loop index; and the junk of *)
(* the synchronous train plus what it has left stay within the cap.       *)
(***************************************************************************)
OrchInv ==
  \A c \in Callers :
    /\ pc[c] = "lock" => SeenInit(batch[c])
    /\ pc[c] = "simple" => ~HasConfig
    /\ pc[c] \in {"i1", "sig", "prejunk", "spawn"} => HasConfig
    /\ pc[c] \notin {"forward", "done"} => postPc[c] = "none"
    /\ postPc[c] = "none" => postIdx[c] = 1
    /\ pc[c] \in {"idle", "lock", "simple", "i1"} => sent[c].sigs = 0
    /\ pc[c] = "sig" => sent[c].sigs <= sigIdx[c] - 1
    /\ sent[c].sigs <= 5
    /\ PreJunkTried(c) >= 0
    /\ PreJunkTried(c) + preLeft[c] <= PreCap
    /\ pc[c] # "prejunk" => preLeft[c] = 0
    /\ pc[c] \in {"idle", "lock", "simple", "i1", "sig"} => PreJunkTried(c) = 0

IInv == TypeOK /\ ControlInv /\ RateInv /\ RateSeparation

=============================================================================
