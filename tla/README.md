# Formal model of `preflightbind` (Vwarp)

This directory holds TLA+ models of `src/wireguard/preflightbind/preflight_bind.go`,
the obfuscation layer that wraps WireGuard's `conn.Bind`, and the TLC runs and
TLAPS proofs about them. `spec.md` (at the repository root) describes what the
code is meant to do. Every definition here is translated from the Go source;
the spec is used only to state properties.

## The system

`Bind` decorates an inner `conn.Bind`. `Open`, `Close`, `SetMark`,
`ParseEndpoint` and `BatchSize` just delegate (lines 104-108). `Send`
(516-522) calls `maybePreflight`, then hands the batch to `inner.Send`.

`maybePreflight` (343-376) does the following:

1. It scans the batch for a handshake initiation (`handshakeInitiation`, 113-120).
2. It reads `time.Now()`.
3. It takes `b.mu` and checks `b.lastSent[dst]` against `b.interval`. It either returns or stores `now`.
4. It runs one of two sequences:
   - `executeSimplePreflight` (no Amnezia config): one write of `b.payload`.
   - `executeMinimalPreHandshakeSequence` (with a config): described below.

`executeMinimalPreHandshakeSequence` runs these steps:

1. It writes I1. The bytes are `b.payload`, resolved once by `NewWithAmnezia`.
2. It parses and writes I2..I5.
3. It sends at most 3 of the JcBeforeHS junk packets synchronously.
4. It starts `go executePostHandshakeSequence`. That goroutine sends the rest of JcBeforeHS, then Jc, then JcAfterI1, then JcAfterHS.

A junk packet's length comes from `generateJunkPacket` (207-277). A
zero-length packet is sent by `sendStandardZeroByte` (325-341), which writes
it twice. Every dial and write may fail, and every failure is swallowed.

The parts interact through one piece of shared mutable state: `b.lastSent`,
under `b.mu`. The immutable configuration and `b.payload` are shared without
a lock. So is the global `rng`, which is a data race.

## Modules

| Module | Models | State | Actions |
|---|---|---|---|
| `JunkGen` | `generateJunkPacket` (207-277) | none (operators) | `generateJunkPacket(min, max, allowZero, W)` is the set of lengths one call can return, or `Panic` |
| `MCJunkGen` | harness: configuration fixed, one generation per step | `jmin, jmax, allowZero, out` | `Generate` |
| `PreflightBind` | `Send`, `maybePreflight`, both preflight sequences, `sendJunkPackets`, `sendUDPPacket`, `sendStandardZeroByte`, the post goroutine | see below | see below |
| `MCPreflightBind` | instance: callers, destinations, batches, templates, and the junk outcomes `JunkGen` allows for Jmin/Jmax | — | — |
| `CpsParser` | `parseCPSPacket` (127-204), the template check of `NewWithAmnezia` (82-92), and spec 4.1/7's resolution as a reference | none (operators) | `parseCPSPacket(t, W)`, `ParseOutcomes`, `NewWithAmnezia`, `TemplateKind`; `SpecResolve`, `SpecNew` |
| `MCCpsParser` | harness: one template and one configuration fixed at the start | `tmpl, cfg, result, built` | `Resolve`, `Construct` |
| `Orchestrator` | abstract specification of the sequence orchestrator (spec 4.3) | `batch, phase, post, preSigs, preJunk, postJunk, real` | `Pass`, `Trigger`, `PreSig`, `PreJunk`, `Launch`, `Return`, `Deliver`, `PostJunk`, `PostEnd` (per caller) |
| `PreflightBindProofs` | TLAPS proofs about `PreflightBind` | — | — |
| `PreflightBindSendProofs` | TLAPS proofs about the sends of `PreflightBind`: `PreJunkBound`, `LastSentNeverBack` | — | — |
| `PreflightBindOrchestratorProofs` | TLAPS proofs that `PreflightBind` implements `Orchestrator` (`OrchestratorRefined`) and keeps `OrchInv` | — | — |
| `JunkGenProofs` | TLAPS proofs of `generateJunkPacket` against spec 4.2, and of `GeneratorMatchesSpec` for `MCJunkGen` | — | — |

### PreflightBind: state and actions

**State.** Each caller `c` is one goroutine that calls `Send` once. Its state is:

- `pc[c]`: where the call is.
- `now[c]`: its `time.Now()` reading.
- `sigIdx[c]`: the loop index of the I2..I5 loop.
- `preLeft[c]`: the junk still to send synchronously.
- `dst[c]` and `batch[c]`: its inputs.

The post goroutine of each call has `postPc[c]` and `postIdx[c]`, its position in `PostPlan`. The stages of `PostPlan` are read off lines 491-513.

Shared state:

- `lastSent`: `b.lastSent`. `NoTime` stands for an absent key, which Go reads as the zero time.
- `clock`: the value `time.Now()` returns.

History variables, which the properties read:

- `admitted[c]`: when `c` was admitted.
- `sent[c]`: counters of signature and junk attempts, of junk datagrams written by the synchronous train (`preOut`) and by the goroutine (`postOut`), and whether the batch was forwarded.
- `sigsOut`: the signature packets that reached the network, as `<<template, resolution>>`.
- `draws`: numbers each fresh random resolution.

**Templates.** In `PreflightBind` a template is abstracted to what `parseCPSPacket` makes of it:

- empty;
- tagless, which gives nil;
- malformed, which gives an error;
- static bytes;
- fresh random bytes.

`CpsParser` models the parser itself, and `TemplateKind` computes these five
kinds from a template's tags. `MCPreflightBind` EXTENDS `CpsParser` and
checks, by `ASSUME TemplateKindsOfInstances`, that the concrete templates it
stands for (`MCTemplates`, `RandomI1Templates`) have the kinds its
signature constants give them. This composes the two modules. The kinds are
kept as literals in the cfg so that TLC does not parse them on every state.

### CpsParser

A template is the list of items that the regexp scan of lines 136-137 finds:

- a tag `b`, `c`, `t` or `r` with its data, or
- text outside any tag.

Data is a short string over character classes:

- `0` and `5` are digits (decimal and hex);
- `a` is a hex letter;
- `x` and `g` are neither;
- `-`, the space and the tab.

`TagResult` is one iteration of the loop, with these Go conversions modelled
by what they do:

- `strings.TrimSpace`;
- the `0x` prefix;
- `strings.ReplaceAll(" ")`;
- `hex.DecodeString`;
- `strconv.Atoi` with a range error outside a `W`-bit int;
- the 1000 cap.

`parseCPSPacket` folds `TagResult` over the items. The first error ends the
fold. `ParseOutcomes` adds the error of a failing `rand.Read`. The runs set
`ReadFails = FALSE`: since Go 1.24, `crypto/rand.Read` never returns an
error. The branch is modelled but no run takes it. `<c>` and `<t>` become
4-byte clock pieces; their values are not a property of the parse.

**Actions.** One action per step of the code:

| Action | Code |
|---|---|
| `DetectInit`, `DetectNone` | the scan and `now`, 345-356 |
| `Admit`, `Throttle` | the critical section, 357-364, with the branch of 369-375 |
| `SimplePreflight` | 379-387 |
| `SendI1` | 396-406 |
| `SendSignature` | one iteration of 426-447; the last iteration also takes the branch of 450-460 |
| `SendPreJunk` | one iteration of `sendJunkPackets` |
| `SpawnPost` | line 412 |
| `Forward` | line 521 |
| `PostSend`, `PostExit` | the goroutine, 478-514 |
| `Tick` | advances the clock |

A write's failure is a nondeterministic choice (`WriteSig`, `SendJunk`).
Sleeps and write deadlines are left out: they change how long a step takes,
not which steps may follow it, and the interleavings already allow any
relative speed.

## Properties and runs

| Run | Config | Checks | Result |
|---|---|---|---|
| junkgen_documented | `MCJunkGen.cfg`: Jmin, Jmax ∈ {0,1,2,1500}, 12-bit int | `GeneratorMatchesSpec`: the code's length set equals spec 4.2's | pass |
| junkgen_edge | `MCJunkGenEdge.cfg`: Jmin ∈ {-1,0,1}, Jmax ∈ {-1,0,2,2047} | `GeneratorMatchesSpec` | violation: Jmin=-1, Jmax=MaxInt wraps the `Intn` bound and panics (line 261); Jmin=0, Jmax=-1 passes `Intn` a bound of 0 and panics (line 226) |
| bind_main | `MCPreflightBind.cfg`: 2 callers, 1 destination, config with JcBeforeHS=4, Jc=1 | `TypeOK`, `RateSeparation`, `PreJunkBound`, `DecoysEventuallyAttempted`, `LastSentNeverBack`, `OrchestratorRefined` | pass (≈280k states) |
| bind_simple | `MCPreflightBindSimple.cfg`: 3 callers, 2 destinations, no config | `RateSeparation`, `LastSentNeverBack`, `OrchestratorRefined` | pass (≈140k states) |
| cps_parser | `MCCpsParser.cfg`: every `<b>`/`<r>` with data of up to 4 characters (no tab), and every template of up to 3 of 7 pieces; 16-bit int | `ParserMatchesSpec` | pass (≈24k states) |
| cps_tab | `MCCpsParserTab.cfg`: data with tabs, up to 3 characters | `ParserMatchesSpec` | violation: `<b 0\t0>` is an error; only spaces are removed (line 155) |
| cps_wide | `MCCpsParserWide.cfg`: 12-bit int | `ParserMatchesSpec` | violation: `<r 5000>` is an `Atoi` range error, where the spec clamps to 1000 (line 184) |
| cps_guide | `MCCpsParserGuide.cfg`: the templates of cps_parser | `GuideCpsLengths` | violation: `<r 5000>` gives 1000 bytes, and `<c>` gives 4 bytes, where `AMNEZIA_GUIDE.md` says N bytes and one byte (lines 162-170, 188) |
| construction | `MCCpsParserNew.cfg`: every assignment of 5 kinds of template to I1..I5 | `ConstructionMatchesSpec` | violation: a malformed I2..I5 is accepted (lines 86-92) |
| bind_post_order | main instance | `PostAfterReal` | violation: goroutine junk before `inner.Send` (line 412) |
| bind_fresh_i1 | I1 with a random tag, Interval=1 | `SignaturesFresh` | violation: I1 bytes reused (lines 88, 401) |
| bind_zero_junk | Jmin=Jmax=0, JcBeforeHS=3 | `PreJunkBound` | violation: the synchronous train writes 6 datagrams (334-340) |

What each property says:

- `RateSeparation` (spec 3): two admitted triggers for one destination are at least `Interval` apart. The stale `now` makes this non-trivial: a caller that read the clock early can be overtaken by a later one.
  The spec is not consistent at the boundary: spec 3 says "at least", spec 4.4 says "exceeds". The code's `< interval` test (line 359) matches spec 3 and admits a trigger exactly `Interval` after the last one (with `Interval = MaxTime = 2`, the main run reaches admissions at 0 and 2). `RateSeparation` states spec 3's reading.
- `PreJunkBound` (spec 4.3 step 3, and section 9's bounded latency): the synchronous junk train of a call writes at most 3 junk datagrams. That train runs inside `Send`, before the `go` statement and `inner.Send`. The goroutine's junk is not counted, and it can also precede the real handshake: that is `PostAfterReal` (`bind_post_order`).
  - It holds in `bind_main`, where Jmin > 0.
  - It fails in `bind_zero_junk`, where a zero-length packet is two datagrams.
  - Its mutant drops the `AllowZeroSize` test of `generateJunkPacket` (line 240). `MCPreflightBind` takes the junk outcomes from `JunkGen`, so empty packets then reach the train.
- `GuideCpsLengths` (`AMNEZIA_GUIDE.md`, violated): `<c>` inserts one random byte and `<r N>` inserts N random bytes. The code and spec 4.1 give `<c>` a 4-byte counter and cap `<r>` at 1000. `ParserMatchesSpec` passes against spec 4.1; this run records where the guide disagrees with both.
- `LastSentNeverBack` (action property): no step clears a destination's `b.lastSent` entry or stores an earlier time in it. A caller with a stale `now` is exactly the one that could move it back; the `>= Interval` check with the last time stored rules this out.
- `OrchestratorRefined` (spec 4.3): `PreflightBind` implements `Orchestrator` under `Orch == INSTANCE Orchestrator WITH ...`. The mapping:
  - `phase` is `OrchPhase`, i.e. `PhaseOf(pc[c])`: `idle`/`lock` are Idle, the preflight steps (`simple`, `i1`, `sig`, `prejunk`, `spawn`) are PreHandshake, then `forward` and `done`;
  - `post` is the goroutine state `postPc`;
  - `preSigs` is the number of signature writes attempted, and `real` is whether `inner.Send` was called;
  - `preJunk` is the synchronous junk attempts, and `postJunk` is the goroutine's (`postIdx - 1`);
  - `Triggers` is the batches that hold a handshake initiation; `SigCap` is 5 and `JunkCap` is the cap of 3.

  It says a good deal at once:
  - a sequence starts only for a batch that `handshakeInitiation` accepts;
  - the goroutine is launched at most once per call, and only with an Amnezia configuration;
  - a call tries at most five signatures and at most the capped number of junk packets synchronously;
  - no decoy is written after the call is forwarded, except by its goroutine;
  - the batch goes to the transport exactly once, after the synchronous phase.
- `ParserMatchesSpec` (spec 4.1): for each template, the set of results `parseCPSPacket` can return is exactly `{SpecResolve(t)}`. This covers the same errors, literal bytes, `<r>` clamp, and pieces in the same order.
- `ConstructionMatchesSpec` (spec 7): `NewWithAmnezia` fails exactly when some Ii is malformed.
- `DecoysEventuallyAttempted`: under fairness, each admitted sequence attempts exactly the resolvable signatures and the configured junk count. The work is split between the capped synchronous part and the goroutine.

The violation runs record disagreements between the code and spec.md. They
are listed as findings in `PROJECT.json`.

**Bounds.** Two callers on one destination with `MaxTime = Interval = 2`
cover the following cases:

- admission;
- throttling;
- a stale reading overtaken by a later one;
- a second admission after the interval.

JcBeforeHS = 4 exercises the cap (3 synchronous, 1 asynchronous). Jc = 1
gives the goroutine a second stage. The three-caller, two-destination run
covers independence across destinations. Junk lengths are drawn from the set
`JunkGen` computes for the configured Jmin/Jmax, so the two modules compose.
Go's `int` is modelled as 12 bits. TLC's integers are 32-bit. The wrap
happens at the same place relative to `MaxInt` as at 64 bits.

The parser run enumerates every data string up to length 4 over the seven
classes, which includes the following:

- odd and even hex;
- the `0x` prefix with nothing after it;
- a space inside the hex;
- signs;
- `<r 5555>` above the cap;
- data of white space only.

The 16-bit int puts 5555 inside the range. The 12-bit int of `cps_wide` puts
5000 outside it, which stands for an N beyond 2^63 on a 64-bit build.

**Fairness.** Each caller and each post goroutine has weak fairness.
Justification: the Go scheduler runs every runnable goroutine, and every
dial and write in the code has a deadline (100-400 ms), so no step blocks
forever. The clock has no fairness; only the liveness property needs any.

## What is proved (TLAPS)

`PreflightBindProofs`:

- `TypeCorrect`: `Spec => []TypeOK`.
- `RateLimited`: `Spec => []RateSeparation`.
Both hold for every value of the constants that satisfies
`ConstantsAssumption`. They rest on one inductive invariant:
`IInv == TypeOK /\ ControlInv /\ RateInv /\ RateSeparation`.

- `ControlInv` says that a call is not admitted before it leaves the lock, and that the I2..I5 index stays in 2..5 while the loop runs. Without it, a second `Admit` by the same caller, or an index of 6, could not be ruled out in one step.
- `RateInv` says that every admitted time for a destination is at most `lastSent` for that destination. This is the needed strengthening. `Admit` checks the new time only against `lastSent`. With `RateInv`, that check implies separation from every earlier admission.

Lemmas:

- `InitIInv`: `Init` implies `IInv`.
- `StepIInv`: every action preserves `IInv`. The proof has one case per action and one step per conjunct. `AdmitIInv` is the rate-limit case.
- `RepeatType`, `PostPlanType`, `WriteSigType` and `SendJunkType` are the type lemmas for the helpers.

TLC checked `IInv` as an invariant of the main run before the proof was written.

`PreflightBindSendProofs` (extends `PreflightBindProofs`):

- `LastSentNeverBackwards`: `Spec => LastSentNeverBack`. `LastSentStep` shows that every step satisfies `LastSentMonotone` or leaves `lastSent` alone. `Admit` stores `now[c]` only after checking `now[c] - last >= Interval`, and `Interval` is positive, so the stored time is larger. No invariant is needed beyond `TypeOK`.
- The effect lemmas `WriteSigSent`, `ForwardSent` and `SendJunkSent` say which fields of `sent` each write helper changes.
- `PreJunkBounded`: `Spec => []PreJunkBound`, assuming `"zero" \notin JunkOutcomes`, i.e. no junk packet can be empty: the synchronous train of every call writes at most 3 junk datagrams. It says nothing of the goroutine's junk. The bound is not inductive. The strengthening `PreJunkInv` says, for each caller:
  - datagrams already written by the synchronous train plus the junk still to send (`preLeft`) are at most 3;
  - `preLeft` is 0 outside the synchronous junk loop;
  - nothing has been written before the sequence reaches that loop.
  
  `SendJunk` then moves one unit from `preLeft` to `preOut`. The hypothesis is needed: a zero-length packet writes two datagrams for one unit, and `bind_zero_junk` shows the bound then fails.

`JunkGenProofs` (extends `MCJunkGen`):

- `GeneratorExact`: for any width `W` with `WidthFacts(W)`, and every Jmin and Jmax in the `W`-bit int range and every AllowZeroSize, `generateJunkPacket = SpecGenerate` unless `IntnBoundBad`. The argument is one case per branch of the code. The lemma `WrapExact` says the `Intn` bound does not wrap when the exact value fits in `W` bits. In each case the bound is shown positive.
- `GeneratorPanics`: in the two `IntnBoundBad` configurations the result is `{Panic}`. `WrapTop` computes the wrap of `MaxInt + 1` to the smallest int. The finding at line 226 (Jmin = 0, Jmax < 0) is the other case.
- `GeneratorCorrect`: `Spec => []GeneratorMatchesSpec` for the harness, for any `JminValues` and `JmaxValues` without a bad pair at width 12 or 32. The documented sizes of `junkgen_documented` are such sets.
  
  `WidthFacts(W)` (`2^(W-1)` a natural number of at least 2, and `2^W = 2 * 2^(W-1)`) is proved for W ∈ {12, 32} (`PowFacts`). tlapm's backends cannot evaluate `2^63`, so the 64-bit instance rests on the generic theorem plus these two facts at 64 bits, not on a checked proof.

`PreflightBindOrchestratorProofs` (extends `PreflightBindSendProofs`):

- `OrchInvariant`: `Spec => []OrchInv`.
- `OrchestratorRefinement`: `Spec => OrchestratorRefined`, i.e. `PreflightBind` implements `Orchestrator`.

The refinement is not provable from `IInv` alone. `Orchestrator` bounds the signature count by 5 and the synchronous junk by the cap, and requires `Launch` to start the goroutine from `"none"`. `OrchInv` states, per caller, what the program counter implies:

- in `lock`, the batch holds an initiation, so `Admit` maps to `Trigger`;
- in `simple`, there is no configuration; in the fast sequence, there is one. This selects `Return` or `Launch`;
- before `forward`, the goroutine is `"none"` and `postIdx = 1`. So the launch is the first, and the goroutine's count starts at 0;
- no signature has been attempted before `i1`, and in the loop at most `sigIdx - 1`. Signatures never exceed 5;
- the synchronous junk tried plus `preLeft` is at most the cap. `preLeft` is 0 outside the junk loop, and nothing was tried before it. Here, unlike `PreJunkInv`, the count is of packets attempted, so empty packets do not matter and no hypothesis on `JunkOutcomes` is needed.

`InitOrchInv` and `OrchInvStep` prove it inductive together with `IInv`. `OrchInvStep` has one case per action. Every case reduces to the acting caller through `OrchFrame` and `OrchCombine`, because the other callers' views are unchanged. TLC checked `OrchInv` on both `bind_*` instances before the proof was written.

`OrchStep` maps each step:

- `DetectInit`, `Tick`, and `SendI1` without a resolved I1, are stutters;
- `DetectNone` and `Throttle` are `Pass`;
- `Admit` is `Trigger`;
- `SimplePreflight` is `Return`, and `SpawnPost` is `Launch`;
- `SendI1` with a resolved I1, and each `SendSignature`, is `PreSig` (`SigCounted`);
- each synchronous `SendPreJunk` is `PreJunk` (`JunkCounted`);
- each goroutine `PostSend` is `PostJunk` (`PostCounted`), and `PostExit` is `PostEnd`;
- `Forward` is `Deliver`.

The lemmas `PhaseExcept`, `PhaseSame`, `CountsExcept` and `CountsSame` say how the mapped functions change when one caller's state does. The effect lemmas of `PreflightBindSendProofs` give the change of each count.

**Model-checked only:**

- the liveness property `DecoysEventuallyAttempted`. TLAPS does not handle fairness or ENABLED here.
- `ParserMatchesSpec` and `ConstructionMatchesSpec`. `parseCPSPacket` is a fold over the template, and what a fold computes for every input is induction over data, beyond the installed provers.

## Not modelled

- `applyAmneziaPrefix`. It is never called.
- The delegating methods.
- `executeSimplePreflightSync`. It is unused.
- The regexp scan itself (lines 136-137). `CpsParser` starts from its list of matches. The `0X` prefix is the same case as `0x`, and the character classes do not include it.
- The content of junk and signature bytes.
- The data race on the global `rng` (lines 20, 245). Each draw is taken as atomic.
- The stray `}` at line 123. It keeps the file from compiling as given; the models assume the evident intended code.

## Plan for later work

- A property about overlapping sequences for one destination (hazard at line 363), if the spec comes to say what it expects.
