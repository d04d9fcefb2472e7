---------------------------- MODULE JunkGenProofs ----------------------------
(***************************************************************************)
(* Proofs about generateJunkPacket (JunkGen) for every configuration       *)
(* Jmin, Jmax, AllowZeroSize of Go ints: it returns exactly the lengths    *)
(* spec 4.2 allows unless the Intn bound of line 226 or 261 is not        *)
(* positive, and it panics in exactly those configurations.  The widths   *)
(* are those of Go's int on 32- and 64-bit platforms, and the 12 bits of  *)
(* the runs: the provers evaluate 2^w for a given w but cannot do the      *)
(* induction that would give the facts below for every w.                  *)
(***************************************************************************)
EXTENDS MCJunkGen, TLAPS

ProvedWidths == {12, 32}

(***************************************************************************)
(* What the proofs need of 2^(W-1): true of every W >= 2, and proved here  *)
(* for the widths tlapm can evaluate (its integers stop short of 2^62).    *)
(***************************************************************************)
WidthFacts(W) == 2^(W-1) \in Nat /\ 2^(W-1) >= 2 /\ 2^W = 2 * 2^(W-1)

\* The values of a W-bit Go int.
GoInt(W) == -(2^(W-1)) .. MaxInt(W)

(***************************************************************************)
(* The configurations where the Intn bound is not positive: Jmin = 0 with  *)
(* Jmax < 0 (rng.Intn(maxSize + 1), line 226), and Jmin <= 0 with Jmax    *)
(* the largest int (maxSize - minSize + 1 wraps, lines 226 and 261).       *)
(***************************************************************************)
IntnBoundBad(mn, mx, W) ==
  \/ mn = 0 /\ mx < 0
  \/ mn <= 0 /\ mx = MaxInt(W)

LEMMA PowFacts ==
  ASSUME NEW W \in ProvedWidths
  PROVE  WidthFacts(W)
<1>1. CASE W = 12
  BY <1>1 DEF WidthFacts
<1>2. CASE W = 32
  BY <1>2 DEF WidthFacts
<1>3. QED
  BY <1>1, <1>2 DEF ProvedWidths

\* Wrap is the identity on the values of a W-bit int.
LEMMA WrapExact ==
  ASSUME NEW W, WidthFacts(W), NEW x \in GoInt(W)
  PROVE  Wrap(x, W) = x
<1> DEFINE M == 2^(W-1)
<1>1. M \in Nat /\ M >= 2 /\ 2^W = 2 * M
  BY DEF WidthFacts
<1>2. x + M \in 0 .. 2 * M - 1
  BY <1>1 DEF GoInt, MaxInt
<1>3. (x + M) % (2 * M) = x + M
  BY <1>1, <1>2
<1>4. (x + M) % 2^W = x + M
  BY <1>1, <1>3, Zenon
<1>5. Wrap(x, W) = (x + M) - M
  BY <1>4, Zenon DEF Wrap
<1>6. QED
  BY <1>1, <1>5 DEF GoInt

\* One past the largest int wraps to the smallest.
LEMMA WrapTop ==
  ASSUME NEW W, WidthFacts(W)
  PROVE  Wrap(MaxInt(W) + 1, W) = -(2^(W-1))
<1> DEFINE M == 2^(W-1)
<1>1. M \in Nat /\ M >= 2 /\ 2^W = 2 * M
  BY DEF WidthFacts
<1>2. MaxInt(W) + 1 + M = 2 * M
  BY <1>1 DEF MaxInt
<1>3. (2 * M) % (2 * M) = 0
  BY <1>1
<1>4. (MaxInt(W) + 1 + M) % 2^W = 0
  BY <1>1, <1>2, <1>3, Zenon
<1>5. Wrap(MaxInt(W) + 1, W) = 0 - M
  BY <1>4, Zenon DEF Wrap
<1>6. QED
  BY <1>1, <1>5


\* The facts about the bounds every case below starts from.
LEMMA Bounds ==
  ASSUME NEW W, WidthFacts(W), NEW mn \in GoInt(W), NEW mx \in GoInt(W)
  PROVE  /\ 2^(W-1) \in Nat /\ 2^(W-1) >= 2
         /\ mn \in Int /\ mx \in Int
         /\ mn >= -(2^(W-1)) /\ mx >= -(2^(W-1))
         /\ mn <= MaxInt(W) /\ mx <= MaxInt(W)
         /\ MaxInt(W) = 2^(W-1) - 1
BY DEF WidthFacts, GoInt, MaxInt

(***************************************************************************)
(* Outside the two bad configurations, generateJunkPacket can return       *)
(* exactly the lengths spec 4.2 describes, for any AllowZeroSize: the      *)
(* Intn bounds maxSize + 1 and maxSize - minSize + 1 never wrap and are    *)
(* positive, and the clamps of lines 247-252 give the spec's range.       *)
(***************************************************************************)
THEOREM GeneratorExact ==
  ASSUME NEW W, WidthFacts(W), NEW mn \in GoInt(W), NEW mx \in GoInt(W),
         NEW az \in BOOLEAN, ~IntnBoundBad(mn, mx, W)
  PROVE  generateJunkPacket(mn, mx, az, W) = SpecGenerate(mn, mx, az)
<1>1. /\ 2^(W-1) \in Nat /\ 2^(W-1) >= 2
      /\ mn \in Int /\ mx \in Int
      /\ mn >= -(2^(W-1)) /\ mx >= -(2^(W-1))
      /\ mn <= MaxInt(W) /\ mx <= MaxInt(W)
      /\ MaxInt(W) = 2^(W-1) - 1
  BY Bounds
<1>2. CASE mn = 0 /\ mx = 0
  BY <1>2 DEF generateJunkPacket, SpecGenerate
<1>3. CASE mn <= 0 /\ mx > 0
  <2>1. mx < MaxInt(W)
    BY <1>1, <1>3 DEF IntnBoundBad
  <2>2. mx + 1 \in GoInt(W)
    BY <1>1, <2>1 DEF GoInt
  <2>3. Wrap(mx + 1, W) = mx + 1 /\ Wrap(mx - 0 + 1, W) = mx + 1
    BY <1>1, <2>2, WrapExact
  <2>4. IntnFrom(0, mx + 1) = 0 .. mx
    BY <1>1, <1>3 DEF IntnFrom
  <2>5. generateJunkPacket(mn, mx, az, W) = 0 .. mx
    BY <1>1, <1>3, <2>3, <2>4 DEF generateJunkPacket
  <2>6. SpecGenerate(mn, mx, az) = 0 .. mx
    BY <1>1, <1>3 DEF SpecGenerate
  <2>7. QED
    BY <2>5, <2>6
<1>4. CASE mn < 0 /\ mx <= 0
  <2>1. generateJunkPacket(mn, mx, az, W) = {0}
    <3>1. CASE az = TRUE
      BY <1>1, <1>4, <3>1 DEF generateJunkPacket
    <3>2. CASE az = FALSE
      BY <1>1, <1>4, <3>2 DEF generateJunkPacket
    <3>3. QED
      BY <3>1, <3>2
  <2>2. SpecGenerate(mn, mx, az) = {0}
    <3>1. CASE az = TRUE
      BY <1>1, <1>4, <3>1 DEF SpecGenerate
    <3>2. CASE az = FALSE
      BY <1>1, <1>4, <3>2 DEF SpecGenerate
    <3>3. QED
      BY <3>1, <3>2
  <2>3. QED
    BY <2>1, <2>2
<1>5. CASE mn = 0 /\ mx < 0
  BY <1>5 DEF IntnBoundBad
<1>6. CASE mn > 0
  <2> DEFINE hi == IF mx < mn THEN mn ELSE mx
  <2>1. hi \in mn .. MaxInt(W)
    BY <1>1, <1>6
  <2>2. \/ hi = mn /\ {mn} = mn .. hi
        \/ hi # mn /\ IntnFrom(mn, Wrap(hi - mn + 1, W)) = mn .. hi
    <3>1. CASE hi = mn
      BY <1>1, <3>1
    <3>2. CASE hi # mn
      <4>1. hi - mn + 1 \in GoInt(W) /\ hi - mn + 1 > 0
        BY <1>1, <1>6, <2>1, <3>2 DEF GoInt
      <4>2. Wrap(hi - mn + 1, W) = hi - mn + 1
        BY <1>1, <4>1, WrapExact
      <4>3. QED
        BY <1>1, <3>2, <4>1, <4>2 DEF IntnFrom
    <3>3. QED
      BY <3>1, <3>2
  <2>3. CASE az = TRUE
    <3>1. generateJunkPacket(mn, mx, az, W) = {0} \cup (mn .. hi)
      BY <1>1, <1>6, <2>2, <2>3 DEF generateJunkPacket
    <3>2. SpecGenerate(mn, mx, az) = {0} \cup (mn .. hi)
      BY <1>1, <1>6, <2>3 DEF SpecGenerate
    <3>3. QED
      BY <3>1, <3>2
  <2>4. CASE az = FALSE
    <3>1. generateJunkPacket(mn, mx, az, W) = mn .. hi
      <4>1. ~(mn = 0 /\ mx = 0) /\ ~(mn = 0) /\ ~(az /\ mn > 0)
        BY <1>1, <1>6, <2>4
      <4>2. CASE hi = mn
        <5>1. generateJunkPacket(mn, mx, az, W) = {mn}
          BY <1>1, <1>6, <4>1, <4>2 DEF generateJunkPacket
        <5>2. QED
          BY <2>2, <4>2, <5>1
      <4>3. CASE hi # mn
        BY <1>1, <1>6, <2>2, <4>1, <4>3 DEF generateJunkPacket
      <4>4. QED
        BY <4>2, <4>3
    <3>2. SpecGenerate(mn, mx, az) = mn .. hi
      BY <1>1, <1>6, <2>4 DEF SpecGenerate
    <3>3. QED
      BY <3>1, <3>2
  <2>5. QED
    BY <2>3, <2>4
<1>7. QED
  BY <1>1, <1>2, <1>3, <1>4, <1>5, <1>6

(***************************************************************************)
(* In the two bad configurations generateJunkPacket always panics: with    *)
(* Jmin = 0 and Jmax < 0 at rng.Intn(maxSize + 1) (line 226), and with     *)
(* Jmin <= 0 and Jmax the largest int where the "+ 1" wraps to the        *)
(* smallest int (lines 226 and 261).  Spec 4.2 says it always succeeds.    *)
(***************************************************************************)
THEOREM GeneratorPanics ==
  ASSUME NEW W, WidthFacts(W), NEW mn \in GoInt(W), NEW mx \in GoInt(W),
         NEW az \in BOOLEAN, IntnBoundBad(mn, mx, W)
  PROVE  generateJunkPacket(mn, mx, az, W) = {Panic}
<1>1. /\ 2^(W-1) \in Nat /\ 2^(W-1) >= 2
      /\ mn \in Int /\ mx \in Int
      /\ mn >= -(2^(W-1)) /\ mx >= -(2^(W-1))
      /\ mn <= MaxInt(W) /\ mx <= MaxInt(W)
      /\ MaxInt(W) = 2^(W-1) - 1
  BY Bounds
<1>2. CASE mn = 0 /\ mx < 0
  <2>1. mx + 1 \in GoInt(W)
    BY <1>1, <1>2 DEF GoInt
  <2>2. Wrap(mx + 1, W) = mx + 1
    BY <1>1, <2>1, WrapExact
  <2>3. QED
    BY <1>1, <1>2, <2>2 DEF generateJunkPacket, IntnFrom
<1>3. CASE mn <= 0 /\ mx = MaxInt(W)
  <2>1. Wrap(mx + 1, W) = -(2^(W-1)) /\ Wrap(mx - 0 + 1, W) = -(2^(W-1))
    BY <1>1, <1>3, WrapTop
  <2>2. IntnFrom(0, -(2^(W-1))) = {Panic}
    BY <1>1 DEF IntnFrom
  <2>3. QED
    BY <1>1, <1>3, <2>1, <2>2 DEF generateJunkPacket
<1>4. QED
  BY <1>2, <1>3 DEF IntnBoundBad

-----------------------------------------------------------------------------
\* The configuration of the harness never changes.
ConfigInv ==
  jmin \in JminValues /\ jmax \in JmaxValues /\ allowZero \in BOOLEAN

(***************************************************************************)
(* For every configuration set of the harness without a bad Jmin/Jmax      *)
(* pair, and a proved width, every call of generateJunkPacket returns a    *)
(* length spec 4.2 allows and can return every one of them.                *)
(***************************************************************************)
THEOREM GeneratorCorrect ==
  ASSUME GoIntBits \in ProvedWidths,
         \A mn \in JminValues, mx \in JmaxValues : ~IntnBoundBad(mn, mx, GoIntBits)
  PROVE  Spec => []GeneratorMatchesSpec
<1>1. Init => ConfigInv
  BY DEF Init, ConfigInv
<1>2. ConfigInv /\ [Generate]_vars => ConfigInv'
  BY DEF ConfigInv, Generate, vars
<1>3. ConfigInv => GeneratorMatchesSpec
  <2> SUFFICES ASSUME ConfigInv
               PROVE  generateJunkPacket(jmin, jmax, allowZero, GoIntBits)
                        = SpecGenerate(jmin, jmax, allowZero)
    BY DEF GeneratorMatchesSpec
  <2>1. WidthFacts(GoIntBits)
    BY PowFacts
  <2>2. jmin \in GoInt(GoIntBits) /\ jmax \in GoInt(GoIntBits)
    BY JunkRangeAssumption DEF ConfigInv, GoInt
  <2>3. ~IntnBoundBad(jmin, jmax, GoIntBits)
    BY DEF ConfigInv
  <2>4. QED
    BY <2>1, <2>2, <2>3, GeneratorExact DEF ConfigInv
<1>4. QED
  BY <1>1, <1>2, <1>3, PTL DEF Spec

=============================================================================
