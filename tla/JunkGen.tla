------------------------------ MODULE JunkGen ------------------------------
(***************************************************************************)
(* The junk-packet size choice of Bind.generateJunkPacket                  *)
(* (src/wireguard/preflightbind/preflight_bind.go, lines 207-277), as the  *)
(* set of outcomes one call can produce, next to the rule the spec         *)
(* (section 4.2) states for it.                                            *)
(*                                                                         *)
(* An outcome is the length of the returned slice, or Panic when the call  *)
(* reaches rng.Intn(n) with n <= 0 (math/rand panics there).  Go's int is  *)
(* a W-bit two's-complement integer: the "+ 1" before Intn wraps at the    *)
(* top of the range, so the width is a parameter of every operator.  The   *)
(* content of the bytes (crypto/rand, or math/rand on failure) is not a    *)
(* property of the length and is left out.                                 *)
(***************************************************************************)
EXTENDS Integers

\* A length is a natural number; a panic is recorded as a negative sentinel.
Panic == -2

\* Largest value of a W-bit signed integer.
MaxInt(W) == 2^(W-1) - 1

\* Two's-complement wrap-around of an exact integer into W bits.
Wrap(x, W) == ((x + 2^(W-1)) % 2^W) - 2^(W-1)

\* Outcomes of rng.Intn(n) used as "lo + rng.Intn(n)": lengths lo..lo+n-1,
\* or a panic when n is not positive.
IntnFrom(lo, n) == IF n <= 0 THEN {Panic} ELSE lo .. lo + n - 1

\* Mutant: the "if maxSize < minSize { maxSize = minSize }" clamp dropped.
generateJunkPacketNoClamp(minSize, maxSize, allowZero, W) ==
  LET clampedMin == IF minSize < 0 THEN 0 ELSE minSize
      ranged     == IF maxSize = clampedMin
                      THEN {clampedMin}
                      ELSE IntnFrom(clampedMin, Wrap(maxSize - clampedMin + 1, W))
  IN  CASE minSize = 0 /\ maxSize = 0 -> {0}
        [] minSize = 0                -> IntnFrom(0, Wrap(maxSize + 1, W))
        [] allowZero /\ minSize > 0   -> {0} \cup ranged
        [] OTHER                      -> ranged

\* Mutant: the AllowZeroSize test of line 240 dropped, so every positive
\* Jmin may give an empty packet.
generateJunkPacketZeroUnchecked(minSize, maxSize, allowZero, W) ==
  LET clampedMin == IF minSize < 0 THEN 0 ELSE minSize
      clampedMax == IF maxSize < clampedMin THEN clampedMin ELSE maxSize
      ranged     == IF clampedMax = clampedMin
                      THEN {clampedMin}
                      ELSE IntnFrom(clampedMin,
                                    Wrap(clampedMax - clampedMin + 1, W))
  IN  CASE minSize = 0 /\ maxSize = 0 -> {0}
        [] minSize = 0                -> IntnFrom(0, Wrap(maxSize + 1, W))
        [] minSize > 0                -> {0} \cup ranged
        [] OTHER                      -> ranged

(***************************************************************************)
(* generateJunkPacket with Jmin = minSize, Jmax = maxSize and              *)
(* AllowZeroSize = allowZero, configuration non-nil.                       *)
(***************************************************************************)
generateJunkPacket(minSize, maxSize, allowZero, W) ==
  LET clampedMin == IF minSize < 0 THEN 0 ELSE minSize
      clampedMax == IF maxSize < clampedMin THEN clampedMin ELSE maxSize
      ranged     == IF clampedMax = clampedMin
                      THEN {clampedMin}
                      ELSE IntnFrom(clampedMin,
                                    Wrap(clampedMax - clampedMin + 1, W))
  IN  CASE minSize = 0 /\ maxSize = 0 -> {0}
        [] minSize = 0                -> IntnFrom(0, Wrap(maxSize + 1, W))
        [] allowZero /\ minSize > 0   -> {0} \cup ranged
        [] OTHER                      -> ranged

(***************************************************************************)
(* The generator the spec describes (section 4.2, rules 1-4): it always    *)
(* succeeds; a negative minimum is clamped to 0 and a maximum below the    *)
(* minimum is raised to it.                                                *)
(***************************************************************************)
SpecGenerate(minSize, maxSize, allowZero) ==
  LET lo == IF minSize < 0 THEN 0 ELSE minSize
      hi == IF maxSize < lo THEN lo ELSE maxSize
  IN  CASE minSize = 0 /\ maxSize = 0 -> {0}
        [] minSize = 0 /\ maxSize > 0 -> 0 .. maxSize
        [] allowZero /\ minSize > 0   -> {0} \cup (lo .. hi)
        [] OTHER                      -> lo .. hi

=============================================================================
