----------------------------- MODULE MCJunkGen -----------------------------
(***************************************************************************)
(* Model-checking harness for JunkGen: a Bind whose configuration          *)
(* (Jmin, Jmax, AllowZeroSize) is fixed at construction and never changes  *)
(* (AmneziaConfig is only read), generating one junk packet per step, as   *)
(* sendJunkPackets does.  The configuration ranges over the CONSTANT sets  *)
(* of the cfg; GoIntBits is the width of Go's int in the instance.         *)
(***************************************************************************)
EXTENDS JunkGen

CONSTANTS JminValues, JmaxValues, GoIntBits

ASSUME GoIntBitsAssumption == GoIntBits \in Nat \ {0, 1}
ASSUME JunkRangeAssumption ==
  JminValues \cup JmaxValues \subseteq -(2^(GoIntBits-1)) .. MaxInt(GoIntBits)

NoPacket == -1

\* Junk sizes in the range the CLI documents (0-1500).
DocumentedSizes == {0, 1, 2, 1500}

\* Junk sizes at the edges of a 12-bit int: negative, and the largest int.
EdgeJmin == {-1, 0, 1}
EdgeJmax == {-1, 0, 2, 2047}

VARIABLES jmin, jmax, allowZero, out

vars == <<jmin, jmax, allowZero, out>>

Init ==
  /\ jmin \in JminValues
  /\ jmax \in JmaxValues
  /\ allowZero \in BOOLEAN
  /\ out = NoPacket

\* One call of generateJunkPacket: the configuration is unchanged.
Generate ==
  /\ out' \in generateJunkPacket(jmin, jmax, allowZero, GoIntBits)
  /\ UNCHANGED <<jmin, jmax, allowZero>>

Spec == Init /\ [][Generate]_vars

TypeOK ==
  /\ jmin \in JminValues /\ jmax \in JmaxValues /\ allowZero \in BOOLEAN
  /\ out \in {NoPacket, Panic} \cup (0 .. MaxInt(GoIntBits))

(***************************************************************************)
(* The set of lengths generateJunkPacket can return for the configuration  *)
(* is exactly the one spec section 4.2 describes: the code never panics,   *)
(* never returns a length outside the clamped range, and can return every *)
(* length in it (including the zero-length packet of rules 1-3).  Breaks   *)
(* if a clamp, a zero-size branch or the Intn bound "+ 1" is wrong.        *)
(***************************************************************************)
GeneratorMatchesSpec ==
  generateJunkPacket(jmin, jmax, allowZero, GoIntBits)
    = SpecGenerate(jmin, jmax, allowZero)

=============================================================================
