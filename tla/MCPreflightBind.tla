-------------------------- MODULE MCPreflightBind --------------------------
(***************************************************************************)
(* Model-checking instance of PreflightBind: a few Send calls, one or two  *)
(* destinations, and the junk lengths JunkGen says the configured          *)
(* Jmin/Jmax/AllowZeroSize can produce.                                    *)
(***************************************************************************)
EXTENDS PreflightBind, JunkGen, CpsParser

CONSTANTS c1, c2, c3, d1, d2, Jmin, Jmax, AllowZeroSize

MCCallers == {c1, c2, c3}
TwoCallers == {c1, c2}
MCDsts == {d1, d2}
OneDst == {d1}

\* A handshake initiation, a short type-1 buffer, and a transport packet.
InitBuf  == [type |-> 1, len |-> 148]
ShortBuf == [type |-> 1, len |-> 100]
DataBuf  == [type |-> 4, len |-> 32]
MCBatches == {{InitBuf}, {ShortBuf, DataBuf}}

\* The templates as CpsParser reads them: <b 0a>, <r 5>, <b g0>, "" and
\* text without a tag; and an I1 of <r 5> with I2..I5 not sent.
CpsItem(k, d) == [kind |-> k, data |-> d]
MCTemplates ==
  <<<<CpsItem("b", <<"0", "a">>)>>, <<CpsItem("r", <<"5">>)>>,
    <<CpsItem("b", <<"g", "0">>)>>, <<>>, <<CpsItem("text", <<>>)>>>>
RandomI1Templates ==
  <<<<CpsItem("r", <<"5">>)>>, <<>>, <<CpsItem("b", <<"g", "0">>)>>, <<>>,
    <<CpsItem("text", <<>>)>>>>

\* Template kinds: I1 static, I2 random, I3 malformed, I4 empty, I5 tagless;
\* and I1 random, the others not sent.
MCSig == <<"static", "random", "bad", "empty", "notag">>
RandomI1Sig == <<"random", "empty", "bad", "empty", "notag">>

\* Each template's kind as parseCPSPacket resolves it (Go int as 16 bits).
KindsOf(ts) == [i \in 1 .. 5 |-> TemplateKind(ts[i], 16)]

\* The kinds the instances use are those of the concrete templates.
ASSUME TemplateKindsOfInstances ==
  KindsOf(MCTemplates) = MCSig /\ KindsOf(RandomI1Templates) = RandomI1Sig

\* Whether generateJunkPacket can return a zero-length / non-empty packet
\* (Go int as 12 bits; the sizes are far from its edges).
MCJunkOutcomes ==
  {IF n = 0 THEN "zero" ELSE "data" : n \in generateJunkPacket(Jmin, Jmax, AllowZeroSize, 12)}

ASSUME JunkNeverPanics == Panic \notin generateJunkPacket(Jmin, Jmax, AllowZeroSize, 12)

=============================================================================
