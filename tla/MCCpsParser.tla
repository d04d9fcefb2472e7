----------------------------- MODULE MCCpsParser -----------------------------
(***************************************************************************)
(* Model-checking harness for CpsParser: one template resolved by          *)
(* parseCPSPacket, and one configuration given to NewWithAmnezia, both     *)
(* fixed at the start.  The template sets are enumerated up to a data      *)
(* length; IntBits is the width of Go's int in the instance.               *)
(***************************************************************************)
EXTENDS CpsParser

CONSTANTS DataChars, MaxData, IntBits, ReadFails, ParserTemplates, Configs

ASSUME HarnessAssumption ==
  /\ MaxData \in Nat /\ IntBits \in Nat \ {0, 1} /\ ReadFails \in BOOLEAN

\* The character classes, with and without the tab.
NoTabChars == {"0", "5", "a", "x", "g", "-", " "}
AllChars == NoTabChars \cup {"\t"}

Item(k, d) == [kind |-> k, data |-> d]

\* Strings over the character classes A of length at most n.
Strings(A, n) == UNION {[1 .. k -> A] : k \in 0 .. n}

\* One tag with every data string up to MaxData, or a data-less item.
OneItem ==
  {<<Item(k, d)>> : k \in {"b", "r"}, d \in Strings(DataChars, MaxData)}
    \cup {<<Item(k, <<>>)>> : k \in {"c", "t", "text"}}

\* Items whose concatenation is worth checking: a byte, bad hex, 5 random
\* bytes, an empty <r>, the clock tags and text.
Pieces ==
  {Item("b", <<"0", "5">>), Item("b", <<"g">>), Item("r", <<"5">>),
   Item("r", <<>>), Item("c", <<>>), Item("t", <<>>), Item("text", <<>>)}

\* The templates of resolution checks: single tags, and up to three pieces.
ResolveTemplates == OneItem \cup Strings(Pieces, 3)

\* Templates of a configuration: valid static, valid random, malformed,
\* empty and tagless.
GoodStatic == <<Item("b", <<"0", "a">>)>>
GoodRandom == <<Item("r", <<"5">>)>>
Malformed  == <<Item("b", <<"g", "0">>)>>
Tagless    == <<Item("text", <<>>)>>
ConfigTemplates == {GoodStatic, GoodRandom, Malformed, <<>>, Tagless}
AllConfigs == [1 .. 5 -> ConfigTemplates]
\* Configurations with I1 valid or empty and the others valid.
OneConfig == {<<GoodStatic, GoodRandom, <<>>, Tagless, <<>>>>}
OneTemplate == {GoodStatic}

VARIABLES tmpl, cfg, result, built

vars == <<tmpl, cfg, result, built>>

Init ==
  /\ tmpl \in ParserTemplates
  /\ cfg \in Configs
  /\ result = Ok(<<>>)
  /\ built = "none"

\* One call of parseCPSPacket on the template.
Resolve ==
  /\ result' \in ParseOutcomes(tmpl, IntBits, ReadFails)
  /\ UNCHANGED <<tmpl, cfg, built>>

\* One call of NewWithAmnezia on the configuration.
Construct ==
  /\ built' \in NewWithAmnezia(cfg, IntBits, ReadFails)
  /\ UNCHANGED <<tmpl, cfg, result>>

Next == Resolve \/ Construct

Spec == Init /\ [][Next]_vars

(***************************************************************************)
(* parseCPSPacket resolves every template exactly as spec section 4.1      *)
(* says: the same error cases, the same literal bytes, the same clamp of   *)
(* <r N> and the same pieces in the same order.  Breaks if the prefix or   *)
(* white-space handling of <b>, the <r> parsing or cap, or the             *)
(* concatenation order differ.                                            *)
(***************************************************************************)
ParserMatchesSpec == ParseOutcomes(tmpl, IntBits, ReadFails) = {SpecResolve(tmpl)}

(***************************************************************************)
(* Spec section 7: NewWithAmnezia fails exactly when one of I1..I5 is      *)
(* malformed, before any traffic is sent.                                  *)
(***************************************************************************)
ConstructionMatchesSpec == NewWithAmnezia(cfg, IntBits, ReadFails) = SpecNew(cfg)

(***************************************************************************)
(* src/AMNEZIA_GUIDE.md, "CPS Format": <c> inserts one random byte and    *)
(* <r length> inserts length random bytes (its test 4 sends a 1280-byte   *)
(* I1 with <r 1280>).  For a template of one such tag, parseCPSPacket      *)
(* returns one piece of that length.                                       *)
(***************************************************************************)
GuideSized(item) ==
  LET d == TrimSpace(item.data) IN
  \/ item.kind = "c"
  \/ /\ item.kind = "r" /\ d # <<>>
     /\ \A i \in DOMAIN d : d[i] \in DecDigits
     /\ DigitsValue(d) > 0

GuideLength(item) ==
  IF item.kind = "c" THEN 1 ELSE DigitsValue(TrimSpace(item.data))

GuideCpsLengths ==
  Len(tmpl) = 1 /\ GuideSized(tmpl[1]) =>
    \A o \in ParseOutcomes(tmpl, IntBits, ReadFails) :
      ~o.err => o.segs # <<>> /\ o.segs[1].len = GuideLength(tmpl[1])

=============================================================================
