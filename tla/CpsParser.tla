------------------------------ MODULE CpsParser ------------------------------
(***************************************************************************)
(* parseCPSPacket (src/wireguard/preflightbind/preflight_bind.go, lines    *)
(* 127-204) and the template check of NewWithAmnezia (lines 82-92), next   *)
(* to the resolution spec section 4.1 and section 7 describe.              *)
(*                                                                         *)
(* A template is what the regexp scan of lines 136-137 finds in it, in     *)
(* order: a tag <b ...>, <c ...>, <t ...> or <r ...> with its data, or     *)
(* text outside any tag.  The data is a short string over classes of       *)
(* characters: "0" and "5" (decimal and hex digits), "a" (a hex letter),   *)
(* "x", "g" (neither), "-", the space and the tab.  Go's int has IntBits   *)
(* bits.  A result is an error or the sequence of the non-empty pieces     *)
(* appended to the output: literal bytes (kept as their hex digits, so     *)
(* two literal results are equal iff their bytes are), 4 bytes from the    *)
(* clock for <c> and <t>, and n fresh random bytes for <r n>.              *)
(***************************************************************************)
EXTENDS Integers, Sequences
LOCAL INSTANCE SequencesExt

HexDigits == {"0", "5", "a"}
DecDigits == {"0", "5"}
\* The characters strings.TrimSpace removes; the regexp's \s as well.
WhiteSpace == {" ", "\t"}

Err == [err |-> TRUE, segs |-> <<>>]
Ok(segs) == [err |-> FALSE, segs |-> segs]
Piece(src, hex, n) == [src |-> src, hex |-> hex, len |-> n]

\* strings.TrimSpace: leading and trailing white space removed.
TrimSpace(s) ==
  LET keep == {i \in DOMAIN s : s[i] \notin WhiteSpace}
      lo == IF keep = {} THEN 1 ELSE CHOOSE i \in keep : \A j \in keep : i <= j
      hi == IF keep = {} THEN 0 ELSE CHOOSE i \in keep : \A j \in keep : i >= j
  IN  SubSeq(s, lo, hi)

\* strings.HasPrefix(tagData, "0x") (line 151; "0X" is the same case).
HasHexPrefix(s) == Len(s) >= 2 /\ s[1] = "0" /\ s[2] = "x"

\* hex.DecodeString: an error on an odd length or a non-hex character.
HexDecodes(s) == Len(s) % 2 = 0 /\ \A i \in DOMAIN s : s[i] \in HexDigits

\* The value of a string of decimal digits.
DigitsValue(s) ==
  FoldLeft(LAMBDA acc, d : 10 * acc + (IF d = "5" THEN 5 ELSE 0), 0, s)

\* strconv.Atoi on W-bit ints: an optional sign, then at least one digit;
\* a syntax error otherwise, a range error outside the W-bit range.
Atoi(s, W) ==
  LET neg    == Len(s) > 0 /\ s[1] = "-"
      digits == IF neg THEN Tail(s) ELSE s
      v      == IF neg THEN -DigitsValue(digits) ELSE DigitsValue(digits)
  IN  IF \/ digits = <<>>
         \/ \E i \in DOMAIN digits : digits[i] \notin DecDigits
         \/ v > 2^(W-1) - 1 \/ v < -(2^(W-1))
        THEN [err |-> TRUE, val |-> 0]
        ELSE [err |-> FALSE, val |-> v]

\* The <r> length once parsed: capped at 1000 (lines 188-190).
\* Mutant: the cap of lines 188-190 dropped.
RandomLengthUncapped(n) == n
RandomLength(n) == IF n > 1000 THEN 1000 ELSE n

(***************************************************************************)
(* One iteration of the loop of lines 139-201, for one item of the scan.   *)
(***************************************************************************)
TagResult(item, W) ==
  LET d == TrimSpace(item.data) IN
  CASE item.kind = "b" ->
         LET h == SelectSeq(IF HasHexPrefix(d) THEN Tail(Tail(d)) ELSE d,
                            LAMBDA ch : ch # " ")
         IN  IF d = <<>> THEN Ok(<<>>)
             ELSE IF ~HexDecodes(h) THEN Err
             ELSE IF h = <<>> THEN Ok(<<>>)
             ELSE Ok(<<Piece("lit", h, Len(h) \div 2)>>)
    [] item.kind \in {"c", "t"} -> Ok(<<Piece(item.kind, <<>>, 4)>>)
    [] item.kind = "r" ->
         LET a == Atoi(d, W)
             n == IF d = <<>> THEN 0 ELSE RandomLength(a.val)
         IN  IF d # <<>> /\ a.err THEN Err
             ELSE IF n > 0 THEN Ok(<<Piece("r", <<>>, n)>>) ELSE Ok(<<>>)
    [] OTHER -> Ok(<<>>)

\* The output so far, then one more item: the first error ends the parse.
ParseStep(W, acc, item) ==
  IF acc.err THEN acc
  ELSE LET r == TagResult(item, W)
       IN  IF r.err THEN Err ELSE Ok(acc.segs \o r.segs)

\* parseCPSPacket(cps) when crypto/rand does not fail.
parseCPSPacket(t, W) == FoldLeft(LAMBDA acc, item : ParseStep(W, acc, item), Ok(<<>>), t)

\* Every result parseCPSPacket can return: rand.Read (line 194) may fail on
\* the first <r> with a positive length the parse reaches, when readFails.
ParseOutcomes(t, W, readFails) ==
  {parseCPSPacket(t, W)} \cup
  IF readFails /\ \E i \in DOMAIN t :
       \E p \in DOMAIN parseCPSPacket(SubSeq(t, 1, i), W).segs :
         parseCPSPacket(SubSeq(t, 1, i), W).segs[p].src = "r"
    THEN {Err} ELSE {}

(***************************************************************************)
(* NewWithAmnezia with a non-nil configuration whose templates are cfg:    *)
(* only a non-empty I1 is parsed, and only its error fails construction.   *)
(***************************************************************************)
NewWithAmnezia(cfg, W, readFails) ==
  IF cfg[1] = <<>> THEN {"ok"}
  ELSE {IF o.err THEN "error" ELSE "ok" : o \in ParseOutcomes(cfg[1], W, readFails)}

(***************************************************************************)
(* The template kinds PreflightBind distinguishes, as the code of lines    *)
(* 426-435 meets them: "" is skipped, an error or an empty result is       *)
(* skipped, and a result with an <r> piece differs on every resolution.    *)
(* <c> and <t> pieces change only with the clock's second and count as     *)
(* static.                                                                 *)
(***************************************************************************)
TemplateKind(t, W) ==
  LET p == parseCPSPacket(t, W) IN
  CASE t = <<>>                                -> "empty"
    [] p.err                                   -> "bad"
    [] p.segs = <<>>                           -> "notag"
    [] \E i \in DOMAIN p.segs : p.segs[i].src = "r" -> "random"
    [] OTHER                                   -> "static"

-----------------------------------------------------------------------------
(***************************************************************************)
(* Resolution as spec section 4.1 states it: the 0x prefix and embedded    *)
(* white space of <b> are stripped, <r N> is clamped to [0, 1000] whatever *)
(* N is, a missing N is 0, and bad hex or a non-numeric N is an error.     *)
(***************************************************************************)
SpecTag(item) ==
  LET d == TrimSpace(item.data) IN
  CASE item.kind = "b" ->
         LET h == SelectSeq(IF HasHexPrefix(d) THEN Tail(Tail(d)) ELSE d,
                            LAMBDA ch : ch \notin WhiteSpace)
         IN  IF ~HexDecodes(h) THEN Err
             ELSE IF h = <<>> THEN Ok(<<>>)
             ELSE Ok(<<Piece("lit", h, Len(h) \div 2)>>)
    [] item.kind \in {"c", "t"} -> Ok(<<Piece(item.kind, <<>>, 4)>>)
    [] item.kind = "r" ->
         LET neg    == Len(d) > 0 /\ d[1] = "-"
             digits == IF neg THEN Tail(d) ELSE d
             n      == IF neg THEN 0 ELSE IF DigitsValue(digits) > 1000
                                           THEN 1000 ELSE DigitsValue(digits)
         IN  IF d = <<>> THEN Ok(<<>>)
             ELSE IF digits = <<>> \/ \E i \in DOMAIN digits : digits[i] \notin DecDigits
               THEN Err
             ELSE IF n = 0 THEN Ok(<<>>) ELSE Ok(<<Piece("r", <<>>, n)>>)
    [] OTHER -> Ok(<<>>)

SpecResolve(t) ==
  FoldLeft(LAMBDA acc, item :
             IF acc.err THEN acc
             ELSE IF SpecTag(item).err THEN Err
             ELSE Ok(acc.segs \o SpecTag(item).segs),
           Ok(<<>>), t)

\* Spec 7: construction fails iff some template is malformed.
SpecNew(cfg) ==
  {IF \E i \in DOMAIN cfg : SpecResolve(cfg[i]).err THEN "error" ELSE "ok"}

=============================================================================
