----------------------------- MODULE TextProofs -----------------------------
(***************************************************************************)
(* Proofs about what is done with text: how the rules of a route are read  *)
(* (RuleSyntax), how the values of a request are written to the access log *)
(* (AccessFilter), how variables are substituted in a configuration that   *)
(* is read chunk by chunk (EnvReader), how the labels of a container are   *)
(* made into routes (DockerLabels).  They share no state.                  *)
(***************************************************************************)
EXTENDS RuleSyntax, AccessFilter, EnvReader, DockerLabels, DataInduction, SequenceTheorems

(***************************************************************************)
(* RuleSyntax: the two scanners of rule texts, for texts of any length.    *)
(***************************************************************************)
Blank == " "
Brace == "{"
Chars == Alphabet \union {"e", "$", "v", "q", "p", "a", Blank, Brace}
ParseStates ==
  [esc : BOOLEAN, quote : Quotes \union {NoQuote}, brackets : Nat, brace : BOOLEAN, inEnv : BOOLEAN,
   env : Seq(Chars), missing : BOOLEAN, buf : Seq(Chars), words : Seq(Seq(Chars)), err : {"", "brackets"}]
PipeStates ==
  [esc : BOOLEAN, quote : Quotes \union {NoQuote}, brackets : Nat, cur : Seq(Chars), parts : Seq(Seq(Chars))]

LEMMA TrimLeftType ==
  ASSUME NEW w \in Seq(Chars)
  PROVE  TrimLeft(w) \in Seq(Chars)
<1> DEFINE solid == {i \in DOMAIN w : w[i] # " "}
           first == CHOOSE i \in solid : \A j \in solid : i <= j
<1>0. DOMAIN w = 1..Len(w) /\ Len(w) \in Nat
  OBVIOUS
<1>1. CASE solid = {}
  <2>1. TrimLeft(w) = <<>>
    BY <1>1 DEF TrimLeft
  <2> QED
    BY <2>1
<1>2. CASE solid # {}
  <2>1. solid \in SUBSET Nat
    <3>1. ASSUME NEW i \in solid PROVE i \in Nat
      <4>1. i \in DOMAIN w
        OBVIOUS
      <4> HIDE DEF solid
      <4> QED
        BY <1>0, <4>1
    <3> HIDE DEF solid
    <3> QED
      BY <3>1
  <2>2. \E i \in solid : \A j \in solid : i <= j
    <3> HIDE DEF solid
    <3> QED
      BY <1>2, <2>1, LeastNatural
  <2>3. first \in solid
    <3> HIDE DEF solid
    <3> QED
      BY <2>2
  <2>4. first \in 1..Len(w)
    BY <1>0, <2>3
  <2>5. TrimLeft(w) = SubSeq(w, first, Len(w))
    BY <1>2 DEF TrimLeft
  <2> HIDE DEF first
  <2> QED
    BY <2>4, <2>5
<1> QED
  BY <1>1, <1>2

LEMMA TrimBothType ==
  ASSUME NEW w \in Seq(Chars)
  PROVE  TrimBoth(w) \in Seq(Chars)
<1>1. ASSUME NEW v \in Seq(Chars) PROVE Reverse(v) \in Seq(Chars)
  <2>1. \A i \in 1..Len(v) : v[(Len(v) - i) + 1] \in Chars
    OBVIOUS
  <2> QED
    BY <2>1 DEF Reverse
<1> QED
  BY <1>1, TrimLeftType DEF TrimBoth

(* What both scanners keep of a text: the quote they are in, the depth of  *)
(* brackets and whether the last character escapes the next.               *)
Same(s, t) == s.esc = t.esc /\ s.quote = t.quote /\ s.brackets = t.brackets
NextQuote(s, r) ==
  IF s.esc \/ r \notin Quotes THEN s.quote
  ELSE IF s.quote = NoQuote /\ s.brackets = 0 THEN r
  ELSE IF s.quote = r THEN NoQuote ELSE s.quote
NextDepth(s, r) ==
  IF s.esc THEN s.brackets
  ELSE IF r = "(" THEN s.brackets + 1
  ELSE IF r = ")" /\ s.brackets > 0 THEN s.brackets - 1 ELSE s.brackets
Moved(s, t, r) ==
  t.esc = (~s.esc /\ r = "e") /\ t.quote = NextQuote(s, r) /\ t.brackets = NextDepth(s, r)

Fine(s) == s.err = ""
Refused(s, r) == ~s.esc /\ r = ")" /\ s.brackets = 0

LEMMA WriteKeeps ==
  ASSUME NEW s \in ParseStates, NEW r \in Chars
  PROVE  /\ Write(s, r) \in ParseStates /\ Same(s, Write(s, r)) /\ Write(s, r).err = s.err
         /\ Write(s, r).brace = s.brace /\ Write(s, r).inEnv = s.inEnv
<1>1. s.buf \in Seq(Chars)
  BY DEF ParseStates
<1>2. Append(s.buf, r) \in Seq(Chars)
  BY <1>1
<1> QED
  BY <1>2 DEF Write, ParseStates, Same

LEMMA flushKeeps ==
  ASSUME NEW s \in ParseStates, NEW quoted \in BOOLEAN
  PROVE  flush(s, quoted) \in ParseStates /\ Same(s, flush(s, quoted)) /\ flush(s, quoted).err = s.err
<1> DEFINE w == IF quoted THEN s.buf ELSE TrimLeft(s.buf)
           t == [s EXCEPT !.words = Append(@, w), !.buf = <<>>]
<1>1. s.buf \in Seq(Chars) /\ s.words \in Seq(Seq(Chars))
  BY DEF ParseStates
<1>2. w \in Seq(Chars)
  BY <1>1, TrimLeftType
<1> HIDE DEF w
<1>3. Append(s.words, w) \in Seq(Seq(Chars)) /\ <<>> \in Seq(Chars)
  BY <1>1, <1>2
<1>4. t \in ParseStates /\ Same(s, t) /\ t.err = s.err
  BY <1>3 DEF ParseStates, Same
<1>5. flush(s, quoted) = s \/ flush(s, quoted) = t
  BY DEF flush, w
<1> HIDE DEF t
<1>6. Same(s, s)
  BY DEF Same
<1> QED
  BY <1>4, <1>5, <1>6

LEMMA ParseStep ==
  ASSUME NEW s \in ParseStates, NEW r \in Chars
  PROVE  /\ ParseChar(s, r) \in ParseStates
         /\ s.err # "" => ParseChar(s, r) = s
         /\ ParseChar(s, r).err = "" => Moved(s, ParseChar(s, r), r)
         /\ s.err = "" => (ParseChar(s, r).err = "" <=> ~Refused(s, r))
<1> DEFINE u == ParseChar(s, r)
<1>1. CASE s.err # ""
  <2>1. u = s
    BY <1>1 DEF ParseChar
  <2> QED
    BY <1>1, <2>1
<1>2. CASE s.err = "" /\ s.esc
  <2> DEFINE v == IF r = "a" THEN Write(Write(s, "e"), r) ELSE Write(s, r)
  <2>1. u = [v EXCEPT !.esc = FALSE]
    BY <1>2 DEF ParseChar
  <2>2. v \in ParseStates /\ Same(s, v) /\ v.err = s.err
    <3>1. "e" \in Chars
      BY DEF Chars
    <3>2. Write(s, "e") \in ParseStates /\ Same(s, Write(s, "e")) /\ Write(s, "e").err = s.err
      BY <3>1, WriteKeeps
    <3> QED
      BY <3>2, WriteKeeps DEF Same
  <2> HIDE DEF v
  <2>3. u \in ParseStates /\ u.esc = FALSE /\ u.quote = v.quote /\ u.brackets = v.brackets /\ u.err = v.err
    BY <2>1, <2>2 DEF ParseStates
  <2> HIDE DEF u
  <2>4. Moved(s, u, r)
    BY <1>2, <2>2, <2>3 DEF Moved, Same, NextQuote, NextDepth
  <2>5. ~Refused(s, r)
    BY <1>2 DEF Refused
  <2> QED
    BY <1>2, <2>2, <2>3, <2>4, <2>5 DEF u
<1>3. CASE s.err = "" /\ ~s.esc
  <2> DEFINE t == IF s.brace /\ r \notin {"{", "$"} THEN [Write(s, "$") EXCEPT !.brace = FALSE] ELSE s
  <2>1. t \in ParseStates /\ Same(s, t) /\ t.err = ""
    <3>1. "$" \in Chars
      BY DEF Chars
    <3> DEFINE v == Write(s, "$")
    <3>2. v \in ParseStates /\ Same(s, v) /\ v.err = ""
      BY <1>3, <3>1, WriteKeeps
    <3> HIDE DEF v
    <3>3. [v EXCEPT !.brace = FALSE] \in ParseStates /\ Same(s, [v EXCEPT !.brace = FALSE])
          /\ [v EXCEPT !.brace = FALSE].err = ""
      BY <3>2 DEF ParseStates, Same
    <3> QED
      BY <1>3, <3>3 DEF v, Same
  <2>2. u = CASE r \in Quotes -> ParseQuote(t, r)
              [] r = "e" -> [t EXCEPT !.esc = TRUE]
              [] r = "$" -> IF t.brace THEN [Write(t, "$") EXCEPT !.brace = FALSE] ELSE [t EXCEPT !.brace = TRUE]
              [] r = "{" -> IF t.brace THEN [t EXCEPT !.inEnv = TRUE, !.brace = FALSE, !.env = <<>>] ELSE Write(t, r)
              [] r = "}" -> IF t.inEnv THEN ParseEnvEnd(t) ELSE Write(t, r)
              [] r = "(" -> [Write(t, r) EXCEPT !.brackets = @ + 1]
              [] r = ")" -> IF t.brackets = 0 THEN [t EXCEPT !.err = "brackets"]
                            ELSE [Write(t, r) EXCEPT !.brackets = @ - 1]
              [] r = " " -> IF t.quote = NoQuote THEN flush(t, FALSE) ELSE Write(t, r)
              [] OTHER -> IF t.inEnv THEN [t EXCEPT !.env = Append(@, r)] ELSE Write(t, r)
    BY <1>3 DEF ParseChar
  <2> HIDE DEF t, u
  <2>3. SUFFICES /\ u \in ParseStates /\ (u.err = "" => Moved(t, u, r))
                 /\ u.err = "" <=> ~(r = ")" /\ t.brackets = 0)
    <3>1. ASSUME Moved(t, u, r) PROVE Moved(s, u, r)
      BY <2>1, <3>1 DEF Moved, Same, NextQuote, NextDepth
    <3>2. Refused(s, r) <=> (r = ")" /\ t.brackets = 0)
      BY <1>3, <2>1 DEF Refused, Same
    <3> QED
      BY <1>3, <3>1, <3>2 DEF u
  <2>4. t.esc = FALSE
    BY <1>3, <2>1 DEF Same, ParseStates
  <2>a. Write(t, r) \in ParseStates /\ Same(t, Write(t, r)) /\ Write(t, r).err = ""
    BY <2>1, WriteKeeps
  <2>b. ASSUME r \notin Quotes, r \notin {"e", "(", ")"}, u \in ParseStates, Same(t, u) PROVE Moved(t, u, r)
    BY <2>4, <2>b DEF Moved, Same, NextQuote, NextDepth
  <2>5. CASE r \in Quotes
    <3>1. u = ParseQuote(t, r)
      BY <2>2, <2>5 DEF Quotes
    <3>2. CASE t.quote = NoQuote /\ t.brackets = 0
      <4> DEFINE v == [t EXCEPT !.quote = r]
      <4>1. u = flush(v, FALSE)
        BY <2>5, <3>1, <3>2 DEF ParseQuote, Quotes, NoQuote
      <4>2. v \in ParseStates /\ v.esc = FALSE /\ v.quote = r /\ v.brackets = t.brackets /\ v.err = ""
        BY <2>1, <2>4, <2>5 DEF ParseStates
      <4> HIDE DEF v
      <4>3. u \in ParseStates /\ Same(v, u) /\ u.err = ""
        BY <4>1, <4>2, flushKeeps
      <4> QED
        BY <2>4, <2>5, <3>2, <4>2, <4>3 DEF Moved, Same, NextQuote, NextDepth, Quotes
    <3>3. CASE ~(t.quote = NoQuote /\ t.brackets = 0) /\ t.quote = r
      <4> DEFINE v == [t EXCEPT !.quote = NoQuote]
      <4>1. u = flush(v, TRUE)
        BY <2>5, <3>1, <3>3 DEF ParseQuote, Quotes, NoQuote
      <4>2. v \in ParseStates /\ v.esc = FALSE /\ v.quote = NoQuote /\ v.brackets = t.brackets /\ v.err = ""
        BY <2>1, <2>4, <2>5 DEF ParseStates
      <4> HIDE DEF v
      <4>3. u \in ParseStates /\ Same(v, u) /\ u.err = ""
        BY <4>1, <4>2, flushKeeps
      <4> QED
        BY <2>4, <2>5, <3>3, <4>2, <4>3 DEF Moved, Same, NextQuote, NextDepth, Quotes
    <3>4. CASE ~(t.quote = NoQuote /\ t.brackets = 0) /\ t.quote # r
      <4>1. u = Write(t, r)
        BY <2>5, <3>1, <3>4 DEF ParseQuote, Quotes, NoQuote
      <4> QED
        BY <2>4, <2>5, <2>a, <3>4, <4>1 DEF Moved, Same, NextQuote, NextDepth, Quotes
    <3> QED
      BY <3>2, <3>3, <3>4
  <2>6. CASE r = "e"
    <3>1. u = [t EXCEPT !.esc = TRUE]
      BY <2>2, <2>6 DEF Quotes
    <3>2. u \in ParseStates /\ u.esc = TRUE /\ u.quote = t.quote /\ u.brackets = t.brackets /\ u.err = ""
      BY <2>1, <3>1 DEF ParseStates
    <3> QED
      BY <2>4, <2>6, <3>2 DEF Moved, NextQuote, NextDepth, Quotes
  <2>7. CASE r = "$"
    <3> DEFINE v == Write(t, r)
    <3>1. u = [v EXCEPT !.brace = FALSE] \/ u = [t EXCEPT !.brace = TRUE]
      BY <2>2, <2>7 DEF Quotes
    <3>2. v \in ParseStates /\ Same(t, v) /\ v.err = ""
      BY <2>a
    <3> HIDE DEF v
    <3>3. u \in ParseStates /\ Same(t, u) /\ u.err = ""
      BY <2>1, <3>1, <3>2 DEF ParseStates, Same
    <3> QED
      BY <2>7, <2>b, <3>3 DEF Quotes
  <2>8. CASE r = "{"
    <3>1. u = [t EXCEPT !.inEnv = TRUE, !.brace = FALSE, !.env = <<>>] \/ u = Write(t, r)
      BY <2>2, <2>8 DEF Quotes
    <3> DEFINE v == [t EXCEPT !.inEnv = TRUE, !.brace = FALSE, !.env = <<>>]
    <3>a. <<>> \in Seq(Chars)
      OBVIOUS
    <3>b. v \in ParseStates /\ Same(t, v) /\ v.err = ""
      BY <2>1, <3>a DEF ParseStates, Same
    <3>2. u \in ParseStates /\ Same(t, u) /\ u.err = ""
      BY <2>a, <3>1, <3>b
    <3> QED
      BY <2>8, <2>b, <3>2 DEF Quotes
  <2>9. CASE r = "}"
    <3> DEFINE v == IF t.env \in EnvNames THEN Write(t, "v") ELSE [t EXCEPT !.missing = TRUE]
    <3>1. u = [v EXCEPT !.inEnv = FALSE] \/ u = Write(t, r)
      BY <2>2, <2>9 DEF Quotes, ParseEnvEnd
    <3>2. v \in ParseStates /\ Same(t, v) /\ v.err = ""
      <4>1. "v" \in Chars
        BY DEF Chars
      <4>2. Write(t, "v") \in ParseStates /\ Same(t, Write(t, "v")) /\ Write(t, "v").err = ""
        BY <2>1, <4>1, WriteKeeps
      <4>3. /\ [t EXCEPT !.missing = TRUE] \in ParseStates /\ Same(t, [t EXCEPT !.missing = TRUE])
            /\ [t EXCEPT !.missing = TRUE].err = ""
        BY <2>1 DEF ParseStates, Same
      <4> QED
        BY <4>2, <4>3
    <3> HIDE DEF v
    <3>3. /\ [v EXCEPT !.inEnv = FALSE] \in ParseStates /\ Same(t, [v EXCEPT !.inEnv = FALSE])
          /\ [v EXCEPT !.inEnv = FALSE].err = ""
      BY <3>2 DEF ParseStates, Same
    <3>4. u \in ParseStates /\ Same(t, u) /\ u.err = ""
      BY <2>a, <3>1, <3>3
    <3> QED
      BY <2>9, <2>b, <3>4 DEF Quotes
  <2>10. CASE r = "("
    <3> DEFINE v == Write(t, r)
    <3>1. u = [v EXCEPT !.brackets = @ + 1]
      BY <2>2, <2>10 DEF Quotes
    <3>2. v \in ParseStates /\ Same(t, v) /\ v.err = ""
      BY <2>a
    <3> HIDE DEF v
    <3>a. v.brackets \in Nat
      BY <3>2 DEF ParseStates
    <3>3. v.brackets + 1 \in Nat
      BY <3>a
    <3>4. u \in ParseStates /\ u.esc = v.esc /\ u.quote = v.quote /\ u.brackets = v.brackets + 1 /\ u.err = ""
      BY <3>1, <3>2, <3>3 DEF ParseStates
    <3> QED
      BY <2>4, <2>10, <3>2, <3>4 DEF Moved, Same, NextQuote, NextDepth, Quotes
  <2>11. CASE r = ")"
    <3>1. CASE t.brackets = 0
      <4>1. u = [t EXCEPT !.err = "brackets"]
        BY <2>2, <2>11, <3>1 DEF Quotes
      <4>2. u \in ParseStates /\ u.err = "brackets"
        BY <2>1, <4>1 DEF ParseStates
      <4> QED
        BY <2>11, <3>1, <4>2
    <3>2. CASE t.brackets # 0
      <4> DEFINE v == Write(t, r)
      <4>1. u = [v EXCEPT !.brackets = @ - 1]
        BY <2>2, <2>11, <3>2 DEF Quotes
      <4>2. v \in ParseStates /\ Same(t, v) /\ v.err = ""
        BY <2>a
      <4> HIDE DEF v
      <4>3. v.brackets \in Nat /\ v.brackets = t.brackets
        BY <4>2 DEF ParseStates, Same
      <4>4. v.brackets - 1 \in Nat /\ t.brackets > 0
        BY <3>2, <4>3
      <4>5. u \in ParseStates /\ u.esc = v.esc /\ u.quote = v.quote /\ u.brackets = v.brackets - 1 /\ u.err = ""
        BY <4>1, <4>2, <4>4 DEF ParseStates
      <4> QED
        BY <2>4, <2>11, <3>2, <4>2, <4>4, <4>5 DEF Moved, Same, NextQuote, NextDepth, Quotes
    <3> QED
      BY <3>1, <3>2
  <2>12. CASE r = " "
    <3>1. u = flush(t, FALSE) \/ u = Write(t, r)
      BY <2>2, <2>12 DEF Quotes
    <3>2. u \in ParseStates /\ Same(t, u) /\ u.err = ""
      BY <2>1, <2>a, <3>1, flushKeeps
    <3> QED
      BY <2>12, <2>b, <3>2 DEF Quotes
  <2>13. CASE r \notin Quotes \union {"e", "$", "{", "}", "(", ")", " "}
    <3>1. u = [t EXCEPT !.env = Append(@, r)] \/ u = Write(t, r)
      BY <2>2, <2>13
    <3>2. t.env \in Seq(Chars)
      BY <2>1 DEF ParseStates
    <3>3. Append(t.env, r) \in Seq(Chars)
      BY <3>2
    <3>4. /\ [t EXCEPT !.env = Append(@, r)] \in ParseStates /\ Same(t, [t EXCEPT !.env = Append(@, r)])
          /\ [t EXCEPT !.env = Append(@, r)].err = ""
      BY <2>1, <3>3 DEF ParseStates, Same
    <3>5. u \in ParseStates /\ Same(t, u) /\ u.err = ""
      BY <2>a, <3>1, <3>4
    <3> QED
      BY <2>13, <2>b, <3>5
  <2> QED
    BY <2>5, <2>6, <2>7, <2>8, <2>9, <2>10, <2>11, <2>12, <2>13
<1> QED
  BY <1>1, <1>2, <1>3 DEF ParseStates

LEMMA PipeStep ==
  ASSUME NEW s \in PipeStates, NEW r \in Chars
  PROVE  PipeChar(s, r) \in PipeStates /\ Moved(s, PipeChar(s, r), r)
<1> DEFINE u == PipeChar(s, r)
           keep == [s EXCEPT !.cur = Append(@, r)]
<1>0. s.cur \in Seq(Chars) /\ s.parts \in Seq(Seq(Chars)) /\ s.brackets \in Nat
      /\ s.esc \in BOOLEAN /\ s.quote \in Quotes \union {NoQuote}
  BY DEF PipeStates
<1>1. Append(s.cur, r) \in Seq(Chars)
  BY <1>0
<1>2. keep \in PipeStates /\ Same(s, keep)
  BY <1>1 DEF PipeStates, Same
<1>3. u = IF s.esc THEN [keep EXCEPT !.esc = FALSE]
          ELSE CASE r = "e" -> [keep EXCEPT !.esc = TRUE]
                 [] r \in Quotes -> CASE OpensQuote(s) -> [keep EXCEPT !.quote = r]
                                      [] s.quote = r -> [keep EXCEPT !.quote = NoQuote]
                                      [] OTHER -> keep
                 [] r = "(" -> [keep EXCEPT !.brackets = @ + 1]
                 [] r = ")" -> IF s.brackets > 0 THEN [keep EXCEPT !.brackets = @ - 1] ELSE keep
                 [] r = "|" /\ s.quote = NoQuote /\ s.brackets = 0 ->
                      [s EXCEPT !.parts = Append(@, TrimBoth(s.cur)), !.cur = <<>>]
                 [] OTHER -> keep
  BY DEF PipeChar
<1> HIDE DEF u, keep
<1>4. CASE s.esc
  <2>1. u = [keep EXCEPT !.esc = FALSE]
    BY <1>3, <1>4
  <2>2. u \in PipeStates /\ u.esc = FALSE /\ u.quote = s.quote /\ u.brackets = s.brackets
    BY <1>2, <2>1 DEF PipeStates, Same
  <2> QED
    BY <1>4, <2>2 DEF u, Moved, NextQuote, NextDepth
<1>5. CASE ~s.esc
  <2>a. s.esc = FALSE
    BY <1>0, <1>5
  <2>1. CASE r = "e"
    <3>1. u = [keep EXCEPT !.esc = TRUE]
      BY <1>3, <1>5, <2>1 DEF Quotes
    <3>2. u \in PipeStates /\ u.esc = TRUE /\ u.quote = s.quote /\ u.brackets = s.brackets
      BY <1>2, <3>1 DEF PipeStates, Same
    <3> QED
      BY <2>a, <2>1, <3>2 DEF u, Moved, NextQuote, NextDepth, Quotes
  <2>2. CASE r \in Quotes
    <3>1. CASE OpensQuote(s)
      <4>1. u = [keep EXCEPT !.quote = r]
        BY <1>3, <1>5, <2>2, <3>1 DEF Quotes, OpensQuote, NoQuote
      <4>2. u \in PipeStates /\ u.esc = FALSE /\ u.quote = r /\ u.brackets = s.brackets
        BY <1>2, <2>a, <2>2, <4>1 DEF PipeStates, Same
      <4> QED
        BY <2>a, <2>2, <3>1, <4>2 DEF u, Moved, NextQuote, NextDepth, Quotes, OpensQuote
    <3>2. CASE ~OpensQuote(s) /\ s.quote = r
      <4>1. u = [keep EXCEPT !.quote = NoQuote]
        BY <1>3, <1>5, <2>2, <3>2 DEF Quotes
      <4>2. u \in PipeStates /\ u.esc = FALSE /\ u.quote = NoQuote /\ u.brackets = s.brackets
        BY <1>2, <2>a, <4>1 DEF PipeStates, Same
      <4> QED
        BY <2>a, <2>2, <3>2, <4>2 DEF u, Moved, NextQuote, NextDepth, Quotes, OpensQuote
    <3>3. CASE ~OpensQuote(s) /\ s.quote # r
      <4>1. u = keep
        BY <1>3, <1>5, <2>2, <3>3 DEF Quotes
      <4> QED
        BY <1>2, <2>a, <2>2, <3>3, <4>1 DEF u, Moved, NextQuote, NextDepth, Quotes, OpensQuote, Same
    <3> QED
      BY <3>1, <3>2, <3>3
  <2>3. CASE r = "("
    <3>1. u = [keep EXCEPT !.brackets = @ + 1]
      BY <1>3, <1>5, <2>3 DEF Quotes
    <3>2. keep.brackets = s.brackets
      BY <1>2 DEF Same
    <3>3. keep.brackets + 1 \in Nat
      BY <1>0, <3>2
    <3>4. u \in PipeStates /\ u.esc = FALSE /\ u.quote = s.quote /\ u.brackets = s.brackets + 1
      BY <1>2, <2>a, <3>1, <3>2, <3>3 DEF PipeStates, Same
    <3> QED
      BY <2>a, <2>3, <3>4 DEF u, Moved, NextQuote, NextDepth, Quotes
  <2>4. CASE r = ")" /\ s.brackets > 0
    <3>1. u = [keep EXCEPT !.brackets = @ - 1]
      BY <1>3, <1>5, <2>4 DEF Quotes
    <3>2. keep.brackets = s.brackets
      BY <1>2 DEF Same
    <3>3. keep.brackets - 1 \in Nat
      BY <1>0, <2>4, <3>2
    <3>4. u \in PipeStates /\ u.esc = FALSE /\ u.quote = s.quote /\ u.brackets = s.brackets - 1
      BY <1>2, <2>a, <3>1, <3>2, <3>3 DEF PipeStates, Same
    <3> QED
      BY <2>a, <2>4, <3>4 DEF u, Moved, NextQuote, NextDepth, Quotes
  <2>5. CASE r = "|" /\ s.quote = NoQuote /\ s.brackets = 0
    <3> DEFINE w == TrimBoth(s.cur)
    <3>1. u = [s EXCEPT !.parts = Append(@, w), !.cur = <<>>]
      BY <1>3, <1>5, <2>5 DEF Quotes
    <3>2. w \in Seq(Chars)
      BY <1>0, TrimBothType
    <3> HIDE DEF w
    <3>3. Append(s.parts, w) \in Seq(Seq(Chars)) /\ <<>> \in Seq(Chars)
      BY <1>0, <3>2
    <3>4. u \in PipeStates /\ u.esc = FALSE /\ u.quote = s.quote /\ u.brackets = s.brackets
      BY <2>a, <3>1, <3>3 DEF PipeStates
    <3> QED
      BY <2>a, <2>5, <3>4 DEF u, Moved, NextQuote, NextDepth, Quotes
  <2>6. CASE /\ r \notin Quotes \union {"e", "("}
             /\ ~(r = ")" /\ s.brackets > 0)
             /\ ~(r = "|" /\ s.quote = NoQuote /\ s.brackets = 0)
    <3>1. u = keep
      BY <1>3, <1>5, <2>6
    <3> QED
      BY <1>2, <2>a, <2>6, <3>1 DEF u, Moved, NextQuote, NextDepth, Same
  <2> QED
    BY <2>1, <2>2, <2>3, <2>4, <2>5, <2>6
<1> QED
  BY <1>4, <1>5

(* What the scanners hold after i characters of a text is p[i].            *)
ParseStart ==
  [esc |-> FALSE, quote |-> NoQuote, brackets |-> 0, brace |-> FALSE, inEnv |-> FALSE,
   env |-> <<>>, missing |-> FALSE, buf |-> <<>>, words |-> <<>>, err |-> ""]
PipeStart == [esc |-> FALSE, quote |-> NoQuote, brackets |-> 0, cur |-> <<>>, parts |-> <<>>]
ParseRun(p, s) == p[0] = ParseStart /\ \A i \in 1..Len(s) : p[i] = ParseChar(p[i - 1], s[i])
PipeRun(p, s) == p[0] = PipeStart /\ \A i \in 1..Len(s) : p[i] = PipeChar(p[i - 1], s[i])

LEMMA ParsePrefixes ==
  ASSUME NEW s \in Seq(Chars)
  PROVE  \E p \in [0..Len(s) -> ParseStates] : ParseRun(p, s) /\ ParseScan(s) = p[Len(s)]
<1> DEFINE n == Len(s)
           IsFold(h) == h = [t \in SUBSET DOMAIN s |->
             IF t = {} THEN ParseStart ELSE ParseChar(h[t \ {Max(t)}], s[Max(t)])]
           fold == CHOOSE h : IsFold(h)
           F    == [k \in 1..n |-> [v \in ParseStates |-> ParseChar(v, s[k])]]
<1>1. n \in Nat /\ DOMAIN s = 1..n
  OBVIOUS
<1>2. ParseScan(s) = fold[DOMAIN s]
  BY DEF ParseScan, ParseStart, FoldLeft, MapThenFoldSet
<1>a. ASSUME NEW k \in 1..n, NEW v \in ParseStates PROVE ParseChar(v, s[k]) \in ParseStates
  <2>1. s[k] \in Chars
    OBVIOUS
  <2> QED
    BY <2>1, ParseStep
<1>3. F \in [1..n -> [ParseStates -> ParseStates]]
  <2> HIDE DEF n
  <2> QED
    BY <1>a
<1>b. ParseStart \in ParseStates
  <2>1. <<>> \in Seq(Chars) /\ <<>> \in Seq(Seq(Chars))
    OBVIOUS
  <2> QED
    BY <2>1 DEF ParseStart, ParseStates
<1>4. PICK h \in [SUBSET (1..n) -> ParseStates] : LeftFold(h, n, ParseStates, ParseStart, F)
  <2> HIDE DEF n, F
  <2> QED
    BY <1>1, <1>3, <1>b, LeftFoldExists
<1>5. IsFold(h)
  <2>1. ASSUME NEW t \in SUBSET (1..n)
        PROVE  h[t] = IF t = {} THEN ParseStart ELSE ParseChar(h[t \ {Max(t)}], s[Max(t)])
    <3>1. CASE t = {}
      BY <1>4, <3>1 DEF LeftFold
    <3>2. CASE t # {}
      <4> DEFINE m == Max(t)
      <4>1. m \in 1..n /\ h[t \ {m}] \in ParseStates /\ h[t] = F[m][h[t \ {m}]]
        BY <1>4, <3>2 DEF LeftFold
      <4> HIDE DEF m, n
      <4>2. h[t] = ParseChar(h[t \ {m}], s[m])
        BY <4>1
      <4> QED
        BY <3>2, <4>2 DEF m
    <3> QED
      BY <3>1, <3>2
  <2> QED
    BY <1>1, <2>1
<1>6. IsFold(fold)
  BY <1>5
<1>7. \A t \in SUBSET (1..n) :
        fold[t] = IF t = {} THEN ParseStart ELSE ParseChar(fold[t \ {Max(t)}], s[Max(t)])
  <2> HIDE DEF fold
  <2> QED
    BY <1>1, <1>6
<1> HIDE DEF fold
<1> DEFINE T == {i \in 0..n : fold[1..i] \in ParseStates}
<1>8. 1..0 = {} /\ 0 \in 0..n
  BY <1>1
<1>9. fold[1..0] = ParseStart
  BY <1>7, <1>8
<1>10. ASSUME NEW i \in 1..n PROVE fold[1..i] = ParseChar(fold[1..(i - 1)], s[i])
  <2>1. i \in Nat \ {0} /\ 1..i \in SUBSET (1..n)
    BY <1>1
  <2>2. Max(1..i) = i /\ (1..i) \ {i} = 1..(i - 1) /\ 1..i # {}
    BY <2>1, PrefixMax
  <2> QED
    BY <1>7, <2>1, <2>2
<1>11. 0 \in T
  BY <1>8, <1>9, <1>b
<1>12. ASSUME NEW i \in 0..(n - 1), i \in T PROVE i + 1 \in T
  <2> DEFINE m == i + 1
  <2>1. m \in 1..n /\ m - 1 = i /\ m \in 0..n
    BY <1>1
  <2> HIDE DEF m
  <2>2. fold[1..m] = ParseChar(fold[1..i], s[m])
    BY <1>10, <2>1
  <2>3. fold[1..i] \in ParseStates
    BY <1>12
  <2> HIDE DEF n
  <2>4. fold[1..m] \in ParseStates
    BY <1>a, <2>1, <2>2, <2>3
  <2> QED
    BY <2>1, <2>4 DEF m
<1> HIDE DEF T
<1>13. 0..n \subseteq T
  BY <1>1, <1>11, <1>12, BoundedInduction
<1> DEFINE p == [i \in 0..n |-> fold[1..i]]
<1>14. p \in [0..n -> ParseStates]
  BY <1>13 DEF T
<1>15. p[0] = ParseStart
  BY <1>8, <1>9
<1>16. ASSUME NEW i \in 1..n PROVE p[i] = ParseChar(p[i - 1], s[i])
  <2>1. i \in 0..n /\ i - 1 \in 0..n
    BY <1>1
  <2> HIDE DEF n
  <2> QED
    BY <1>10, <2>1
<1>17. ParseScan(s) = p[n]
  <2>1. n \in 0..n
    BY <1>1
  <2> HIDE DEF n
  <2> QED
    BY <1>1, <1>2, <2>1
<1> HIDE DEF p
<1> QED
  BY <1>14, <1>15, <1>16, <1>17 DEF ParseRun

LEMMA PipePrefixes ==
  ASSUME NEW s \in Seq(Chars)
  PROVE  \E p \in [0..Len(s) -> PipeStates] : PipeRun(p, s) /\ PipeScan(s) = p[Len(s)]
<1> DEFINE n == Len(s)
           IsFold(h) == h = [t \in SUBSET DOMAIN s |->
             IF t = {} THEN PipeStart ELSE PipeChar(h[t \ {Max(t)}], s[Max(t)])]
           fold == CHOOSE h : IsFold(h)
           F    == [k \in 1..n |-> [v \in PipeStates |-> PipeChar(v, s[k])]]
<1>1. n \in Nat /\ DOMAIN s = 1..n
  OBVIOUS
<1>2. PipeScan(s) = fold[DOMAIN s]
  BY DEF PipeScan, PipeStart, FoldLeft, MapThenFoldSet
<1>a. ASSUME NEW k \in 1..n, NEW v \in PipeStates PROVE PipeChar(v, s[k]) \in PipeStates
  <2>1. s[k] \in Chars
    OBVIOUS
  <2> QED
    BY <2>1, PipeStep
<1>3. F \in [1..n -> [PipeStates -> PipeStates]]
  <2> HIDE DEF n
  <2> QED
    BY <1>a
<1>b. PipeStart \in PipeStates
  <2>1. <<>> \in Seq(Chars) /\ <<>> \in Seq(Seq(Chars))
    OBVIOUS
  <2> QED
    BY <2>1 DEF PipeStart, PipeStates
<1>4. PICK h \in [SUBSET (1..n) -> PipeStates] : LeftFold(h, n, PipeStates, PipeStart, F)
  <2> HIDE DEF n, F
  <2> QED
    BY <1>1, <1>3, <1>b, LeftFoldExists
<1>5. IsFold(h)
  <2>1. ASSUME NEW t \in SUBSET (1..n)
        PROVE  h[t] = IF t = {} THEN PipeStart ELSE PipeChar(h[t \ {Max(t)}], s[Max(t)])
    <3>1. CASE t = {}
      BY <1>4, <3>1 DEF LeftFold
    <3>2. CASE t # {}
      <4> DEFINE m == Max(t)
      <4>1. m \in 1..n /\ h[t \ {m}] \in PipeStates /\ h[t] = F[m][h[t \ {m}]]
        BY <1>4, <3>2 DEF LeftFold
      <4> HIDE DEF m, n
      <4>2. h[t] = PipeChar(h[t \ {m}], s[m])
        BY <4>1
      <4> QED
        BY <3>2, <4>2 DEF m
    <3> QED
      BY <3>1, <3>2
  <2> QED
    BY <1>1, <2>1
<1>6. IsFold(fold)
  BY <1>5
<1>7. \A t \in SUBSET (1..n) :
        fold[t] = IF t = {} THEN PipeStart ELSE PipeChar(fold[t \ {Max(t)}], s[Max(t)])
  <2> HIDE DEF fold
  <2> QED
    BY <1>1, <1>6
<1> HIDE DEF fold
<1> DEFINE T == {i \in 0..n : fold[1..i] \in PipeStates}
<1>8. 1..0 = {} /\ 0 \in 0..n
  BY <1>1
<1>9. fold[1..0] = PipeStart
  BY <1>7, <1>8
<1>10. ASSUME NEW i \in 1..n PROVE fold[1..i] = PipeChar(fold[1..(i - 1)], s[i])
  <2>1. i \in Nat \ {0} /\ 1..i \in SUBSET (1..n)
    BY <1>1
  <2>2. Max(1..i) = i /\ (1..i) \ {i} = 1..(i - 1) /\ 1..i # {}
    BY <2>1, PrefixMax
  <2> QED
    BY <1>7, <2>1, <2>2
<1>11. 0 \in T
  BY <1>8, <1>9, <1>b
<1>12. ASSUME NEW i \in 0..(n - 1), i \in T PROVE i + 1 \in T
  <2> DEFINE m == i + 1
  <2>1. m \in 1..n /\ m - 1 = i /\ m \in 0..n
    BY <1>1
  <2> HIDE DEF m
  <2>2. fold[1..m] = PipeChar(fold[1..i], s[m])
    BY <1>10, <2>1
  <2>3. fold[1..i] \in PipeStates
    BY <1>12
  <2> HIDE DEF n
  <2>4. fold[1..m] \in PipeStates
    BY <1>a, <2>1, <2>2, <2>3
  <2> QED
    BY <2>1, <2>4 DEF m
<1> HIDE DEF T
<1>13. 0..n \subseteq T
  BY <1>1, <1>11, <1>12, BoundedInduction
<1> DEFINE p == [i \in 0..n |-> fold[1..i]]
<1>14. p \in [0..n -> PipeStates]
  BY <1>13 DEF T
<1>15. p[0] = PipeStart
  BY <1>8, <1>9
<1>16. ASSUME NEW i \in 1..n PROVE p[i] = PipeChar(p[i - 1], s[i])
  <2>1. i \in 0..n /\ i - 1 \in 0..n
    BY <1>1
  <2> HIDE DEF n
  <2> QED
    BY <1>10, <2>1
<1>17. PipeScan(s) = p[n]
  <2>1. n \in 0..n
    BY <1>1
  <2> HIDE DEF n
  <2> QED
    BY <1>1, <1>2, <2>1
<1> HIDE DEF p
<1> QED
  BY <1>14, <1>15, <1>16, <1>17 DEF PipeRun

(* After every prefix that parse has not refused, the scanners agree.      *)
LEMMA RunsAgree ==
  ASSUME NEW s \in Seq(Chars), NEW p \in [0..Len(s) -> ParseStates], NEW a \in [0..Len(s) -> PipeStates],
         ParseRun(p, s), PipeRun(a, s)
  PROVE  \A i \in 0..Len(s) : Fine(p[i]) => Same(p[i], a[i])
<1> DEFINE n == Len(s)
           T == {i \in 0..n : Fine(p[i]) => Same(p[i], a[i])}
<1>1. n \in Nat
  OBVIOUS
<1>4. 0 \in T
  <2>1. 0 \in 0..n /\ p[0] = ParseStart /\ a[0] = PipeStart
    BY <1>1 DEF ParseRun, PipeRun
  <2>2. Same(ParseStart, PipeStart)
    BY DEF Same, ParseStart, PipeStart
  <2> QED
    BY <2>1, <2>2
<1>5. ASSUME NEW i \in 0..(n - 1), i \in T PROVE i + 1 \in T
  <2> DEFINE m == i + 1
             v == p[i]
             w == p[m]
             b == a[i]
             c == a[m]
             r == s[m]
  <2>1. m \in 1..n /\ m - 1 = i /\ m \in 0..n /\ i \in 0..n
    BY <1>1
  <2> HIDE DEF m
  <2>2. w = ParseChar(v, r) /\ c = PipeChar(b, r)
    BY <2>1 DEF ParseRun, PipeRun
  <2>3. v \in ParseStates /\ b \in PipeStates /\ r \in Chars
    BY <2>1
  <2>4. Fine(v) => Same(v, b)
    BY <1>5
  <2> HIDE DEF v, w, b, c, r
  <2>5. (~Fine(v) => w = v) /\ (Fine(w) => Moved(v, w, r)) /\ Moved(b, c, r)
    BY <2>2, <2>3, ParseStep, PipeStep DEF Fine
  <2>6. Fine(w) => Same(w, c)
    <3>1. ASSUME Moved(v, w, r), Moved(b, c, r), Same(v, b) PROVE Same(w, c)
      BY <3>1 DEF Moved, Same, NextQuote, NextDepth
    <3> QED
      BY <2>4, <2>5, <3>1
  <2> QED
    BY <2>1, <2>6 DEF m, w, c
<1> HIDE DEF T
<1>6. 0..n \subseteq T
  BY <1>1, <1>4, <1>5, BoundedInduction
<1> QED
  BY <1>6 DEF T

LEMMA ScannersAgreeOn ==
  ASSUME NEW s \in Seq(Chars)
  PROVE  Fine(ParseScan(s)) => Same(ParseScan(s), PipeScan(s))
<1>1. Len(s) \in 0..Len(s)
  OBVIOUS
<1>2. PICK p \in [0..Len(s) -> ParseStates] : ParseRun(p, s) /\ ParseScan(s) = p[Len(s)]
  BY ParsePrefixes
<1>3. PICK a \in [0..Len(s) -> PipeStates] : PipeRun(a, s) /\ PipeScan(s) = a[Len(s)]
  BY PipePrefixes
<1> QED
  BY <1>1, <1>2, <1>3, RunsAgree

-----------------------------------------------------------------------------
(* An argument in quotes.                                                  *)
Quoted(w) == <<"a", Blank, "q">> \o w \o <<"q">>

LEMMA QuotedText ==
  ASSUME NEW w \in Seq(Chars)
  PROVE  /\ Quoted(w) \in Seq(Chars) /\ Len(Quoted(w)) = Len(w) + 4
         /\ Quoted(w)[1] = "a" /\ Quoted(w)[2] = Blank /\ Quoted(w)[3] = "q"
         /\ \A i \in 1..Len(w) : Quoted(w)[i + 3] = w[i]
         /\ Quoted(w)[Len(w) + 4] = "q"
<1> DEFINE b == <<"a", Blank, "q">>
           z == <<"q">>
           m == b \o w
<1>0. "a" \in Chars /\ Blank \in Chars /\ "q" \in Chars
  BY DEF Chars
<1>a. b \in Seq(Chars) /\ Len(b) = 3
  BY <1>0
<1>b. b[1] = "a" /\ b[2] = Blank /\ b[3] = "q"
  OBVIOUS
<1>c. z \in Seq(Chars) /\ Len(z) = 1 /\ z[1] = "q"
  BY <1>0
<1>1. b \in Seq(Chars) /\ z \in Seq(Chars) /\ Len(b) = 3 /\ Len(z) = 1
      /\ b[1] = "a" /\ b[2] = Blank /\ b[3] = "q" /\ z[1] = "q"
  BY <1>a, <1>b, <1>c
<1>2. Len(w) \in Nat
  OBVIOUS
<1> HIDE DEF b, z
<1>e. ASSUME NEW x \in Seq(Chars), NEW y \in Seq(Chars)
      PROVE  /\ x \o y \in Seq(Chars) /\ Len(x \o y) = Len(x) + Len(y)
             /\ \A i \in 1..(Len(x) + Len(y)) : (x \o y)[i] = IF i <= Len(x) THEN x[i] ELSE y[i - Len(x)]
  BY ConcatProperties
<1>f. /\ m \in Seq(Chars) /\ Len(m) = Len(b) + Len(w)
      /\ \A i \in 1..(Len(b) + Len(w)) : m[i] = IF i <= Len(b) THEN b[i] ELSE w[i - Len(b)]
  BY <1>1, <1>e
<1>3. /\ m \in Seq(Chars) /\ Len(m) = Len(w) + 3
      /\ \A i \in 1..(Len(w) + 3) : m[i] = IF i <= 3 THEN b[i] ELSE w[i - 3]
  BY <1>1, <1>2, <1>f
<1> HIDE DEF m
<1>4. m[1] = "a" /\ m[2] = Blank /\ m[3] = "q" /\ \A i \in 1..Len(w) : m[i + 3] = w[i]
  BY <1>1, <1>2, <1>3
<1>g. /\ m \o z \in Seq(Chars) /\ Len(m \o z) = Len(m) + Len(z)
      /\ \A i \in 1..(Len(m) + Len(z)) : (m \o z)[i] = IF i <= Len(m) THEN m[i] ELSE z[i - Len(m)]
  BY <1>1, <1>3, <1>e
<1>d. /\ m \o z \in Seq(Chars) /\ Len(m \o z) = Len(m) + 1
      /\ \A i \in 1..(Len(m) + 1) : (m \o z)[i] = IF i <= Len(m) THEN m[i] ELSE z[i - Len(m)]
  BY <1>1, <1>g
<1>5. m \o z \in Seq(Chars) /\ Len(m \o z) = Len(w) + 4 /\ (m \o z)[Len(w) + 4] = "q"
  BY <1>1, <1>2, <1>3, <1>d
<1>6. \A i \in 1..(Len(w) + 3) : (m \o z)[i] = m[i]
  BY <1>1, <1>2, <1>3, <1>d
<1>7. \A i \in 1..Len(w) : i + 3 \in 1..(Len(w) + 3)
  BY <1>2
<1>8. 1 \in 1..(Len(w) + 3) /\ 2 \in 1..(Len(w) + 3) /\ 3 \in 1..(Len(w) + 3)
  BY <1>2
<1>9. Quoted(w) = m \o z
  BY DEF Quoted, m, b, z
<1> QED
  BY <1>4, <1>5, <1>6, <1>7, <1>8, <1>9

LEMMA TrimLeftSolid ==
  ASSUME NEW w \in Seq(Chars), w # <<>>, w[1] # Blank
  PROVE  TrimLeft(w) = w
<1> DEFINE solid == {i \in DOMAIN w : w[i] # " "}
           first == CHOOSE i \in solid : \A j \in solid : i <= j
<1> HIDE DEF solid, first
<1>1. DOMAIN w = 1..Len(w) /\ Len(w) \in Nat /\ 1 \in 1..Len(w)
  <2>1. Len(w) \in Nat \ {0}
    BY EmptySeq
  <2> QED
    BY <2>1
<1>2. 1 \in solid
  BY <1>1 DEF Blank, solid
<1>3. \A j \in solid : j \in 1..Len(w)
  BY <1>1 DEF solid
<1>4. TrimLeft(w) = SubSeq(w, first, Len(w))
  BY <1>2 DEF TrimLeft, solid, first
<1>5. \A j \in solid : 1 <= j
  BY <1>1, <1>3
<1>6. \A i \in solid : (\A j \in solid : i <= j) => i = 1
  <2> SUFFICES ASSUME NEW i \in solid, \A j \in solid : i <= j PROVE i = 1
    OBVIOUS
  <2>1. i <= 1 /\ 1 <= i /\ i \in 1..Len(w)
    BY <1>2, <1>3, <1>5
  <2> QED
    BY <1>1, <2>1
<1>7. first = 1
  BY <1>2, <1>5, <1>6 DEF first
<1>8. SubSeq(w, 1, Len(w)) = w
  BY SubSeqFull
<1> QED
  BY <1>4, <1>7, <1>8

LEMMA TrimLeftEmpty == TrimLeft(<<>>) = <<>>
<1>1. {i \in DOMAIN <<>> : <<>>[i] # " "} = {}
  OBVIOUS
<1> QED
  BY <1>1 DEF TrimLeft

LEMMA ReverseFacts ==
  ASSUME NEW w \in Seq(Chars)
  PROVE  /\ Reverse(w) \in Seq(Chars) /\ Len(Reverse(w)) = Len(w)
         /\ \A i \in 1..Len(w) : Reverse(w)[i] = w[(Len(w) - i) + 1]
         /\ Reverse(Reverse(w)) = w
<1>1. ASSUME NEW v \in Seq(Chars)
      PROVE  /\ Reverse(v) \in Seq(Chars) /\ Len(Reverse(v)) = Len(v)
             /\ \A i \in 1..Len(v) : Reverse(v)[i] = v[(Len(v) - i) + 1]
  <2>1. \A i \in 1..Len(v) : v[(Len(v) - i) + 1] \in Chars
    OBVIOUS
  <2>2. Len(v) \in Nat
    OBVIOUS
  <2> QED
    BY <2>1, <2>2 DEF Reverse
<1>2. Reverse(w) \in Seq(Chars) /\ Len(Reverse(w)) = Len(w)
      /\ \A i \in 1..Len(w) : Reverse(w)[i] = w[(Len(w) - i) + 1]
  BY <1>1
<1> DEFINE r == Reverse(w)
           z == Reverse(r)
<1> HIDE DEF r
<1>3. z \in Seq(Chars) /\ Len(z) = Len(w) /\ \A i \in 1..Len(w) : z[i] = r[(Len(w) - i) + 1]
  BY <1>1, <1>2 DEF r
<1> HIDE DEF z
<1>4. ASSUME NEW i \in 1..Len(w) PROVE z[i] = w[i]
  <2> DEFINE k == (Len(w) - i) + 1
  <2>1. Len(w) \in Nat
    OBVIOUS
  <2>2. k \in 1..Len(w) /\ (Len(w) - k) + 1 = i
    BY <2>1
  <2>3. z[i] = r[k]
    BY <1>3
  <2> HIDE DEF k
  <2> QED
    BY <1>2, <2>2, <2>3 DEF r
<1>5. z = w
  BY <1>3, <1>4
<1> QED
  BY <1>2, <1>5 DEF r, z

LEMMA TrimBothSolid ==
  ASSUME NEW w \in Seq(Chars), w # <<>>, w[1] # Blank, w[Len(w)] # Blank
  PROVE  TrimBoth(w) = w
<1> DEFINE r == Reverse(w)
<1>1. TrimLeft(w) = w
  BY TrimLeftSolid
<1>2. Len(w) \in Nat /\ 1 \in 1..Len(w) /\ (Len(w) - 1) + 1 = Len(w)
  <2>1. Len(w) \in Nat \ {0}
    BY EmptySeq
  <2> QED
    BY <2>1
<1>3. r \in Seq(Chars) /\ Len(r) = Len(w) /\ r[1] = w[Len(w)] /\ Reverse(r) = w
  BY <1>2, ReverseFacts
<1> HIDE DEF r
<1>4. r # <<>>
  BY <1>2, <1>3, EmptySeq
<1>5. TrimLeft(r) = r
  BY <1>3, <1>4, TrimLeftSolid
<1> QED
  BY <1>1, <1>3, <1>5 DEF TrimBoth, r

(* parse within the quotes: the word is what was read of the argument.     *)
InQuote(s, b) ==
  /\ s.esc = FALSE /\ s.quote = "q" /\ s.brace = FALSE /\ s.inEnv = FALSE /\ s.missing = FALSE
  /\ s.words = <<<<"a">>>> /\ s.buf = b
Plain(r) == r \notin {"q", "e", "$", "}"}

LEMMA QuotedStep ==
  ASSUME NEW s \in ParseStates, NEW b \in Seq(Chars), NEW r \in Chars,
         s.err = "", InQuote(s, b), Plain(r), ParseChar(s, r).err = ""
  PROVE  InQuote(ParseChar(s, r), Append(b, r))
<1> DEFINE u == ParseChar(s, r)
           v == Write(s, r)
<1>0. s.esc = FALSE /\ s.quote = "q" /\ s.brace = FALSE /\ s.inEnv = FALSE
  BY DEF InQuote
<1>1. u = CASE r \in Quotes -> ParseQuote(s, r)
            [] r = "e" -> [s EXCEPT !.esc = TRUE]
            [] r = "$" -> IF s.brace THEN [Write(s, "$") EXCEPT !.brace = FALSE] ELSE [s EXCEPT !.brace = TRUE]
            [] r = "{" -> IF s.brace THEN [s EXCEPT !.inEnv = TRUE, !.brace = FALSE, !.env = <<>>] ELSE Write(s, r)
            [] r = "}" -> IF s.inEnv THEN ParseEnvEnd(s) ELSE Write(s, r)
            [] r = "(" -> [Write(s, r) EXCEPT !.brackets = @ + 1]
            [] r = ")" -> IF s.brackets = 0 THEN [s EXCEPT !.err = "brackets"]
                          ELSE [Write(s, r) EXCEPT !.brackets = @ - 1]
            [] r = " " -> IF s.quote = NoQuote THEN flush(s, FALSE) ELSE Write(s, r)
            [] OTHER -> IF s.inEnv THEN [s EXCEPT !.env = Append(@, r)] ELSE Write(s, r)
  BY <1>0 DEF ParseChar
<1>2. u.err = "" /\ r # "q" /\ r # "e" /\ r # "$" /\ r # "}"
  BY DEF Plain
<1> HIDE DEF u, v
<1>3. u = v \/ u = [v EXCEPT !.brackets = @ + 1] \/ u = [v EXCEPT !.brackets = @ - 1]
  <2>1. CASE r \in Quotes
    <3>1. u = ParseQuote(s, r)
      BY <1>1, <2>1 DEF Quotes
    <3>2. r = "p" /\ s.quote # NoQuote /\ s.quote # r
      BY <1>0, <1>2, <2>1 DEF Quotes, NoQuote
    <3> QED
      BY <3>1, <3>2 DEF ParseQuote, v
  <2>2. CASE r = "{"
    BY <1>0, <1>1, <2>2 DEF v, Quotes
  <2>3. CASE r = "("
    BY <1>1, <2>3 DEF v, Quotes
  <2>4. CASE r = ")"
    <3>1. CASE s.brackets = 0
      <4>1. u = [s EXCEPT !.err = "brackets"]
        BY <1>1, <2>4, <3>1 DEF Quotes
      <4>2. u.err = "brackets"
        BY <4>1 DEF ParseStates
      <4> QED
        BY <1>2, <4>2
    <3>2. CASE s.brackets # 0
      BY <1>1, <2>4, <3>2 DEF v, Quotes
    <3> QED
      BY <3>1, <3>2
  <2>5. CASE r = " "
    BY <1>0, <1>1, <2>5 DEF v, Quotes, NoQuote
  <2>6. CASE r \notin Quotes \union {"{", "(", ")", " "}
    BY <1>0, <1>1, <1>2, <2>6 DEF v
  <2> QED
    BY <2>1, <2>2, <2>3, <2>4, <2>5, <2>6
<1>4. v \in ParseStates
  BY WriteKeeps DEF v
<1>5. InQuote(v, Append(b, r))
  BY DEF v, Write, InQuote, ParseStates
<1>6. u = v \/ (/\ u.esc = v.esc /\ u.quote = v.quote /\ u.brace = v.brace /\ u.inEnv = v.inEnv
                /\ u.missing = v.missing /\ u.words = v.words /\ u.buf = v.buf)
  BY <1>3, <1>4 DEF ParseStates
<1>7. InQuote(u, Append(b, r))
  BY <1>5, <1>6 DEF InQuote
<1> QED
  BY <1>7 DEF u

LEMMA QuotedOpens ==
  ASSUME NEW s \in Seq(Chars), NEW p \in [0..Len(s) -> ParseStates], Len(s) >= 3,
         s[1] = "a", s[2] = Blank, s[3] = "q", ParseRun(p, s)
  PROVE  InQuote(p[3], <<>>) /\ p[3].err = ""
<1> DEFINE w == <<"a">>
<1>0. 1 \in 1..Len(s) /\ 2 \in 1..Len(s) /\ 3 \in 1..Len(s)
  OBVIOUS
<1>a. p[1] \in ParseStates /\ p[2] \in ParseStates
  BY <1>0
<1>1. p[0] = ParseStart /\ p[1] = ParseChar(p[0], "a") /\ p[2] = ParseChar(p[1], Blank) /\ p[3] = ParseChar(p[2], "q")
  <2>1. p[1] = ParseChar(p[1 - 1], s[1]) /\ p[2] = ParseChar(p[2 - 1], s[2]) /\ p[3] = ParseChar(p[3 - 1], s[3])
    BY <1>0 DEF ParseRun
  <2>2. 1 - 1 = 0 /\ 2 - 1 = 1 /\ 3 - 1 = 2
    OBVIOUS
  <2> QED
    BY <2>1, <2>2 DEF ParseRun
<1>2. /\ p[0].esc = FALSE /\ p[0].brace = FALSE /\ p[0].inEnv = FALSE /\ p[0].err = "" /\ p[0].buf = <<>>
      /\ p[0].quote = NoQuote /\ p[0].brackets = 0 /\ p[0].words = <<>> /\ p[0].missing = FALSE
  <2>1. p[0] = ParseStart
    BY <1>1
  <2>2. /\ ParseStart.esc = FALSE /\ ParseStart.brace = FALSE /\ ParseStart.inEnv = FALSE /\ ParseStart.err = ""
        /\ ParseStart.buf = <<>> /\ ParseStart.quote = NoQuote /\ ParseStart.brackets = 0
        /\ ParseStart.words = <<>> /\ ParseStart.missing = FALSE
    BY Zenon DEF ParseStart
  <2> QED
    BY <2>1, <2>2
<1>3. p[1] = [ParseStart EXCEPT !.buf = w]
  <2>1. p[1] = Write(p[0], "a")
    BY <1>1, <1>2 DEF ParseChar, Quotes
  <2>2. Append(<<>>, "a") = w
    OBVIOUS
  <2> QED
    BY <1>1, <1>2, <2>1, <2>2 DEF Write
<1>4. /\ p[1].esc = FALSE /\ p[1].brace = FALSE /\ p[1].inEnv = FALSE /\ p[1].err = "" /\ p[1].buf = w
      /\ p[1].quote = NoQuote /\ p[1].brackets = 0 /\ p[1].words = <<>> /\ p[1].missing = FALSE
  BY <1>3 DEF ParseStart
<1>5. p[2] = flush(p[1], FALSE)
  BY <1>1, <1>4 DEF ParseChar, Quotes, Blank
<1>6. TrimLeft(w) = w /\ w # <<>>
  <2>1. w \in Seq(Chars) /\ w[1] = "a" /\ w # <<>>
    BY DEF Chars
  <2>2. w[1] # Blank
    BY <2>1 DEF Blank
  <2> HIDE DEF w
  <2> QED
    BY <2>1, <2>2, TrimLeftSolid
<1>8. /\ p[2].esc = FALSE /\ p[2].brace = FALSE /\ p[2].inEnv = FALSE /\ p[2].err = "" /\ p[2].buf = <<>>
      /\ p[2].quote = NoQuote /\ p[2].brackets = 0 /\ p[2].words = <<w>> /\ p[2].missing = FALSE
  <2>1. p[2] = [p[1] EXCEPT !.words = Append(@, TrimLeft(p[1].buf)), !.buf = <<>>]
    BY <1>4, <1>5, <1>6 DEF flush
  <2>2. p[2] = [p[1] EXCEPT !.words = Append(@, w), !.buf = <<>>]
    BY <1>4, <1>6, <2>1
  <2>3. Append(<<>>, w) = <<w>>
    OBVIOUS
  <2> HIDE DEF w
  <2>4. p[2].esc = p[1].esc /\ p[2].brace = p[1].brace /\ p[2].inEnv = p[1].inEnv /\ p[2].err = p[1].err
    BY <1>a, <2>2, Zenon DEF ParseStates
  <2>5. p[2].quote = p[1].quote /\ p[2].brackets = p[1].brackets /\ p[2].missing = p[1].missing
    BY <1>a, <2>2, Zenon DEF ParseStates
  <2>6. p[2].buf = <<>> /\ p[2].words = Append(p[1].words, w)
    BY <1>a, <2>2, Zenon DEF ParseStates
  <2> QED
    BY <1>4, <2>3, <2>4, <2>5, <2>6
<1> HIDE DEF w
<1> DEFINE z == [p[2] EXCEPT !.quote = "q"]
<1>9. /\ z.esc = FALSE /\ z.brace = FALSE /\ z.inEnv = FALSE /\ z.err = "" /\ z.buf = <<>>
      /\ z.quote = "q" /\ z.words = <<w>> /\ z.missing = FALSE
  BY <1>8, <1>a DEF ParseStates
<1>10. p[3] = flush(z, FALSE)
  <2>1. p[3] = ParseQuote(p[2], "q")
    BY <1>1, <1>8 DEF ParseChar, Quotes
  <2> QED
    BY <1>8, <2>1 DEF ParseQuote, NoQuote
<1> HIDE DEF z
<1>11. p[3] = z
  BY <1>9, <1>10, TrimLeftEmpty DEF flush
<1> QED
  BY <1>9, <1>11 DEF InQuote, w

(* A run of parse that was refused stays refused.                          *)
LEMMA RefusedStays ==
  ASSUME NEW s \in Seq(Chars), NEW p \in [0..Len(s) -> ParseStates], ParseRun(p, s), Fine(p[Len(s)])
  PROVE  \A i \in 0..Len(s) : Fine(p[i])
<1> DEFINE n == Len(s)
           T == {i \in 0..n : Fine(p[n - i])}
<1>1. n \in Nat
  OBVIOUS
<1>2. 0 \in T
  <2>1. n - 0 = n /\ 0 \in 0..n
    BY <1>1
  <2> QED
    BY <2>1
<1>3. ASSUME NEW i \in 0..(n - 1), i \in T PROVE i + 1 \in T
  <2> DEFINE m == n - i
             v == p[m - 1]
  <2>1. m \in 1..n /\ m - 1 \in 0..n /\ i + 1 \in 0..n /\ n - (i + 1) = m - 1
    BY <1>1
  <2>2. Fine(p[m])
    BY <1>3
  <2> HIDE DEF m
  <2>3. p[m] = ParseChar(v, s[m]) /\ v \in ParseStates /\ s[m] \in Chars
    BY <2>1 DEF ParseRun
  <2> HIDE DEF v
  <2>4. Fine(v)
    BY <2>2, <2>3, ParseStep DEF Fine
  <2> QED
    BY <2>1, <2>4 DEF v
<1> HIDE DEF T
<1>4. 0..n \subseteq T
  BY <1>1, <1>2, <1>3, BoundedInduction
<1>5. ASSUME NEW i \in 0..n PROVE Fine(p[i])
  <2>1. n - i \in 0..n /\ n - (n - i) = i
    BY <1>1
  <2>2. n - i \in T
    BY <1>4, <2>1
  <2> QED
    BY <2>1, <2>2 DEF T
<1> QED
  BY <1>5

LEMMA AppendPair ==
  ASSUME NEW b, NEW c
  PROVE  Append(<<b>>, c) = <<b, c>>
<1> DEFINE S == {b, c}
           x == Append(<<b>>, c)
           y == <<b, c>>
<1>1. <<b>> \in Seq(S) /\ Len(<<b>>) = 1 /\ c \in S
  OBVIOUS
<1>2. x \in Seq(S) /\ Len(x) = 2 /\ x[1] = b /\ x[2] = c
  BY <1>1
<1>3. y \in Seq(S) /\ Len(y) = 2 /\ y[1] = b /\ y[2] = c
  OBVIOUS
<1> HIDE DEF x, y, S
<1>4. \A i \in 1..2 : x[i] = y[i]
  BY <1>2, <1>3
<1>5. x = y
  BY <1>2, <1>3, <1>4, SeqEqual
<1> QED
  BY <1>5 DEF x, y

LEMMA QuotedParses ==
  ASSUME NEW w \in Seq(Chars), \A i \in 1..Len(w) : Plain(w[i]),
         Fine(ParseScan(Quoted(w))), ParseScan(Quoted(w)).brackets = 0
  PROVE  parse(Quoted(w)) = [err |-> "", words |-> <<<<"a">>, w>>]
<1> DEFINE s == Quoted(w)
           n == Len(w)
           z == ParseScan(s)
<1>1. /\ s \in Seq(Chars) /\ Len(s) = n + 4 /\ n \in Nat
      /\ s[1] = "a" /\ s[2] = Blank /\ s[3] = "q" /\ s[n + 4] = "q"
      /\ \A i \in 1..n : s[i + 3] = w[i]
  BY QuotedText
<1>a. Fine(z) /\ z.brackets = 0
  OBVIOUS
<1> HIDE DEF s, z
<1>2. PICK p \in [0..Len(s) -> ParseStates] : ParseRun(p, s) /\ z = p[Len(s)]
  BY <1>1, ParsePrefixes DEF z
<1>3. \A i \in 0..(n + 4) : Fine(p[i]) /\ p[i] \in ParseStates
  BY <1>1, <1>2, <1>a, RefusedStays
<1>b. InQuote(p[3], <<>>)
  <2>1. Len(s) >= 3
    BY <1>1
  <2> QED
    BY <1>1, <1>2, <2>1, QuotedOpens
<1> DEFINE T == {i \in 0..n : InQuote(p[i + 3], SubSeq(w, 1, i))}
<1>4. 0 \in T
  <2>1. SubSeq(w, 1, 0) = <<>> /\ 0 + 3 = 3 /\ 0 \in 0..n
    BY <1>1
  <2> QED
    BY <1>b, <2>1
<1>5. ASSUME NEW i \in 0..(n - 1), i \in T PROVE i + 1 \in T
  <2> DEFINE m == i + 1
             v == p[m + 2]
             b == SubSeq(w, 1, i)
  <2>1. /\ m \in 1..n /\ m \in 0..n /\ m + 3 \in 1..Len(s) /\ (m + 3) - 1 = m + 2 /\ i + 3 = m + 2
        /\ m + 2 \in 0..(n + 4) /\ m + 3 \in 0..(n + 4)
    BY <1>1
  <2>2. InQuote(v, b)
    BY <1>5, <2>1
  <2>3. b \in Seq(Chars) /\ SubSeq(w, 1, m) = Append(b, w[m])
    <3>1. b \in Seq(Chars) /\ Len(b) = i /\ \A k \in 1..i : b[k] = w[k]
      BY <1>1
    <3>2. SubSeq(w, 1, m) \in Seq(Chars) /\ Len(SubSeq(w, 1, m)) = m /\ \A k \in 1..m : SubSeq(w, 1, m)[k] = w[k]
      BY <1>1, <2>1
    <3>3. w[m] \in Chars
      BY <2>1
    <3> HIDE DEF b
    <3>4. Append(b, w[m]) \in Seq(Chars) /\ Len(Append(b, w[m])) = m
          /\ \A k \in 1..m : Append(b, w[m])[k] = w[k]
      BY <1>1, <3>1, <3>3
    <3>5. ASSUME NEW x \in Seq(Chars), NEW y \in Seq(Chars), Len(x) = m, Len(y) = m,
                 \A k \in 1..m : x[k] = w[k], \A k \in 1..m : y[k] = w[k]
          PROVE  x = y
      BY <3>5, SeqEqual
    <3> QED
      BY <3>1, <3>2, <3>4, <3>5
  <2>4. v \in ParseStates /\ Fine(v) /\ Fine(p[m + 3])
    BY <1>3, <2>1
  <2>5. p[m + 3] = ParseChar(v, w[m])
    BY <1>1, <1>2, <2>1 DEF ParseRun
  <2>6. w[m] \in Chars /\ Plain(w[m])
    BY <2>1
  <2> HIDE DEF v, b, m
  <2>7. InQuote(p[m + 3], Append(b, w[m]))
    BY <2>2, <2>3, <2>4, <2>5, <2>6, QuotedStep DEF Fine
  <2> QED
    BY <2>1, <2>3, <2>7 DEF m
<1> HIDE DEF T
<1>6. 0..n \subseteq T
  BY <1>1, <1>4, <1>5, BoundedInduction
<1> DEFINE v == p[n + 3]
           x == [v EXCEPT !.quote = NoQuote]
<1>7. InQuote(v, w) /\ v \in ParseStates /\ Fine(v)
  <2>1. SubSeq(w, 1, n) = w
    BY SubSeqFull
  <2>2. n \in T /\ n + 3 \in 0..(n + 4)
    BY <1>1, <1>6
  <2> QED
    BY <1>3, <2>1, <2>2 DEF T
<1>8. z = ParseChar(v, "q")
  <2>1. n + 4 \in 1..Len(s) /\ (n + 4) - 1 = n + 3
    BY <1>1
  <2> QED
    BY <1>1, <1>2, <2>1 DEF ParseRun
<1>9. z \in ParseStates
  BY <1>1, <1>2, <1>3
<1> HIDE DEF v
<1>10. z = flush(x, TRUE)
  <2>1. z = ParseQuote(v, "q")
    BY <1>7, <1>8 DEF ParseChar, InQuote, Quotes, Fine
  <2> QED
    BY <1>7, <2>1 DEF ParseQuote, InQuote, NoQuote
<1>11. z = [x EXCEPT !.words = Append(@, x.buf), !.buf = <<>>]
  BY <1>10 DEF flush
<1>12. x.words = <<<<"a">>>> /\ x.buf = w /\ x.quote = NoQuote /\ x.brace = FALSE /\ x.inEnv = FALSE /\ x.missing = FALSE
       /\ x \in ParseStates
  BY <1>7 DEF InQuote, ParseStates
<1> HIDE DEF x
<1>13. z.quote = NoQuote /\ z.brace = FALSE /\ z.inEnv = FALSE /\ z.missing = FALSE /\ z.buf = <<>>
       /\ z.words = Append(<<<<"a">>>>, w)
  BY <1>11, <1>12 DEF ParseStates
<1>14. Append(<<<<"a">>>>, w) = <<<<"a">>, w>>
  BY AppendPair, Zenon
<1>15. flush(z, FALSE) = z
  BY <1>13, TrimLeftEmpty DEF flush
<1> QED
  BY <1>13, <1>14, <1>15, <1>a DEF parse, z, s, Fine

(* splitPipe within the quotes: nothing is cut.                            *)
Whole(s, b) == s.esc = FALSE /\ s.quote = "q" /\ s.parts = <<>> /\ s.cur = b

LEMMA WholeStep ==
  ASSUME NEW s \in PipeStates, NEW b \in Seq(Chars), NEW r \in Chars, Whole(s, b), Plain(r)
  PROVE  Whole(PipeChar(s, r), Append(b, r))
<1> DEFINE u == PipeChar(s, r)
           keep == [s EXCEPT !.cur = Append(@, r)]
<1>0. s.esc = FALSE /\ s.quote = "q" /\ r # "q" /\ r # "e" /\ s.quote # NoQuote
  BY DEF Whole, Plain, NoQuote
<1>1. u = CASE r = "e" -> [keep EXCEPT !.esc = TRUE]
            [] r \in Quotes -> CASE OpensQuote(s) -> [keep EXCEPT !.quote = r]
                                 [] s.quote = r -> [keep EXCEPT !.quote = NoQuote]
                                 [] OTHER -> keep
            [] r = "(" -> [keep EXCEPT !.brackets = @ + 1]
            [] r = ")" -> IF s.brackets > 0 THEN [keep EXCEPT !.brackets = @ - 1] ELSE keep
            [] r = "|" /\ s.quote = NoQuote /\ s.brackets = 0 ->
                 [s EXCEPT !.parts = Append(@, TrimBoth(s.cur)), !.cur = <<>>]
            [] OTHER -> keep
  BY <1>0 DEF PipeChar
<1>a. keep \in PipeStates /\ Whole(keep, Append(b, r))
  <2>1. s.cur \in Seq(Chars)
    BY DEF PipeStates
  <2>2. Append(s.cur, r) \in Seq(Chars)
    BY <2>1
  <2> QED
    BY <2>2 DEF PipeStates, Whole
<1> HIDE DEF u, keep
<1>2. u = keep \/ u = [keep EXCEPT !.brackets = @ + 1] \/ u = [keep EXCEPT !.brackets = @ - 1]
  <2>1. CASE r \in Quotes
    <3>1. ~OpensQuote(s) /\ s.quote # r
      BY <1>0 DEF OpensQuote
    <3> QED
      BY <1>0, <1>1, <2>1, <3>1 DEF Quotes
  <2>2. CASE r = "("
    BY <1>1, <2>2 DEF Quotes
  <2>3. CASE r = ")"
    BY <1>1, <2>3 DEF Quotes
  <2>4. CASE r \notin Quotes /\ r # "(" /\ r # ")"
    BY <1>0, <1>1, <2>4
  <2> QED
    BY <2>1, <2>2, <2>3, <2>4
<1>3. u = keep \/ (u.esc = keep.esc /\ u.quote = keep.quote /\ u.parts = keep.parts /\ u.cur = keep.cur)
  BY <1>2, <1>a DEF PipeStates
<1>4. Whole(u, Append(b, r))
  BY <1>3, <1>a DEF Whole
<1> QED
  BY <1>4 DEF u

LEMMA WholeOpens ==
  ASSUME NEW s \in Seq(Chars), NEW a \in [0..Len(s) -> PipeStates], Len(s) >= 3,
         s[1] = "a", s[2] = Blank, s[3] = "q", PipeRun(a, s)
  PROVE  Whole(a[3], <<"a", Blank, "q">>)
<1>0. 1 \in 1..Len(s) /\ 2 \in 1..Len(s) /\ 3 \in 1..Len(s)
  OBVIOUS
<1>a. a[0] \in PipeStates /\ a[1] \in PipeStates /\ a[2] \in PipeStates
  BY <1>0
<1>1. a[0] = PipeStart /\ a[1] = PipeChar(a[0], "a") /\ a[2] = PipeChar(a[1], Blank) /\ a[3] = PipeChar(a[2], "q")
  <2>1. a[1] = PipeChar(a[1 - 1], s[1]) /\ a[2] = PipeChar(a[2 - 1], s[2]) /\ a[3] = PipeChar(a[3 - 1], s[3])
    BY <1>0 DEF PipeRun
  <2>2. 1 - 1 = 0 /\ 2 - 1 = 1 /\ 3 - 1 = 2
    OBVIOUS
  <2> QED
    BY <2>1, <2>2 DEF PipeRun
<1>2. a[0].esc = FALSE /\ a[0].quote = NoQuote /\ a[0].brackets = 0 /\ a[0].parts = <<>> /\ a[0].cur = <<>>
  BY <1>1 DEF PipeStart
<1>3. a[1] = [a[0] EXCEPT !.cur = Append(@, "a")]
  BY <1>1, <1>2 DEF PipeChar, Quotes
<1>4. a[1].esc = FALSE /\ a[1].quote = NoQuote /\ a[1].brackets = 0 /\ a[1].parts = <<>> /\ a[1].cur = Append(<<>>, "a")
  BY <1>2, <1>3, <1>a DEF PipeStates
<1>5. a[2] = [a[1] EXCEPT !.cur = Append(@, Blank)]
  BY <1>1, <1>4 DEF PipeChar, Quotes, Blank
<1>6. a[2].esc = FALSE /\ a[2].quote = NoQuote /\ a[2].brackets = 0 /\ a[2].parts = <<>>
      /\ a[2].cur = Append(Append(<<>>, "a"), Blank)
  BY <1>4, <1>5, <1>a DEF PipeStates
<1> DEFINE keep == [a[2] EXCEPT !.cur = Append(@, "q")]
<1>7. a[3] = [keep EXCEPT !.quote = "q"]
  BY <1>1, <1>6 DEF PipeChar, Quotes, OpensQuote, NoQuote
<1>8. keep \in PipeStates /\ keep.esc = FALSE /\ keep.parts = <<>>
      /\ keep.cur = Append(Append(Append(<<>>, "a"), Blank), "q")
  <2>1. a[2].cur \in Seq(Chars) /\ "q" \in Chars
    BY <1>a DEF PipeStates, Chars
  <2>2. Append(a[2].cur, "q") \in Seq(Chars)
    BY <2>1
  <2> QED
    BY <1>6, <1>a, <2>2 DEF PipeStates
<1> HIDE DEF keep
<1>9. a[3].esc = FALSE /\ a[3].quote = "q" /\ a[3].parts = <<>> /\ a[3].cur = keep.cur
  BY <1>7, <1>8 DEF PipeStates
<1>10. ASSUME NEW x, NEW y, NEW c PROVE Append(Append(Append(<<>>, x), y), c) = <<x, y, c>>
  OBVIOUS
<1>11. a[3].cur = <<"a", Blank, "q">>
  BY <1>8, <1>9, <1>10, Zenon
<1> QED
  BY <1>9, <1>11 DEF Whole

(* One character more of a text.                                           *)
LEMMA PrefixGrows ==
  ASSUME NEW s \in Seq(Chars), NEW i \in 1..Len(s)
  PROVE  SubSeq(s, 1, i - 1) \in Seq(Chars) /\ SubSeq(s, 1, i) = Append(SubSeq(s, 1, i - 1), s[i])
<1> DEFINE b == SubSeq(s, 1, i - 1)
           c == SubSeq(s, 1, i)
<1>1. Len(s) \in Nat /\ s[i] \in Chars
  OBVIOUS
<1>2. b \in Seq(Chars) /\ Len(b) = i - 1 /\ \A k \in 1..(i - 1) : b[k] = s[k]
  BY <1>1
<1>3. c \in Seq(Chars) /\ Len(c) = i /\ \A k \in 1..i : c[k] = s[k]
  BY <1>1
<1> HIDE DEF b, c
<1>4. Append(b, s[i]) \in Seq(Chars) /\ Len(Append(b, s[i])) = i /\ \A k \in 1..i : Append(b, s[i])[k] = s[k]
  BY <1>1, <1>2
<1>5. ASSUME NEW x \in Seq(Chars), NEW y \in Seq(Chars), Len(x) = i, Len(y) = i,
             \A k \in 1..i : x[k] = s[k], \A k \in 1..i : y[k] = s[k]
      PROVE  x = y
  BY <1>5, SeqEqual
<1>6. c = Append(b, s[i])
  BY <1>3, <1>4, <1>5
<1> QED
  BY <1>2, <1>6 DEF b, c

LEMMA QuotedPipes ==
  ASSUME NEW w \in Seq(Chars), \A i \in 1..Len(w) : Plain(w[i])
  PROVE  splitPipe(Quoted(w)) = <<Quoted(w)>>
<1> DEFINE s == Quoted(w)
           n == Len(w)
           z == PipeScan(s)
<1>1. /\ s \in Seq(Chars) /\ Len(s) = n + 4 /\ n \in Nat
      /\ s[1] = "a" /\ s[2] = Blank /\ s[3] = "q" /\ s[n + 4] = "q"
      /\ \A i \in 1..n : s[i + 3] = w[i]
  BY QuotedText
<1> HIDE DEF s, z
<1>2. PICK a \in [0..Len(s) -> PipeStates] : PipeRun(a, s) /\ z = a[Len(s)]
  BY <1>1, PipePrefixes DEF z
<1>b. Whole(a[3], SubSeq(s, 1, 3))
  <2>1. Len(s) >= 3
    BY <1>1
  <2>2. Whole(a[3], <<"a", Blank, "q">>)
    BY <1>1, <1>2, <2>1, WholeOpens
  <2> DEFINE b == <<"a", Blank, "q">>
             c == SubSeq(s, 1, 3)
  <2>a. "a" \in Chars /\ Blank \in Chars /\ "q" \in Chars
    BY DEF Chars
  <2>b. b \in Seq(Chars) /\ Len(b) = 3
    BY <2>a
  <2>c. b[1] = s[1] /\ b[2] = s[2] /\ b[3] = s[3]
    BY <1>1
  <2>d. c \in Seq(Chars) /\ Len(c) = 3 /\ c[1] = s[1] /\ c[2] = s[2] /\ c[3] = s[3]
    BY <1>1
  <2> HIDE DEF b, c
  <2>e. \A i \in 1..3 : c[i] = b[i]
    BY <2>c, <2>d
  <2>3. c = b
    BY <2>b, <2>d, <2>e, SeqEqual
  <2> QED
    BY <2>2, <2>3 DEF b, c
<1> DEFINE T == {i \in 0..n : Whole(a[i + 3], SubSeq(s, 1, i + 3))}
<1>4. 0 \in T
  <2>1. 0 + 3 = 3 /\ 0 \in 0..n
    BY <1>1
  <2> QED
    BY <1>b, <2>1
<1>5. ASSUME NEW i \in 0..(n - 1), i \in T PROVE i + 1 \in T
  <2> DEFINE m == (i + 1) + 3
             v == a[m - 1]
             b == SubSeq(s, 1, m - 1)
  <2>1. m \in 1..Len(s) /\ m - 1 = i + 3 /\ m - 1 \in 0..Len(s) /\ i + 1 \in 1..n /\ i + 1 \in 0..n
    BY <1>1
  <2>2. Whole(v, b)
    BY <1>5, <2>1
  <2>3. s[m] = w[i + 1]
    BY <1>1, <2>1
  <2> HIDE DEF m
  <2>4. b \in Seq(Chars) /\ SubSeq(s, 1, m) = Append(b, s[m])
    BY <1>1, <2>1, PrefixGrows
  <2>a. a[m] = PipeChar(v, s[m])
    BY <1>2, <2>1 DEF PipeRun
  <2>b. v \in PipeStates
    BY <2>1
  <2>c. s[m] \in Chars
    BY <1>1, <2>1
  <2>5. a[m] = PipeChar(v, s[m]) /\ v \in PipeStates /\ s[m] \in Chars
    BY <2>a, <2>b, <2>c
  <2>6. Plain(s[m])
    BY <2>1, <2>3
  <2> HIDE DEF v, b
  <2>7. Whole(a[m], SubSeq(s, 1, m))
    BY <2>2, <2>4, <2>5, <2>6, WholeStep
  <2> QED
    BY <2>1, <2>7 DEF m
<1> HIDE DEF T
<1>6. 0..n \subseteq T
  BY <1>1, <1>4, <1>5, BoundedInduction
<1> DEFINE v == a[n + 3]
           b == SubSeq(s, 1, n + 3)
<1>7. Whole(v, b) /\ v \in PipeStates
  <2>1. n \in T /\ n + 3 \in 0..Len(s)
    BY <1>1, <1>6
  <2> QED
    BY <2>1 DEF T
<1>8. z = PipeChar(v, "q")
  <2>1. n + 4 \in 1..Len(s) /\ (n + 4) - 1 = n + 3
    BY <1>1
  <2> QED
    BY <1>1, <1>2, <2>1 DEF PipeRun
<1>9. b \in Seq(Chars) /\ s = Append(b, "q")
  <2>1. n + 4 \in 1..Len(s) /\ (n + 4) - 1 = n + 3
    BY <1>1
  <2>2. SubSeq(s, 1, (n + 4) - 1) \in Seq(Chars) /\ SubSeq(s, 1, n + 4) = Append(SubSeq(s, 1, (n + 4) - 1), s[n + 4])
    BY <1>1, <2>1, PrefixGrows
  <2>3. SubSeq(s, 1, Len(s)) = s
    BY <1>1, SubSeqFull
  <2> QED
    BY <1>1, <2>1, <2>2, <2>3
<1> HIDE DEF v, b
<1> DEFINE keep == [v EXCEPT !.cur = Append(@, "q")]
<1>10. z = [keep EXCEPT !.quote = NoQuote]
  BY <1>7, <1>8 DEF PipeChar, Whole, Quotes, NoQuote, OpensQuote
<1>11. keep \in PipeStates /\ keep.cur = s /\ keep.parts = <<>>
  <2>1. Append(b, "q") \in Seq(Chars)
    BY <1>1, <1>9
  <2> QED
    BY <1>7, <1>9, <2>1 DEF PipeStates, Whole
<1> HIDE DEF keep
<1>12. z.cur = s /\ z.parts = <<>>
  BY <1>10, <1>11 DEF PipeStates
<1>13. s # <<>>
  BY <1>1, EmptySeq
<1>14. TrimBoth(s) = s
  <2>1. s[1] # Blank /\ s[Len(s)] # Blank
    BY <1>1 DEF Blank
  <2> QED
    BY <1>1, <1>13, <2>1, TrimBothSolid
<1>15. Append(<<>>, s) = <<s>>
  OBVIOUS
<1>16. splitPipe(s) = <<s>>
  BY <1>12, <1>13, <1>14, <1>15 DEF splitPipe, z
<1> QED
  BY <1>16 DEF s

LEMMA QuotesKeepOn ==
  ASSUME NEW w \in Seq(Chars), ToSet(w) \intersect {"q", "e", "$", "}"} = {},
         Fine(ParseScan(Quoted(w))), ParseScan(Quoted(w)).brackets = 0
  PROVE  /\ parse(Quoted(w)) = [err |-> "", words |-> <<<<"a">>, w>>]
         /\ splitPipe(Quoted(w)) = <<Quoted(w)>>
<1>1. \A i \in DOMAIN w : Plain(w[i])
  BY DEF ToSet, Plain
<1>2. DOMAIN w = 1..Len(w)
  BY LenProperties, Zenon
<1>3. \A i \in 1..Len(w) : Plain(w[i])
  BY <1>1, <1>2, Zenon
<1> QED
  BY <1>3, QuotedParses, QuotedPipes, Zenon

-----------------------------------------------------------------------------
(* The alternatives of a line.                                             *)
Fresh(t) == t.esc = FALSE /\ t.quote = NoQuote /\ t.brackets = 0
Closed(t) == t.quote = NoQuote /\ t.brackets = 0

(* A character is a cut or goes to the alternative that is being read.     *)
LEMMA PipeWrites ==
  ASSUME NEW s \in PipeStates, NEW r \in Chars
  PROVE  \/ /\ Closed(s) /\ Fresh(PipeChar(s, r)) /\ PipeChar(s, r).cur = <<>>
            /\ PipeChar(s, r).parts = Append(s.parts, TrimBoth(s.cur))
         \/ PipeChar(s, r).cur = Append(s.cur, r) /\ PipeChar(s, r).parts = s.parts
<1> DEFINE u == PipeChar(s, r)
           keep == [s EXCEPT !.cur = Append(@, r)]
           cut == [s EXCEPT !.parts = Append(@, TrimBoth(s.cur)), !.cur = <<>>]
<1>1. u = IF s.esc THEN [keep EXCEPT !.esc = FALSE]
          ELSE CASE r = "e" -> [keep EXCEPT !.esc = TRUE]
                 [] r \in Quotes -> CASE OpensQuote(s) -> [keep EXCEPT !.quote = r]
                                      [] s.quote = r -> [keep EXCEPT !.quote = NoQuote]
                                      [] OTHER -> keep
                 [] r = "(" -> [keep EXCEPT !.brackets = @ + 1]
                 [] r = ")" -> IF s.brackets > 0 THEN [keep EXCEPT !.brackets = @ - 1] ELSE keep
                 [] r = "|" /\ s.quote = NoQuote /\ s.brackets = 0 -> cut
                 [] OTHER -> keep
  BY DEF PipeChar
<1>2. s.cur \in Seq(Chars) /\ s.esc \in BOOLEAN
  BY DEF PipeStates
<1>3. keep \in PipeStates /\ keep.cur = Append(s.cur, r) /\ keep.parts = s.parts
  <2>1. Append(s.cur, r) \in Seq(Chars)
    BY <1>2
  <2> QED
    BY <2>1 DEF PipeStates
<1>4. cut.cur = <<>> /\ cut.parts = Append(s.parts, TrimBoth(s.cur))
      /\ cut.esc = s.esc /\ cut.quote = s.quote /\ cut.brackets = s.brackets
  BY DEF PipeStates
<1> HIDE DEF u, keep, cut
<1>5. \/ u = keep \/ u = [keep EXCEPT !.esc = FALSE] \/ u = [keep EXCEPT !.esc = TRUE]
      \/ u = [keep EXCEPT !.quote = r] \/ u = [keep EXCEPT !.quote = NoQuote]
      \/ u = [keep EXCEPT !.brackets = @ + 1] \/ u = [keep EXCEPT !.brackets = @ - 1]
      \/ u = cut /\ ~s.esc /\ s.quote = NoQuote /\ s.brackets = 0
  <2>1. CASE s.esc
    BY <1>1, <2>1
  <2>2. CASE ~s.esc /\ r = "e"
    BY <1>1, <2>2 DEF Quotes
  <2>3. CASE ~s.esc /\ r \in Quotes
    <3>1. u = CASE OpensQuote(s) -> [keep EXCEPT !.quote = r]
                [] s.quote = r -> [keep EXCEPT !.quote = NoQuote]
                [] OTHER -> keep
      BY <1>1, <2>3 DEF Quotes
    <3>2. CASE OpensQuote(s)
      <4>1. s.quote # r
        BY <2>3, <3>2 DEF OpensQuote, Quotes, NoQuote
      <4> QED
        BY <3>1, <3>2, <4>1
    <3>3. CASE ~OpensQuote(s)
      BY <3>1, <3>3
    <3> QED
      BY <3>2, <3>3
  <2>4. CASE ~s.esc /\ r = "("
    BY <1>1, <2>4 DEF Quotes
  <2>5. CASE ~s.esc /\ r = ")"
    BY <1>1, <2>5 DEF Quotes
  <2>6. CASE ~s.esc /\ r \notin Quotes \union {"e", "(", ")"}
    BY <1>1, <2>6
  <2> QED
    BY <2>1, <2>2, <2>3, <2>4, <2>5, <2>6
<1>6. \/ u.cur = keep.cur /\ u.parts = keep.parts
      \/ u = cut /\ ~s.esc /\ s.quote = NoQuote /\ s.brackets = 0
  BY <1>3, <1>5 DEF PipeStates
<1>7. ASSUME u = cut, ~s.esc, s.quote = NoQuote, s.brackets = 0
      PROVE  Closed(s) /\ Fresh(u) /\ u.cur = <<>> /\ u.parts = Append(s.parts, TrimBoth(s.cur))
  BY <1>2, <1>4, <1>7 DEF Closed, Fresh
<1>8. \/ Closed(s) /\ Fresh(u) /\ u.cur = <<>> /\ u.parts = Append(s.parts, TrimBoth(s.cur))
      \/ u.cur = Append(s.cur, r) /\ u.parts = s.parts
  BY <1>3, <1>6, <1>7
<1> QED
  BY <1>8 DEF u

(* What is read of an alternative is a part of the line, from a place      *)
(* where nothing is open; so is every alternative that was cut, up to a    *)
(* place where nothing is open.                                            *)
IsPart(s, a, v) ==
  \E l, m \in 0..Len(s) : l <= m /\ Fresh(a[l]) /\ Closed(a[m]) /\ v = SubSeq(s, l + 1, m)
PartsAt(s, a, i) ==
  /\ \E l \in 0..i : Fresh(a[l]) /\ a[i].cur = SubSeq(s, l + 1, i)
  /\ \A j \in 1..Len(a[i].parts) : \E v : IsPart(s, a, v) /\ a[i].parts[j] = TrimBoth(v)

LEMMA SliceGrows ==
  ASSUME NEW s \in Seq(Chars), NEW i \in 1..Len(s), NEW l \in 0..(i - 1)
  PROVE  SubSeq(s, l + 1, i) = Append(SubSeq(s, l + 1, i - 1), s[i])
<1> DEFINE b == SubSeq(s, l + 1, i - 1)
           c == SubSeq(s, l + 1, i)
           n == i - l
<1>1. Len(s) \in Nat /\ s[i] \in Chars /\ n \in Nat
  OBVIOUS
<1>2. b \in Seq(Chars) /\ Len(b) = n - 1 /\ \A k \in 1..(n - 1) : b[k] = s[l + k]
  <2>1. \A k \in (l + 1)..(i - 1) : s[k] \in Chars
    BY <1>1
  <2>2. /\ b \in Seq(Chars)
        /\ Len(b) = IF l + 1 <= i - 1 THEN (i - 1) - (l + 1) + 1 ELSE 0
        /\ \A k \in 1..((i - 1) - (l + 1) + 1) : b[k] = s[(l + 1) + k - 1]
    BY <2>1, SubSeqProperties
  <2> HIDE DEF b
  <2> QED
    BY <1>1, <2>2
<1>3. c \in Seq(Chars) /\ Len(c) = n /\ \A k \in 1..n : c[k] = s[l + k]
  <2>1. \A k \in (l + 1)..i : s[k] \in Chars
    BY <1>1
  <2>2. /\ c \in Seq(Chars)
        /\ Len(c) = IF l + 1 <= i THEN i - (l + 1) + 1 ELSE 0
        /\ \A k \in 1..(i - (l + 1) + 1) : c[k] = s[(l + 1) + k - 1]
    BY <2>1, SubSeqProperties
  <2> HIDE DEF c
  <2> QED
    BY <1>1, <2>2
<1> HIDE DEF b, c
<1>4. Append(b, s[i]) \in Seq(Chars) /\ Len(Append(b, s[i])) = n
  BY <1>1, <1>2
<1>5. ASSUME NEW k \in 1..n PROVE Append(b, s[i])[k] = s[l + k]
  <2>1. CASE k = n
    BY <1>1, <1>2, <2>1
  <2>2. CASE k # n
    <3>1. k \in 1..(n - 1) /\ k \in 1..Len(b)
      BY <1>1, <1>2, <2>2
    <3> QED
      BY <1>1, <1>2, <3>1
  <2> QED
    BY <2>1, <2>2
<1>6. \A k \in 1..Len(c) : c[k] = Append(b, s[i])[k]
  BY <1>3, <1>5
<1>7. c = Append(b, s[i])
  BY <1>3, <1>4, <1>6, SeqEqual
<1> QED
  BY <1>7 DEF b, c

LEMMA PartsStep ==
  ASSUME NEW s \in Seq(Chars), NEW a \in [0..Len(s) -> PipeStates], PipeRun(a, s),
         NEW i \in 1..Len(s), PartsAt(s, a, i - 1)
  PROVE  PartsAt(s, a, i)
<1> DEFINE v == a[i - 1]
           u == a[i]
           r == s[i]
<1>1. Len(s) \in Nat /\ i - 1 \in 0..Len(s) /\ i \in 0..Len(s) /\ i \in 0..i
  OBVIOUS
<1>2. u = PipeChar(v, r)
  BY <1>1 DEF PipeRun
<1>3. v \in PipeStates /\ r \in Chars
  BY <1>1
<1>4. PICK l \in 0..(i - 1) : Fresh(a[l]) /\ v.cur = SubSeq(s, l + 1, i - 1)
  BY DEF PartsAt
<1>5. \A j \in 1..Len(v.parts) : \E x : IsPart(s, a, x) /\ v.parts[j] = TrimBoth(x)
  BY DEF PartsAt
<1>6. v.parts \in Seq(Seq(Chars)) /\ v.cur \in Seq(Chars)
  BY <1>3 DEF PipeStates
<1>7. CASE u.cur = Append(v.cur, r) /\ u.parts = v.parts
  <2>1. SubSeq(s, l + 1, i) = Append(SubSeq(s, l + 1, i - 1), r)
    BY SliceGrows
  <2>2. l \in 0..i
    BY <1>1
  <2>3. \E k \in 0..i : Fresh(a[k]) /\ u.cur = SubSeq(s, k + 1, i)
    BY <1>4, <1>7, <2>1, <2>2
  <2> HIDE DEF u, v
  <2>4. \A j \in 1..Len(u.parts) : \E x : IsPart(s, a, x) /\ u.parts[j] = TrimBoth(x)
    BY <1>5, <1>7
  <2> QED
    BY <2>3, <2>4 DEF PartsAt, u
<1>8. CASE Closed(v) /\ Fresh(u) /\ u.cur = <<>> /\ u.parts = Append(v.parts, TrimBoth(v.cur))
  <2>1. SubSeq(s, i + 1, i) = <<>>
    BY <1>1, SubSeqEmpty
  <2>2. \E k \in 0..i : Fresh(a[k]) /\ u.cur = SubSeq(s, k + 1, i)
    BY <1>1, <1>8, <2>1
  <2>3. IsPart(s, a, v.cur)
    <3>1. l \in 0..Len(s) /\ l <= i - 1
      BY <1>1
    <3> QED
      BY <1>1, <1>4, <1>8, <3>1 DEF IsPart
  <2>4. TrimBoth(v.cur) \in Seq(Chars)
    BY <1>6, TrimBothType
  <2> HIDE DEF u, v
  <2> DEFINE t == TrimBoth(v.cur)
  <2> HIDE DEF t
  <2>5. u.parts = Append(v.parts, t) /\ t \in Seq(Chars)
    BY <1>8, <2>4 DEF t
  <2>6. ASSUME NEW j \in 1..Len(u.parts) PROVE \E x : IsPart(s, a, x) /\ u.parts[j] = TrimBoth(x)
    <3>0. Len(v.parts) \in Nat /\ Len(u.parts) = Len(v.parts) + 1
      BY <1>6, <2>5
    <3>1. CASE j = Len(v.parts) + 1
      <4>1. u.parts[j] = t
        BY <1>6, <2>5, <3>1
      <4> QED
        BY <2>3, <4>1 DEF t
    <3>2. CASE j # Len(v.parts) + 1
      <4>1. j \in 1..Len(v.parts)
        BY <3>0, <3>2
      <4>2. u.parts[j] = v.parts[j]
        BY <1>6, <2>5, <4>1
      <4> QED
        BY <1>5, <4>1, <4>2
    <3> QED
      BY <3>1, <3>2
  <2> QED
    BY <2>2, <2>6 DEF PartsAt, u
<1> QED
  BY <1>2, <1>3, <1>7, <1>8, PipeWrites

LEMMA PartsRun ==
  ASSUME NEW s \in Seq(Chars), NEW a \in [0..Len(s) -> PipeStates], PipeRun(a, s)
  PROVE  PartsAt(s, a, Len(s))
<1> DEFINE n == Len(s)
           T == {i \in 0..n : PartsAt(s, a, i)}
<1>1. n \in Nat /\ 0 \in 0..n /\ 0 \in 0..0
  OBVIOUS
<1>2. 0 \in T
  <2>1. a[0] = PipeStart
    BY DEF PipeRun
  <2>2. Fresh(a[0]) /\ a[0].cur = <<>> /\ a[0].parts = <<>>
    BY <2>1 DEF Fresh, PipeStart
  <2>3. SubSeq(s, 0 + 1, 0) = <<>>
    BY SubSeqEmpty
  <2>4. Len(a[0].parts) = 0
    BY <2>2
  <2>5. \A j \in 1..Len(a[0].parts) : FALSE
    BY <2>4
  <2>6. PartsAt(s, a, 0)
    BY <1>1, <2>2, <2>3, <2>5 DEF PartsAt
  <2> QED
    BY <1>1, <2>6
<1>3. ASSUME NEW i \in 0..(n - 1), i \in T PROVE i + 1 \in T
  <2> DEFINE m == i + 1
  <2>1. m \in 1..n /\ m - 1 = i /\ m \in 0..n
    BY <1>1
  <2> HIDE DEF m
  <2>2. PartsAt(s, a, m - 1)
    BY <1>3, <2>1
  <2>3. PartsAt(s, a, m)
    BY <2>1, <2>2, PartsStep
  <2> QED
    BY <2>1, <2>3 DEF m
<1> HIDE DEF T
<1>4. 0..n \subseteq T
  BY <1>1, <1>2, <1>3, BoundedInduction
<1> QED
  BY <1>1, <1>4 DEF T

(* Trimming takes a part of a text and leaves out blanks only.             *)
LEMMA TrimLeftSlice ==
  ASSUME NEW w \in Seq(Chars)
  PROVE  \E x \in 1..(Len(w) + 1) : /\ TrimLeft(w) = SubSeq(w, x, Len(w))
                                    /\ \A k \in 1..(x - 1) : w[k] = Blank
<1> DEFINE solid == {i \in DOMAIN w : w[i] # " "}
           first == CHOOSE i \in solid : \A j \in solid : i <= j
<1>0. DOMAIN w = 1..Len(w) /\ Len(w) \in Nat
  OBVIOUS
<1>a. \A i \in DOMAIN w : i \notin solid => w[i] = Blank
  BY Zenon DEF Blank
<1>b. \A i \in solid : i \in DOMAIN w
  BY Zenon
<1>1. CASE solid = {}
  <2>1. TrimLeft(w) = <<>>
    BY <1>1 DEF TrimLeft
  <2> HIDE DEF solid
  <2>2. SubSeq(w, Len(w) + 1, Len(w)) = <<>>
    BY <1>0, SubSeqEmpty
  <2>3. \A k \in 1..((Len(w) + 1) - 1) : w[k] = Blank
    BY <1>0, <1>1, <1>a
  <2>4. Len(w) + 1 \in 1..(Len(w) + 1)
    BY <1>0
  <2> QED
    BY <2>1, <2>2, <2>3, <2>4
<1>2. CASE solid # {}
  <2>5. TrimLeft(w) = SubSeq(w, first, Len(w))
    BY <1>2 DEF TrimLeft
  <2> HIDE DEF solid
  <2>1. solid \in SUBSET Nat
    BY <1>0, <1>b
  <2>2. \E i \in solid : \A j \in solid : i <= j
    BY <1>2, <2>1, LeastNatural
  <2>3. first \in solid /\ \A j \in solid : first <= j
    BY <2>2
  <2> HIDE DEF first
  <2>4. first \in 1..(Len(w) + 1)
    BY <1>0, <1>b, <2>3
  <2>6. ASSUME NEW k \in 1..(first - 1) PROVE w[k] = Blank
    <3>1. k \in 1..Len(w) /\ k < first /\ k \in Nat /\ first \in Nat
      BY <1>0, <1>b, <2>3
    <3>2. ~(first <= k)
      BY <3>1
    <3> QED
      BY <1>0, <1>a, <2>3, <3>1, <3>2
  <2> QED
    BY <2>4, <2>5, <2>6
<1> QED
  BY <1>1, <1>2

LEMMA SliceFacts ==
  ASSUME NEW s \in Seq(Chars), NEW l \in 0..Len(s), NEW m \in l..Len(s)
  PROVE  /\ SubSeq(s, l + 1, m) \in Seq(Chars) /\ Len(SubSeq(s, l + 1, m)) = m - l
         /\ \A k \in 1..(m - l) : SubSeq(s, l + 1, m)[k] = s[l + k]
<1>1. Len(s) \in Nat
  OBVIOUS
<1>2. \A k \in (l + 1)..m : s[k] \in Chars
  BY <1>1
<1> DEFINE b == SubSeq(s, l + 1, m)
<1>3. /\ b \in Seq(Chars)
      /\ Len(b) = IF l + 1 <= m THEN m - (l + 1) + 1 ELSE 0
      /\ \A k \in 1..(m - (l + 1) + 1) : b[k] = s[(l + 1) + k - 1]
  BY <1>2, SubSeqProperties
<1> HIDE DEF b
<1>4. b \in Seq(Chars) /\ Len(b) = m - l /\ \A k \in 1..(m - l) : b[k] = s[l + k]
  BY <1>1, <1>3
<1> QED
  BY <1>4 DEF b

LEMMA TrimBothSlice ==
  ASSUME NEW w \in Seq(Chars)
  PROVE  \E x \in 0..Len(w) : \E y \in x..Len(w) :
           /\ TrimBoth(w) = SubSeq(w, x + 1, y)
           /\ \A k \in 1..x : w[k] = Blank
           /\ \A k \in (y + 1)..Len(w) : w[k] = Blank
<1> DEFINE n == Len(w)
           u == TrimLeft(w)
           r == Reverse(u)
<1>0. n \in Nat
  OBVIOUS
<1>1. PICK x1 \in 1..(n + 1) : u = SubSeq(w, x1, n) /\ \A k \in 1..(x1 - 1) : w[k] = Blank
  BY TrimLeftSlice
<1> DEFINE x == x1 - 1
           c == n - x
<1>2. x \in 0..n /\ x1 = x + 1 /\ n \in x..n /\ c \in Nat
  BY <1>0
<1> HIDE DEF u, x
<1>3. u \in Seq(Chars) /\ Len(u) = c /\ \A k \in 1..c : u[k] = w[x + k]
  BY <1>1, <1>2, SliceFacts
<1>4. r \in Seq(Chars) /\ Len(r) = c /\ \A k \in 1..c : r[k] = u[(c - k) + 1]
  BY <1>3, ReverseFacts
<1> HIDE DEF r
<1>5. PICK z1 \in 1..(c + 1) : TrimLeft(r) = SubSeq(r, z1, c) /\ \A k \in 1..(z1 - 1) : r[k] = Blank
  BY <1>4, TrimLeftSlice
<1> DEFINE z == z1 - 1
           d == c - z
           q == TrimLeft(r)
           y == x + d
<1>6. z \in 0..c /\ z1 = z + 1 /\ c \in z..c /\ d \in Nat /\ y \in x..n /\ c \in 0..Len(r)
  BY <1>0, <1>2, <1>4
<1> HIDE DEF z, q
<1>7. q \in Seq(Chars) /\ Len(q) = d /\ \A k \in 1..d : q[k] = r[z + k]
  <2>1. z \in 0..Len(r) /\ c \in z..Len(r)
    BY <1>4, <1>6
  <2>2. q = SubSeq(r, z + 1, c)
    BY <1>5, <1>6 DEF q
  <2> QED
    BY <1>4, <2>1, <2>2, SliceFacts
<1> DEFINE t == Reverse(q)
           b == SubSeq(w, x + 1, y)
<1>8. t \in Seq(Chars) /\ Len(t) = d /\ \A k \in 1..d : t[k] = q[(d - k) + 1]
  <2>1. t \in Seq(Chars) /\ Len(t) = Len(q) /\ \A k \in 1..Len(q) : t[k] = q[(Len(q) - k) + 1]
    BY <1>7, ReverseFacts
  <2> HIDE DEF t, d
  <2> QED
    BY <1>7, <2>1
<1>9. b \in Seq(Chars) /\ Len(b) = y - x /\ \A k \in 1..(y - x) : b[k] = w[x + k]
  BY <1>2, <1>6, SliceFacts
<1>10. y - x = d
  BY <1>2, <1>6
<1> HIDE DEF t, b
<1>11. ASSUME NEW k \in 1..d PROVE t[k] = b[k]
  <2>1. (d - k) + 1 \in 1..d /\ z + ((d - k) + 1) \in 1..c /\ (c - (z + ((d - k) + 1))) + 1 = k /\ k \in 1..c
    BY <1>2, <1>6
  <2>2. t[k] = q[(d - k) + 1] /\ q[(d - k) + 1] = r[z + ((d - k) + 1)]
    BY <1>7, <1>8, <2>1
  <2>3. r[z + ((d - k) + 1)] = u[k]
    BY <1>4, <2>1
  <2>4. u[k] = w[x + k] /\ b[k] = w[x + k]
    BY <1>3, <1>9, <1>10, <2>1
  <2> QED
    BY <2>2, <2>3, <2>4
<1>12. t = b
  BY <1>8, <1>9, <1>10, <1>11, SeqEqual
<1>13. TrimBoth(w) = t
  BY DEF TrimBoth, t, q, r, u
<1>14. \A k \in 1..x : w[k] = Blank
  BY <1>1, <1>2 DEF x
<1>15. ASSUME NEW k \in (y + 1)..n PROVE w[k] = Blank
  <2> DEFINE j == k - x
             e == (c - j) + 1
  <2>1. j \in 1..c /\ e \in 1..z /\ e \in 1..c /\ (c - e) + 1 = j /\ x + j = k
    BY <1>0, <1>2, <1>6
  <2> HIDE DEF j, e
  <2>2. r[e] = Blank
    BY <1>5, <2>1 DEF z
  <2>3. r[e] = u[j] /\ u[j] = w[k]
    BY <1>3, <1>4, <2>1
  <2> QED
    BY <2>2, <2>3
<1> QED
  BY <1>2, <1>6, <1>12, <1>13, <1>14, <1>15 DEF b

(* Blanks open and close nothing.                                          *)
LEMMA BlankStep ==
  ASSUME NEW s \in PipeStates, NEW u, Moved(s, u, Blank)
  PROVE  u.esc = FALSE /\ u.quote = s.quote /\ u.brackets = s.brackets
<1>1. Blank \notin Quotes /\ Blank # "e" /\ Blank # "(" /\ Blank # ")"
  BY Zenon DEF Blank, Quotes
<1>2. u.quote = NextQuote(s, Blank) /\ u.brackets = NextDepth(s, Blank) /\ u.esc = (~s.esc /\ Blank = "e")
  BY Zenon DEF Moved
<1>3. NextQuote(s, Blank) = s.quote
  BY <1>1 DEF NextQuote
<1>4. NextDepth(s, Blank) = s.brackets
  BY <1>1 DEF NextDepth
<1>5. u.esc = FALSE
  BY <1>1, <1>2
<1> QED
  BY <1>2, <1>3, <1>4, <1>5

LEMMA BlankRun ==
  ASSUME NEW s \in Seq(Chars), NEW a \in [0..Len(s) -> PipeStates], PipeRun(a, s),
         NEW l \in 0..Len(s), NEW m \in l..Len(s), \A k \in (l + 1)..m : s[k] = Blank
  PROVE  /\ a[m].quote = a[l].quote /\ a[m].brackets = a[l].brackets
         /\ a[l].esc = FALSE => a[m].esc = FALSE
<1> DEFINE n == m - l
           Kept(t) == /\ t.quote = a[l].quote /\ t.brackets = a[l].brackets
                      /\ a[l].esc = FALSE => t.esc = FALSE
           T == {i \in 0..n : Kept(a[l + i])}
<1>1. Len(s) \in Nat /\ n \in Nat
  OBVIOUS
<1>2. 0 \in T
  <2>1. l + 0 = l /\ 0 \in 0..n
    BY <1>1
  <2> QED
    BY <2>1
<1>3. ASSUME NEW i \in 0..(n - 1), i \in T PROVE i + 1 \in T
  <2> DEFINE k == l + (i + 1)
             v == a[k - 1]
  <2>1. k \in 1..Len(s) /\ k - 1 = l + i /\ k - 1 \in 0..Len(s) /\ k \in (l + 1)..m /\ i + 1 \in 0..n
    BY <1>1
  <2>2. Kept(v)
    BY <1>3, <2>1
  <2> HIDE DEF k
  <2>3. a[k] = PipeChar(v, s[k])
    BY <2>1 DEF PipeRun
  <2>4. v \in PipeStates /\ s[k] \in Chars /\ s[k] = Blank
    BY <2>1
  <2> HIDE DEF v
  <2>5. Moved(v, a[k], Blank)
    BY <2>3, <2>4, PipeStep
  <2>6. a[k].esc = FALSE /\ a[k].quote = v.quote /\ a[k].brackets = v.brackets
    BY <2>4, <2>5, BlankStep
  <2>7. Kept(a[k])
    BY <2>2, <2>6
  <2> HIDE DEF Kept
  <2> QED
    BY <2>1, <2>7 DEF k
<1> HIDE DEF T
<1>4. 0..n \subseteq T
  BY <1>1, <1>2, <1>3, BoundedInduction
<1>5. l + n = m /\ n \in 0..n
  BY <1>1
<1> HIDE DEF n
<1> QED
  BY <1>4, <1>5 DEF T

(* An alternative, trimmed, is a part of the line too, between two places  *)
(* where nothing is open.                                                  *)
LEMMA TrimmedPart ==
  ASSUME NEW s \in Seq(Chars), NEW a \in [0..Len(s) -> PipeStates], PipeRun(a, s), NEW v, IsPart(s, a, v)
  PROVE  IsPart(s, a, TrimBoth(v))
<1>0. Len(s) \in Nat
  OBVIOUS
<1>1. PICK l \in 0..Len(s), m \in 0..Len(s) :
        l <= m /\ Fresh(a[l]) /\ Closed(a[m]) /\ v = SubSeq(s, l + 1, m)
  BY DEF IsPart
<1>2. m \in l..Len(s)
  BY <1>0, <1>1
<1>3. v \in Seq(Chars) /\ Len(v) = m - l /\ \A k \in 1..(m - l) : v[k] = s[l + k]
  BY <1>1, <1>2, SliceFacts
<1>4. PICK x \in 0..Len(v) : \E y \in x..Len(v) :
        /\ TrimBoth(v) = SubSeq(v, x + 1, y)
        /\ \A k \in 1..x : v[k] = Blank
        /\ \A k \in (y + 1)..Len(v) : v[k] = Blank
  BY <1>3, TrimBothSlice
<1>5. PICK y \in x..Len(v) :
        /\ TrimBoth(v) = SubSeq(v, x + 1, y)
        /\ \A k \in 1..x : v[k] = Blank
        /\ \A k \in (y + 1)..Len(v) : v[k] = Blank
  BY <1>4
<1> DEFINE f == l + x
           g == l + y
           b == SubSeq(s, f + 1, g)
           c == SubSeq(v, x + 1, y)
<1>6. f \in l..Len(s) /\ f \in 0..Len(s) /\ g \in f..Len(s) /\ g \in 0..Len(s) /\ m \in g..Len(s) /\ f <= g
  BY <1>0, <1>1, <1>3
<1>7. b \in Seq(Chars) /\ Len(b) = g - f /\ \A k \in 1..(g - f) : b[k] = s[f + k]
  <2> HIDE DEF f, g
  <2> QED
    BY <1>6, SliceFacts
<1>8. c \in Seq(Chars) /\ Len(c) = y - x /\ \A k \in 1..(y - x) : c[k] = v[x + k]
  BY <1>3, SliceFacts
<1> HIDE DEF b, c
<1>9. ASSUME NEW k \in 1..(y - x) PROVE c[k] = b[k]
  <2>1. x + k \in 1..(m - l) /\ l + (x + k) = f + k /\ k \in 1..(g - f)
    BY <1>0, <1>3
  <2>2. c[k] = v[x + k] /\ v[x + k] = s[l + (x + k)]
    BY <1>3, <1>8, <2>1
  <2>3. b[k] = s[f + k]
    BY <1>7, <2>1
  <2> QED
    BY <2>1, <2>2, <2>3
<1>10. c = b
  <2>1. Len(c) = Len(b)
    BY <1>0, <1>3, <1>7, <1>8
  <2> QED
    BY <1>7, <1>8, <1>9, <2>1, SeqEqual
<1>11. \A k \in (l + 1)..f : s[k] = Blank
  <2> SUFFICES ASSUME NEW k \in (l + 1)..f PROVE s[k] = Blank
    OBVIOUS
  <2>1. k - l \in 1..x /\ k - l \in 1..(m - l) /\ l + (k - l) = k
    BY <1>0, <1>3
  <2> QED
    BY <1>3, <1>5, <2>1
<1>12. \A k \in (g + 1)..m : s[k] = Blank
  <2> SUFFICES ASSUME NEW k \in (g + 1)..m PROVE s[k] = Blank
    OBVIOUS
  <2>1. k - l \in (y + 1)..Len(v) /\ k - l \in 1..(m - l) /\ l + (k - l) = k
    BY <1>0, <1>3
  <2> QED
    BY <1>3, <1>5, <2>1
<1> HIDE DEF f, g
<1>13. Fresh(a[f])
  <2>1. /\ a[f].quote = a[l].quote /\ a[f].brackets = a[l].brackets
        /\ a[l].esc = FALSE => a[f].esc = FALSE
    BY <1>6, <1>11, BlankRun
  <2> QED
    BY <1>1, <2>1 DEF Fresh
<1>14. Closed(a[g])
  <2>1. a[m].quote = a[g].quote /\ a[m].brackets = a[g].brackets
    BY <1>6, <1>12, BlankRun
  <2> QED
    BY <1>1, <2>1 DEF Closed
<1>15. TrimBoth(v) = SubSeq(s, f + 1, g)
  BY <1>5, <1>10 DEF b, c
<1> QED
  BY <1>6, <1>13, <1>14, <1>15 DEF IsPart

(* parse reads such a part as it read it in the line.                      *)
LEMMA PartParses ==
  ASSUME NEW s \in Seq(Chars), NEW p \in [0..Len(s) -> ParseStates], NEW a \in [0..Len(s) -> PipeStates],
         ParseRun(p, s), PipeRun(a, s), \A i \in 0..Len(s) : Fine(p[i]), NEW v, IsPart(s, a, v)
  PROVE  v \in Seq(Chars) /\ Fine(ParseScan(v)) /\ Closed(ParseScan(v))
<1>0. Len(s) \in Nat
  OBVIOUS
<1>1. PICK l \in 0..Len(s), m \in 0..Len(s) :
        l <= m /\ Fresh(a[l]) /\ Closed(a[m]) /\ v = SubSeq(s, l + 1, m)
  BY DEF IsPart
<1> DEFINE n == m - l
<1>2. m \in l..Len(s) /\ n \in Nat
  BY <1>0, <1>1
<1>3. v \in Seq(Chars) /\ Len(v) = n /\ \A k \in 1..n : v[k] = s[l + k]
  BY <1>1, <1>2, SliceFacts
<1>4. \A i \in 0..Len(s) : Same(p[i], a[i])
  BY RunsAgree
<1>5. PICK q \in [0..Len(v) -> ParseStates] : ParseRun(q, v) /\ ParseScan(v) = q[Len(v)]
  BY <1>3, ParsePrefixes
<1> DEFINE T == {i \in 0..n : Fine(q[i]) /\ Same(q[i], p[l + i])}
<1>6. 0 \in T
  <2>1. l + 0 = l /\ 0 \in 0..n /\ q[0] = ParseStart
    BY <1>2, <1>5 DEF ParseRun
  <2>2. Fine(ParseStart) /\ Fresh(ParseStart)
    BY Zenon DEF Fine, Fresh, ParseStart
  <2>3. Fresh(a[l]) /\ Same(p[l], a[l])
    BY <1>1, <1>4
  <2>4. Same(ParseStart, p[l])
    BY <2>2, <2>3 DEF Same, Fresh
  <2> QED
    BY <2>1, <2>2, <2>4
<1>7. ASSUME NEW i \in 0..(n - 1), i \in T PROVE i + 1 \in T
  <2> DEFINE j == i + 1
             k == l + j
             x == q[i]
             y == p[k - 1]
             r == s[k]
  <2>1. /\ j \in 1..n /\ j \in 0..n /\ j - 1 = i /\ i \in 0..n
        /\ k \in 1..Len(s) /\ k \in 0..Len(s) /\ k - 1 \in 0..Len(s) /\ l + i = k - 1
    BY <1>0, <1>2
  <2>2. Fine(x) /\ Same(x, y)
    BY <1>7, <2>1
  <2>3. v[j] = r
    BY <1>3, <2>1
  <2> HIDE DEF j, k
  <2>4. q[j] = ParseChar(x, r)
    BY <1>3, <1>5, <2>1, <2>3 DEF ParseRun
  <2>5. p[k] = ParseChar(y, r)
    BY <2>1 DEF ParseRun
  <2>6. x \in ParseStates /\ y \in ParseStates
    BY <1>3, <2>1
  <2>7. r \in Chars
    BY <2>1
  <2>8. Fine(y) /\ Fine(p[k])
    BY <2>1
  <2> HIDE DEF x, y, r
  <2>9. ~Refused(y, r) /\ Moved(y, p[k], r)
    BY <2>5, <2>6, <2>7, <2>8, ParseStep DEF Fine
  <2>10. ~Refused(x, r)
    BY <2>2, <2>9 DEF Refused, Same
  <2>11. Fine(q[j]) /\ Moved(x, q[j], r)
    BY <2>2, <2>4, <2>6, <2>7, <2>10, ParseStep, ZenonT(60) DEF Fine
  <2>12. Same(q[j], p[k])
    BY <2>2, <2>9, <2>11 DEF Moved, Same, NextQuote, NextDepth
  <2> QED
    BY <2>1, <2>11, <2>12 DEF j, k
<1> HIDE DEF T
<1>8. 0..n \subseteq T
  BY <1>2, <1>6, <1>7, BoundedInduction
<1>9. n \in 0..n /\ l + n = m
  BY <1>1, <1>2
<1> HIDE DEF n
<1>10. Fine(q[n]) /\ Same(q[n], p[m])
  BY <1>8, <1>9 DEF T
<1>11. Closed(a[m]) /\ Same(p[m], a[m])
  BY <1>1, <1>4
<1>12. Closed(q[n])
  BY <1>10, <1>11 DEF Same, Closed
<1> QED
  BY <1>3, <1>5, <1>10, <1>12

LEMMA ParseAccepts ==
  ASSUME NEW v
  PROVE  /\ parse(v).err = "" => Fine(ParseScan(v)) /\ Closed(ParseScan(v))
         /\ Fine(ParseScan(v)) /\ Closed(ParseScan(v)) => parse(v).err \notin {"quotes", "brackets"}
<1> DEFINE z == ParseScan(v)
           t == IF z.brace THEN Write(z, "$") ELSE z
           e == IF z.err # "" THEN z.err
                ELSE IF z.quote # NoQuote THEN "quotes"
                ELSE IF z.brackets # 0 THEN "brackets"
                ELSE IF z.inEnv THEN "env" ELSE ""
           f == flush(t, FALSE).words
<1>1. parse(v) = IF e # "" THEN [err |-> e, words |-> z.words]
                 ELSE [err |-> IF z.missing THEN "missing" ELSE "", words |-> f]
  BY DEF parse
<1> HIDE DEF f
<1>2. parse(v).err = IF e # "" THEN e ELSE IF z.missing THEN "missing" ELSE ""
  <2> HIDE DEF e, z
  <2>0. ASSUME NEW b, NEW c PROVE [err |-> b, words |-> c].err = b
    OBVIOUS
  <2>1. CASE e # ""
    <3>1. parse(v) = [err |-> e, words |-> z.words]
      BY <1>1, <2>1, Zenon
    <3> QED
      BY <2>0, <2>1, <3>1, Zenon
  <2>2. CASE e = ""
    <3>1. parse(v) = [err |-> IF z.missing THEN "missing" ELSE "", words |-> f]
      BY <1>1, <2>2, Zenon
    <3> QED
      BY <2>0, <2>2, <3>1, Zenon
  <2> QED
    BY <2>1, <2>2, Zenon
<1>3. e = "" => Fine(z) /\ Closed(z)
  <2> HIDE DEF z
  <2> QED
    BY Zenon DEF Fine, Closed
<1>4. Fine(z) /\ Closed(z) => e \in {"", "env"}
  <2> HIDE DEF z
  <2> QED
    BY Zenon DEF Fine, Closed
<1> HIDE DEF e, z
<1>5. parse(v).err = "" => e = ""
  BY <1>2, Zenon
<1>6. e \in {"", "env"} => parse(v).err \notin {"quotes", "brackets"}
  BY <1>2, Zenon
<1> QED
  BY <1>3, <1>4, <1>5, <1>6, Zenon DEF z

LEMMA PartsBalancedOn ==
  ASSUME NEW s \in Seq(Chars), Fine(ParseScan(s)), Closed(ParseScan(s)), NEW i \in DOMAIN splitPipe(s)
  PROVE  Fine(ParseScan(splitPipe(s)[i])) /\ Closed(ParseScan(splitPipe(s)[i]))
<1> DEFINE n == Len(s)
           w == PipeScan(s)
           t == TrimBoth(w.cur)
<1>0. n \in Nat /\ n \in 0..n
  OBVIOUS
<1>1. PICK p \in [0..n -> ParseStates] : ParseRun(p, s) /\ ParseScan(s) = p[n]
  BY ParsePrefixes
<1>2. PICK a \in [0..n -> PipeStates] : PipeRun(a, s) /\ w = a[n]
  BY PipePrefixes
<1>3. \A k \in 0..n : Fine(p[k])
  BY <1>1, RefusedStays
<1>4. Same(p[n], a[n])
  BY <1>0, <1>1, <1>2, <1>3, RunsAgree
<1>5. Closed(a[n])
  BY <1>1, <1>4 DEF Closed, Same
<1>6. PartsAt(s, a, n)
  BY <1>2, PartsRun
<1>7. splitPipe(s) = IF w.cur = <<>> THEN w.parts ELSE Append(w.parts, t)
  BY DEF splitPipe
<1> HIDE DEF w
<1>8. w \in PipeStates
  BY <1>0, <1>2
<1>9. w.cur \in Seq(Chars) /\ w.parts \in Seq(Seq(Chars))
  BY <1>8 DEF PipeStates
<1>10. t \in Seq(Chars)
  BY <1>9, TrimBothType
<1> HIDE DEF t
<1>11. DOMAIN w.parts = 1..Len(w.parts) /\ Len(w.parts) \in Nat
       /\ Append(w.parts, t) \in Seq(Seq(Chars)) /\ Len(Append(w.parts, t)) = Len(w.parts) + 1
       /\ DOMAIN Append(w.parts, t) = 1..(Len(w.parts) + 1)
  BY <1>9, <1>10
<1> DEFINE x == splitPipe(s)[i]
<1>12. (i \in 1..Len(w.parts) /\ x = w.parts[i]) \/ x = t
  <2>1. CASE w.cur = <<>>
    BY <1>7, <1>11, <2>1
  <2>2. CASE w.cur # <<>>
    <3>1. i \in 1..(Len(w.parts) + 1) /\ x = Append(w.parts, t)[i]
      BY <1>7, <1>11, <2>2
    <3>2. CASE i = Len(w.parts) + 1
      BY <1>9, <1>10, <3>1, <3>2
    <3>3. CASE i # Len(w.parts) + 1
      <4>1. i \in 1..Len(w.parts)
        BY <1>11, <3>1, <3>3
      <4> QED
        BY <1>9, <1>10, <3>1, <4>1
    <3> QED
      BY <3>2, <3>3
  <2> QED
    BY <2>1, <2>2
<1> HIDE DEF x
<1>13. \E v : IsPart(s, a, v) /\ x = TrimBoth(v)
  <2>1. CASE i \in 1..Len(w.parts) /\ x = w.parts[i]
    BY <1>2, <1>6, <2>1 DEF PartsAt
  <2>2. CASE x = t
    <3>1. PICK l \in 0..n : Fresh(a[l]) /\ w.cur = SubSeq(s, l + 1, n)
      BY <1>2, <1>6 DEF PartsAt
    <3>2. l <= n
      BY <1>0
    <3>3. IsPart(s, a, w.cur)
      BY <1>0, <1>5, <3>1, <3>2 DEF IsPart
    <3> QED
      BY <2>2, <3>3 DEF t
  <2> QED
    BY <1>12, <2>1, <2>2
<1>14. IsPart(s, a, x)
  BY <1>2, <1>13, TrimmedPart
<1>15. Fine(ParseScan(x)) /\ Closed(ParseScan(x))
  BY <1>1, <1>2, <1>3, <1>14, PartParses
<1> QED
  BY <1>15 DEF x

-----------------------------------------------------------------------------
(* Templates.                                                              *)
ArgStates == [done : BOOLEAN, quote : Quotes \union {NoQuote}, arg : Nat, n : Nat, used : Nat]
ArgStart == [done |-> FALSE, quote |-> NoQuote, arg |-> 0, n |-> 0, used |-> 0]
ArgRun(p, s) == p[0] = ArgStart /\ \A i \in 1..Len(s) : p[i] = ArgChar(p[i - 1], s[i])

(* extractArgs reads every character at most once.                         *)
LEMMA ArgStep ==
  ASSUME NEW s \in ArgStates, NEW r \in Chars
  PROVE  ArgChar(s, r) \in ArgStates /\ ArgChar(s, r).used <= s.used + 1
<1> DEFINE u == ArgChar(s, r)
<1>0. s.used \in Nat /\ s.arg \in Nat /\ s.n \in Nat
  BY DEF ArgStates
<1>1. s.used + 1 \in Nat /\ s.arg + 1 \in Nat /\ s.n + 1 \in Nat /\ 0 \in Nat
  BY <1>0
<1>2. \/ u = s
      \/ u = [s EXCEPT !.quote = NoQuote, !.n = @ + 1, !.arg = 0, !.used = @ + 1]
      \/ u = [s EXCEPT !.arg = @ + 1, !.used = @ + 1]
      \/ r \in Quotes /\ u = [s EXCEPT !.quote = r, !.used = @ + 1]
      \/ u = [s EXCEPT !.done = TRUE, !.n = IF s.arg > 0 THEN @ + 1 ELSE @, !.used = @ + 1]
      \/ u = [s EXCEPT !.n = IF s.arg > 0 THEN @ + 1 ELSE @, !.arg = 0, !.used = @ + 1]
      \/ u = [s EXCEPT !.used = @ + 1]
  <2>1. CASE s.done
    BY <2>1 DEF ArgChar
  <2>2. CASE ~s.done /\ s.quote # NoQuote
    BY <2>2 DEF ArgChar
  <2>3. CASE ~s.done /\ s.quote = NoQuote
    <3>1. u = CASE r \in Quotes -> [s EXCEPT !.quote = r, !.used = @ + 1]
                [] r = ")" -> [s EXCEPT !.done = TRUE, !.n = IF s.arg > 0 THEN @ + 1 ELSE @, !.used = @ + 1]
                [] r = "," -> [s EXCEPT !.n = IF s.arg > 0 THEN @ + 1 ELSE @, !.arg = 0, !.used = @ + 1]
                [] r = " " -> [s EXCEPT !.used = @ + 1]
                [] OTHER -> [s EXCEPT !.arg = @ + 1, !.used = @ + 1]
      BY <2>3 DEF ArgChar
    <3> HIDE DEF u
    <3>2. CASE r \in Quotes
      BY <3>1, <3>2 DEF Quotes
    <3>3. CASE r = ")"
      BY <3>1, <3>3 DEF Quotes
    <3>4. CASE r = ","
      BY <3>1, <3>4 DEF Quotes
    <3>5. CASE r = " "
      BY <3>1, <3>5 DEF Quotes
    <3>6. CASE r \notin Quotes \union {")", ",", " "}
      BY <3>1, <3>6
    <3> QED
      BY <3>2, <3>3, <3>4, <3>5, <3>6
  <2> QED
    BY <2>1, <2>2, <2>3
<1> HIDE DEF u
<1>3. u \in ArgStates /\ (u.used = s.used \/ u.used = s.used + 1)
  BY <1>1, <1>2 DEF ArgStates
<1> QED
  BY <1>0, <1>3 DEF u

LEMMA ArgPrefixes ==
  ASSUME NEW s \in Seq(Chars)
  PROVE  \E p \in [0..Len(s) -> ArgStates] : ArgRun(p, s) /\ ArgScan(s) = p[Len(s)]
<1> DEFINE n == Len(s)
           IsFold(h) == h = [t \in SUBSET DOMAIN s |->
             IF t = {} THEN ArgStart ELSE ArgChar(h[t \ {Max(t)}], s[Max(t)])]
           fold == CHOOSE h : IsFold(h)
           F    == [k \in 1..n |-> [v \in ArgStates |-> ArgChar(v, s[k])]]
<1>1. n \in Nat /\ DOMAIN s = 1..n
  OBVIOUS
<1>2. ArgScan(s) = fold[DOMAIN s]
  BY DEF ArgScan, ArgStart, FoldLeft, MapThenFoldSet
<1>a. ASSUME NEW k \in 1..n, NEW v \in ArgStates PROVE ArgChar(v, s[k]) \in ArgStates
  <2>1. s[k] \in Chars
    OBVIOUS
  <2> QED
    BY <2>1, ArgStep
<1>3. F \in [1..n -> [ArgStates -> ArgStates]]
  <2> HIDE DEF n
  <2> QED
    BY <1>a
<1>b. ArgStart \in ArgStates
  BY DEF ArgStart, ArgStates
<1>4. PICK h \in [SUBSET (1..n) -> ArgStates] : LeftFold(h, n, ArgStates, ArgStart, F)
  <2> HIDE DEF n, F
  <2> QED
    BY <1>1, <1>3, <1>b, LeftFoldExists
<1>5. IsFold(h)
  <2>1. ASSUME NEW t \in SUBSET (1..n)
        PROVE  h[t] = IF t = {} THEN ArgStart ELSE ArgChar(h[t \ {Max(t)}], s[Max(t)])
    <3>1. CASE t = {}
      BY <1>4, <3>1 DEF LeftFold
    <3>2. CASE t # {}
      <4> DEFINE m == Max(t)
      <4>1. m \in 1..n /\ h[t \ {m}] \in ArgStates /\ h[t] = F[m][h[t \ {m}]]
        BY <1>4, <3>2 DEF LeftFold
      <4> HIDE DEF m, n
      <4>2. h[t] = ArgChar(h[t \ {m}], s[m])
        BY <4>1
      <4> QED
        BY <3>2, <4>2 DEF m
    <3> QED
      BY <3>1, <3>2
  <2> QED
    BY <1>1, <2>1
<1>6. IsFold(fold)
  BY <1>5
<1>7. \A t \in SUBSET (1..n) :
        fold[t] = IF t = {} THEN ArgStart ELSE ArgChar(fold[t \ {Max(t)}], s[Max(t)])
  <2> HIDE DEF fold
  <2> QED
    BY <1>1, <1>6
<1> HIDE DEF fold
<1> DEFINE T == {i \in 0..n : fold[1..i] \in ArgStates}
<1>8. 1..0 = {} /\ 0 \in 0..n
  BY <1>1
<1>9. fold[1..0] = ArgStart
  BY <1>7, <1>8
<1>10. ASSUME NEW i \in 1..n PROVE fold[1..i] = ArgChar(fold[1..(i - 1)], s[i])
  <2>1. i \in Nat \ {0} /\ 1..i \in SUBSET (1..n)
    BY <1>1
  <2>2. Max(1..i) = i /\ (1..i) \ {i} = 1..(i - 1) /\ 1..i # {}
    BY <2>1, PrefixMax
  <2> QED
    BY <1>7, <2>1, <2>2
<1>11. 0 \in T
  BY <1>8, <1>9, <1>b
<1>12. ASSUME NEW i \in 0..(n - 1), i \in T PROVE i + 1 \in T
  <2> DEFINE m == i + 1
  <2>1. m \in 1..n /\ m - 1 = i /\ m \in 0..n
    BY <1>1
  <2> HIDE DEF m
  <2>2. fold[1..m] = ArgChar(fold[1..i], s[m])
    BY <1>10, <2>1
  <2>3. fold[1..i] \in ArgStates
    BY <1>12
  <2> HIDE DEF n
  <2>4. fold[1..m] \in ArgStates
    BY <1>a, <2>1, <2>2, <2>3
  <2> QED
    BY <2>1, <2>4 DEF m
<1> HIDE DEF T
<1>13. 0..n \subseteq T
  BY <1>1, <1>11, <1>12, BoundedInduction
<1> DEFINE p == [i \in 0..n |-> fold[1..i]]
<1>14. p \in [0..n -> ArgStates]
  BY <1>13 DEF T
<1>15. p[0] = ArgStart
  BY <1>8, <1>9
<1>16. ASSUME NEW i \in 1..n PROVE p[i] = ArgChar(p[i - 1], s[i])
  <2>1. i \in 0..n /\ i - 1 \in 0..n
    BY <1>1
  <2> HIDE DEF n
  <2> QED
    BY <1>10, <2>1
<1>17. ArgScan(s) = p[n]
  <2>1. n \in 0..n
    BY <1>1
  <2> HIDE DEF n
  <2> QED
    BY <1>1, <1>2, <2>1
<1> HIDE DEF p
<1> QED
  BY <1>14, <1>15, <1>16, <1>17 DEF ArgRun

LEMMA ArgUsed ==
  ASSUME NEW s \in Seq(Chars)
  PROVE  ArgScan(s).used \in 0..Len(s)
<1> DEFINE n == Len(s)
<1>0. n \in Nat
  OBVIOUS
<1>1. PICK p \in [0..n -> ArgStates] : ArgRun(p, s) /\ ArgScan(s) = p[n]
  BY ArgPrefixes
<1> DEFINE T == {i \in 0..n : p[i].used \in 0..i}
<1>2. 0 \in T
  <2>1. p[0].used = 0 /\ 0 \in 0..n /\ 0 \in 0..0
    BY <1>0, <1>1 DEF ArgRun, ArgStart
  <2> QED
    BY <2>1
<1>3. ASSUME NEW i \in 0..(n - 1), i \in T PROVE i + 1 \in T
  <2> DEFINE m == i + 1
             v == p[i]
  <2>1. m \in 1..n /\ m - 1 = i /\ m \in 0..n /\ i \in 0..n
    BY <1>0
  <2>2. v.used \in 0..i
    BY <1>3
  <2> HIDE DEF m
  <2>3. p[m] = ArgChar(v, s[m])
    BY <1>1, <2>1 DEF ArgRun
  <2>4. v \in ArgStates /\ s[m] \in Chars /\ p[m] \in ArgStates
    BY <2>1
  <2> HIDE DEF v
  <2>5. p[m].used <= v.used + 1 /\ p[m].used \in Nat
    BY <2>3, <2>4, ArgStep DEF ArgStates
  <2>6. p[m].used \in 0..m
    BY <2>1, <2>2, <2>5
  <2> QED
    BY <2>1, <2>6 DEF m
<1> HIDE DEF T
<1>4. 0..n \subseteq T
  BY <1>0, <1>2, <1>3, BoundedInduction
<1> QED
  BY <1>0, <1>1, <1>4 DEF T

LEMMA ArgsInText ==
  ASSUME NEW s \in Seq(Chars), NEW j \in 1..Len(s), extractArgs(s, j).ok
  PROVE  extractArgs(s, j).next \in j..Len(s)
<1> DEFINE n    == Len(s)
           open == {i \in Indices(s, "(") : i >= j}
           beg  == CHOOSE i \in open : \A k \in open : i <= k
           rest == SubSeq(s, beg + 1, n)
           scan == ArgScan(rest)
<1>0. n \in Nat /\ DOMAIN s = 1..n
  OBVIOUS
<1>1. extractArgs(s, j) = IF open = {} \/ ~scan.done THEN [ok |-> FALSE, n |-> 0, next |-> 0]
                          ELSE [ok |-> TRUE, n |-> scan.n, next |-> beg + scan.used]
  BY DEF extractArgs
<1>2. \A i \in open : i \in j..n
  BY <1>0 DEF Indices
<1> HIDE DEF open
<1>3. open # {} /\ extractArgs(s, j).next = beg + scan.used
  <2> HIDE DEF scan
  <2>1. ~(open = {} \/ ~scan.done)
    <3> SUFFICES ASSUME open = {} \/ ~scan.done PROVE FALSE
      OBVIOUS
    <3>1. extractArgs(s, j) = [ok |-> FALSE, n |-> 0, next |-> 0]
      BY <1>1
    <3> QED
      BY <3>1
  <2> HIDE DEF beg
  <2>2. extractArgs(s, j) = [ok |-> TRUE, n |-> scan.n, next |-> beg + scan.used]
    BY <1>1, <2>1
  <2> QED
    BY <2>1, <2>2
<1>4. open \in SUBSET Nat
  <2>1. \A i \in open : i \in Nat
    BY <1>0, <1>2
  <2> QED
    BY <2>1
<1>5. \E i \in open : \A k \in open : i <= k
  BY <1>3, <1>4, LeastNatural
<1>6. beg \in open
  BY <1>5
<1> HIDE DEF beg
<1>7. beg \in j..n /\ beg \in 0..n /\ n \in beg..n
  BY <1>0, <1>2, <1>6
<1>8. rest \in Seq(Chars) /\ Len(rest) = n - beg
  BY <1>7, SliceFacts
<1> HIDE DEF rest
<1>9. scan.used \in 0..(n - beg)
  BY <1>8, ArgUsed
<1> HIDE DEF scan
<1>10. beg + scan.used \in j..n
  BY <1>0, <1>7, <1>9
<1> QED
  BY <1>3, <1>10

LEMMA NameInText ==
  ASSUME NEW s \in Seq(Chars), NEW j \in 1..Len(s)
  PROVE  NameEnd(s, j) \in j..(Len(s) + 1)
<1> DEFINE n == Len(s)
           ends == {k \in j..(n + 1) : k = n + 1 \/ s[k] \notin NameChars}
<1>0. n \in Nat
  OBVIOUS
<1>1. NameEnd(s, j) = CHOOSE k \in ends : \A l \in ends : k <= l
  BY DEF NameEnd
<1>2. n + 1 \in ends /\ \A k \in ends : k \in j..(n + 1)
  BY <1>0
<1> HIDE DEF ends
<1>3. ends \in SUBSET Nat
  <2>1. \A k \in ends : k \in Nat
    BY <1>0, <1>2
  <2> QED
    BY <2>1
<1>4. \E k \in ends : \A l \in ends : k <= l
  BY <1>2, <1>3, LeastNatural
<1>5. NameEnd(s, j) \in ends
  BY <1>1, <1>4
<1> QED
  BY <1>2, <1>5

(* A "$" that is doubled, or stands before a brace, of a text.             *)
Doubled(s, k) == k \in 1..(Len(s) - 1) /\ s[k] = "$" /\ (s[k + 1] = "$" \/ s[k + 1] = Brace)

(* What a piece is.                                                        *)
LEMMA PieceOf ==
  ASSUME NEW s \in Seq(Chars), NEW i \in 1..Len(s)
  PROVE  \/ Piece(s, i).next = 0
         \/ s[i] # "$" /\ Piece(s, i).out = <<s[i]>> /\ Piece(s, i).next = i + 1
         \/ /\ Doubled(s, i) /\ Piece(s, i).next = i + 2
            /\ Piece(s, i).out = <<"$">> \/ Piece(s, i).out = <<"$", Brace>>
         \/ s[i] = "$" /\ Piece(s, i).out = <<"v">> /\ Piece(s, i).next \in (i + 1)..(Len(s) + 1)
<1> DEFINE n == Len(s)
           u == Piece(s, i)
<1>0. n \in Nat /\ s[i] \in Chars
  OBVIOUS
<1>a. ASSUME NEW b, NEW c PROVE [out |-> b, next |-> c].out = b /\ [out |-> b, next |-> c].next = c
  OBVIOUS
<1>1. CASE s[i] # "$"
  <2>1. u = [out |-> <<s[i]>>, next |-> i + 1]
    BY <1>1 DEF Piece
  <2> QED
    BY <1>1, <1>a, <2>1
<1>2. CASE s[i] = "$" /\ i = n
  <2>1. u = [out |-> <<>>, next |-> 0]
    BY <1>2 DEF Piece
  <2> QED
    BY <1>a, <2>1
<1>3. CASE s[i] = "$" /\ i # n
  <2>0. i \in 1..(n - 1) /\ i + 1 \in 1..n
    BY <1>0, <1>3
  <2>1. u = CASE s[i + 1] = "$" -> [out |-> <<"$">>, next |-> i + 2]
              [] s[i + 1] = Brace -> [out |-> <<"$", Brace>>, next |-> i + 2]
              [] s[i + 1] \in NameChars -> ExpandVar(s, i)
              [] OTHER -> [out |-> <<>>, next |-> 0]
    BY <1>3 DEF Piece, Brace
  <2>a. "$" \notin NameChars /\ Brace \notin NameChars /\ Brace # "$"
    BY Zenon DEF NameChars, Quotes, Brace
  <2> HIDE DEF u
  <2>2. CASE s[i + 1] = "$"
    <3>1. u = [out |-> <<"$">>, next |-> i + 2]
      BY <2>1, <2>2, <2>a, Zenon
    <3>2. Doubled(s, i)
      BY <1>3, <2>0, <2>2, Zenon DEF Doubled
    <3>3. u.out = <<"$">> /\ u.next = i + 2
      BY <3>1
    <3> QED
      BY <3>2, <3>3 DEF u
  <2>3. CASE s[i + 1] = Brace
    <3>1. u = [out |-> <<"$", Brace>>, next |-> i + 2]
      BY <2>1, <2>3, <2>a, Zenon
    <3>2. Doubled(s, i)
      BY <1>3, <2>0, <2>3, Zenon DEF Doubled
    <3>3. u.out = <<"$", Brace>> /\ u.next = i + 2
      BY <3>1
    <3> QED
      BY <3>2, <3>3 DEF u
  <2>4. CASE s[i + 1] \in NameChars
    <3> DEFINE k == NameEnd(s, i + 1)
               name == SubSeq(s, i + 1, k - 1)
               args == extractArgs(s, i + 1)
               far == IF args.ok /\ args.n \in 1..2 THEN args.next + 1 ELSE 0
    <3>1. u = ExpandVar(s, i)
      BY <2>1, <2>4, <2>a, Zenon
    <3>2. ExpandVar(s, i) = CASE name = <<"d">> -> [out |-> <<"v">>, next |-> far]
                              [] name = <<"s">> -> [out |-> <<"v">>, next |-> k]
                              [] OTHER -> [out |-> <<>>, next |-> 0]
      BY DEF ExpandVar
    <3>3. k \in (i + 1)..(n + 1)
      BY <2>0, NameInText
    <3>4. far = 0 \/ far \in (i + 1)..(n + 1)
      <4>1. CASE args.ok /\ args.n \in 1..2
        <5>1. args.next \in (i + 1)..n
          BY <2>0, <4>1, ArgsInText
        <5> HIDE DEF args
        <5>2. far = args.next + 1
          BY <4>1
        <5> HIDE DEF far
        <5> QED
          BY <1>0, <2>0, <5>1, <5>2
      <4>2. CASE ~(args.ok /\ args.n \in 1..2)
        BY <4>2
      <4> QED
        BY <4>1, <4>2
    <3> HIDE DEF k, far, name
    <3>5. \/ u = [out |-> <<"v">>, next |-> far]
          \/ u = [out |-> <<"v">>, next |-> k]
          \/ u = [out |-> <<>>, next |-> 0]
      <4>1. <<"d">> # <<"s">>
        OBVIOUS
      <4> QED
        BY <3>1, <3>2, <4>1, Zenon
    <3>6. u.next = 0 \/ (u.out = <<"v">> /\ u.next \in (i + 1)..(n + 1))
      <4>1. CASE u = [out |-> <<"v">>, next |-> far]
        BY <3>4, <4>1
      <4>2. CASE u = [out |-> <<"v">>, next |-> k]
        BY <3>3, <4>2
      <4>3. CASE u = [out |-> <<>>, next |-> 0]
        BY <4>3
      <4> QED
        BY <3>5, <4>1, <4>2, <4>3
    <3> QED
      BY <1>3, <3>6, Zenon DEF u
  <2>5. CASE s[i + 1] # "$" /\ s[i + 1] # Brace /\ s[i + 1] \notin NameChars
    <3>1. u = [out |-> <<>>, next |-> 0]
      BY <2>1, <2>5, Zenon
    <3>2. u.next = 0
      BY <1>a, <3>1, Zenon
    <3> QED
      BY <3>2, Zenon DEF u
  <2> QED
    BY <2>2, <2>3, <2>4, <2>5, Zenon
<1> QED
  BY <1>1, <1>2, <1>3

LEMMA PieceType ==
  ASSUME NEW s \in Seq(Chars), NEW i \in 1..Len(s), Piece(s, i).next # 0
  PROVE  Piece(s, i).out \in Seq(Chars) /\ Piece(s, i).next \in (i + 1)..(Len(s) + 1)
<1> DEFINE u == Piece(s, i)
<1>0. Len(s) \in Nat /\ s[i] \in Chars
  OBVIOUS
<1>1. "$" \in Chars /\ "v" \in Chars /\ Brace \in Chars
  BY Zenon DEF Chars
<1>2. <<s[i]>> \in Seq(Chars) /\ <<"$">> \in Seq(Chars) /\ <<"$", Brace>> \in Seq(Chars) /\ <<"v">> \in Seq(Chars)
  BY <1>0, <1>1
<1>3. \/ u.out = <<s[i]>> /\ u.next = i + 1
      \/ Doubled(s, i) /\ u.next = i + 2 /\ (u.out = <<"$">> \/ u.out = <<"$", Brace>>)
      \/ u.out = <<"v">> /\ u.next \in (i + 1)..(Len(s) + 1)
  BY PieceOf
<1> HIDE DEF u
<1>4. u.out \in Seq(Chars)
  BY <1>2, <1>3, Zenon
<1>5. i + 1 \in (i + 1)..(Len(s) + 1) /\ (Doubled(s, i) => i + 2 \in (i + 1)..(Len(s) + 1))
  BY <1>0 DEF Doubled
<1>6. u.next \in (i + 1)..(Len(s) + 1)
  BY <1>3, <1>5, Zenon
<1> QED
  BY <1>4, <1>6 DEF u

(* ExpandVars is a recursive function; that it exists.                     *)
Results == [out : Seq(Chars), ok : BOOLEAN]
Stepped(s, f, i) ==
  IF i > Len(s) THEN [out |-> <<>>, ok |-> TRUE]
  ELSE IF Piece(s, i).next = 0 THEN [out |-> <<>>, ok |-> FALSE]
  ELSE [out |-> Piece(s, i).out \o f[Piece(s, i).next].out, ok |-> f[Piece(s, i).next].ok]

LEMMA SteppedFacts ==
  ASSUME NEW s \in Seq(Chars), NEW f \in [1..(Len(s) + 1) -> Results], NEW i \in 1..(Len(s) + 1)
  PROVE  /\ Stepped(s, f, i) \in Results
         /\ \A g \in [1..(Len(s) + 1) -> Results] :
              (\A j \in (i + 1)..(Len(s) + 1) : g[j] = f[j]) => Stepped(s, g, i) = Stepped(s, f, i)
<1> DEFINE n == Len(s)
           v == Piece(s, i)
<1>0. n \in Nat /\ <<>> \in Seq(Chars)
  OBVIOUS
<1>1. CASE i > n
  <2>1. ASSUME NEW g PROVE Stepped(s, g, i) = [out |-> <<>>, ok |-> TRUE]
    BY <1>1 DEF Stepped
  <2>2. [out |-> <<>>, ok |-> TRUE] \in Results
    BY <1>0 DEF Results
  <2> QED
    BY <2>1, <2>2
<1>2. CASE ~(i > n) /\ v.next = 0
  <2>1. ASSUME NEW g PROVE Stepped(s, g, i) = [out |-> <<>>, ok |-> FALSE]
    BY <1>2 DEF Stepped
  <2>2. [out |-> <<>>, ok |-> FALSE] \in Results
    BY <1>0 DEF Results
  <2> QED
    BY <2>1, <2>2
<1>3. CASE ~(i > n) /\ v.next # 0
  <2>0. i \in 1..n
    BY <1>0, <1>3
  <2>1. v.out \in Seq(Chars) /\ v.next \in (i + 1)..(n + 1)
    BY <1>3, <2>0, PieceType
  <2>2. ASSUME NEW g PROVE Stepped(s, g, i) = [out |-> v.out \o g[v.next].out, ok |-> g[v.next].ok]
    BY <1>3 DEF Stepped
  <2> HIDE DEF v
  <2>3. v.next \in 1..(n + 1)
    BY <1>0, <2>1
  <2>4. f[v.next] \in Results
    BY <2>3
  <2>5. f[v.next].out \in Seq(Chars) /\ f[v.next].ok \in BOOLEAN
    BY <2>4 DEF Results
  <2>6. v.out \o f[v.next].out \in Seq(Chars)
    BY <2>1, <2>5
  <2> DEFINE b == v.out \o f[v.next].out
             c == f[v.next].ok
  <2>a. Stepped(s, f, i) = [out |-> b, ok |-> c]
    BY <2>2
  <2>b. b \in Seq(Chars) /\ c \in BOOLEAN
    BY <2>5, <2>6
  <2> HIDE DEF b, c
  <2>7. Stepped(s, f, i) \in Results
    BY <2>a, <2>b DEF Results
  <2>8. ASSUME NEW g \in [1..(n + 1) -> Results], \A j \in (i + 1)..(n + 1) : g[j] = f[j]
        PROVE  Stepped(s, g, i) = Stepped(s, f, i)
    <3>1. g[v.next] = f[v.next]
      BY <2>1, <2>8
    <3> QED
      BY <2>2, <3>1
  <2> QED
    BY <2>7, <2>8
<1> QED
  BY <1>1, <1>2, <1>3

Unfolds(s, f, l) == \A i \in l..(Len(s) + 1) : f[i] = Stepped(s, f, i)

LEMMA FromExists ==
  ASSUME NEW s \in Seq(Chars)
  PROVE  \E f \in [1..(Len(s) + 1) -> Results] : Unfolds(s, f, 1)
<1> DEFINE n == Len(s)
           D == 1..(n + 1)
           T == {k \in 0..n : \E f \in [D -> Results] : Unfolds(s, f, (n + 1) - k)}
<1>0. n \in Nat /\ <<>> \in Seq(Chars)
  OBVIOUS
<1>1. 0 \in T
  <2> DEFINE e == [out |-> <<>>, ok |-> TRUE]
             f == [i \in D |-> e]
  <2>1. e \in Results
    BY <1>0 DEF Results
  <2>2. f \in [D -> Results]
    BY <2>1
  <2>3. n + 1 \in D /\ n + 1 > n /\ (n + 1) - 0 = n + 1 /\ 0 \in 0..n
    BY <1>0
  <2>4. f[n + 1] = Stepped(s, f, n + 1)
    BY <2>3 DEF Stepped
  <2>5. \A i \in (n + 1)..(n + 1) : i = n + 1
    BY <1>0
  <2> HIDE DEF f
  <2>6. Unfolds(s, f, (n + 1) - 0)
    BY <2>3, <2>4, <2>5 DEF Unfolds
  <2> QED
    BY <2>2, <2>3, <2>6
<1>2. ASSUME NEW k \in 0..(n - 1), k \in T PROVE k + 1 \in T
  <2> DEFINE m == n - k
  <2>1. m \in 1..n /\ m \in D /\ (n + 1) - k = m + 1 /\ (n + 1) - (k + 1) = m /\ k + 1 \in 0..n
    BY <1>0
  <2>2. PICK f \in [D -> Results] : Unfolds(s, f, m + 1)
    BY <1>2, <2>1
  <2> DEFINE g == [f EXCEPT ![m] = Stepped(s, f, m)]
  <2> HIDE DEF m
  <2>3. Stepped(s, f, m) \in Results
    BY <2>1, SteppedFacts
  <2>4. g \in [D -> Results] /\ g[m] = Stepped(s, f, m) /\ \A j \in D : j # m => g[j] = f[j]
    BY <2>1, <2>3
  <2> HIDE DEF g
  <2>5. ASSUME NEW i \in m..(n + 1) PROVE g[i] = Stepped(s, g, i)
    <3>1. i \in D /\ \A j \in (i + 1)..(n + 1) : j \in D /\ j # m
      BY <1>0, <2>1
    <3>2. \A j \in (i + 1)..(n + 1) : g[j] = f[j]
      BY <2>4, <3>1
    <3>3. Stepped(s, g, i) = Stepped(s, f, i)
      BY <2>4, <3>1, <3>2, SteppedFacts
    <3>4. CASE i = m
      BY <2>4, <3>3, <3>4
    <3>5. CASE i # m
      <4>1. i \in (m + 1)..(n + 1)
        BY <1>0, <2>1, <3>5
      <4>2. f[i] = Stepped(s, f, i)
        BY <2>2, <4>1 DEF Unfolds
      <4> QED
        BY <2>4, <3>1, <3>3, <3>5, <4>2
    <3> QED
      BY <3>4, <3>5
  <2>6. Unfolds(s, g, m)
    BY <2>5 DEF Unfolds
  <2> QED
    BY <2>1, <2>4, <2>6
<1> HIDE DEF T
<1>3. 0..n \subseteq T
  BY <1>0, <1>1, <1>2, BoundedInduction
<1>4. n \in T /\ (n + 1) - n = 1
  BY <1>0, <1>3
<1> QED
  BY <1>4 DEF T

(* Every "$" of what is written comes from one of its own in the text,     *)
(* doubled or before a brace, at place i or after it.                      *)
Sources(s, out, i) ==
  \E h \in [Indices(out, "$") -> i..Len(s)] : IsInjective(h) /\ \A x \in Indices(out, "$") : Doubled(s, h[x])

LEMMA SourcesOfMore ==
  ASSUME NEW s \in Seq(Chars), NEW w \in Seq(Chars), NEW o \in Seq(Chars), NEW i \in 1..Len(s),
         NEW next \in (i + 1)..(Len(s) + 1), Sources(s, o, next),
         \A x \in 1..Len(w) : w[x] = "$" => x = 1 /\ Doubled(s, i)
  PROVE  Sources(s, w \o o, i)
<1> DEFINE n == Len(s)
           d == Len(w)
           out == w \o o
           I == Indices(o, "$")
           J == Indices(out, "$")
<1>0. n \in Nat /\ d \in Nat /\ Len(o) \in Nat
  OBVIOUS
<1>1. PICK h \in [I -> next..n] : IsInjective(h) /\ \A x \in I : Doubled(s, h[x])
  BY DEF Sources
<1>2. /\ out \in Seq(Chars) /\ Len(out) = d + Len(o)
      /\ \A x \in 1..(d + Len(o)) : out[x] = IF x <= d THEN w[x] ELSE o[x - d]
  BY ConcatProperties
<1>3. DOMAIN out = 1..(d + Len(o)) /\ DOMAIN o = 1..Len(o)
  BY <1>2
<1> HIDE DEF out
<1>4. ASSUME NEW x \in J
      PROVE  (x \in 1..d /\ x = 1 /\ Doubled(s, i)) \/ (x \in Nat /\ ~(x <= d) /\ x - d \in I)
  <2>1. x \in 1..(d + Len(o)) /\ out[x] = "$"
    BY <1>3 DEF Indices
  <2>2. CASE x <= d
    <3>1. x \in 1..d /\ w[x] = "$"
      BY <1>0, <1>2, <2>1, <2>2
    <3> QED
      BY <3>1
  <2>3. CASE ~(x <= d)
    <3>1. o[x - d] = "$"
      BY <1>2, <2>1, <2>3
    <3>2. x - d \in 1..Len(o) /\ x \in Nat
      BY <1>0, <2>1, <2>3
    <3> QED
      BY <1>3, <2>3, <3>1, <3>2 DEF Indices
  <2> QED
    BY <2>2, <2>3
<1> HIDE DEF I, J
<1> DEFINE g == [x \in J |-> IF x <= d THEN i ELSE h[x - d]]
<1>5. ASSUME NEW x \in J, x - d \in I PROVE h[x - d] \in i..n /\ h[x - d] # i
  <2>1. h[x - d] \in next..n
    BY <1>1, <1>5
  <2> QED
    BY <1>0, <2>1
<1>a. i \in i..n
  BY <1>0
<1>6. g \in [J -> i..n]
  <2>1. ASSUME NEW x \in J PROVE (IF x <= d THEN i ELSE h[x - d]) \in i..n
    <3>1. CASE x \in 1..d
      <4>1. x <= d
        BY <1>0, <3>1
      <4> QED
        BY <1>a, <4>1
    <3>2. CASE ~(x <= d) /\ x - d \in I
      BY <1>5, <3>2
    <3> QED
      BY <1>4, <3>1, <3>2
  <2> QED
    BY <2>1
<1>7. \A x \in J : Doubled(s, g[x])
  <2> SUFFICES ASSUME NEW x \in J PROVE Doubled(s, g[x])
    OBVIOUS
  <2>1. CASE x \in 1..d /\ Doubled(s, i)
    <3>1. x <= d
      BY <1>0, <2>1
    <3>2. g[x] = i
      BY <3>1
    <3> QED
      BY <2>1, <3>2
  <2>2. CASE ~(x <= d) /\ x - d \in I
    <3>1. g[x] = h[x - d]
      BY <2>2
    <3> QED
      BY <1>1, <2>2, <3>1
  <2> QED
    BY <1>4, <2>1, <2>2
<1>8. IsInjective(g)
  <2>1. ASSUME NEW x \in J, NEW y \in J, g[x] = g[y] PROVE x = y
    <3>1. CASE x \in 1..d /\ x = 1 /\ y \in 1..d /\ y = 1
      BY <3>1
    <3>2. CASE x \in 1..d /\ x = 1 /\ ~(y <= d) /\ y - d \in I
      <4>1. x <= d
        BY <1>0, <3>2
      <4>2. g[x] = i /\ g[y] = h[y - d]
        BY <3>2, <4>1
      <4> QED
        BY <1>5, <2>1, <3>2, <4>2
    <3>3. CASE ~(x <= d) /\ x - d \in I /\ y \in 1..d /\ y = 1
      <4>1. y <= d
        BY <1>0, <3>3
      <4>2. g[y] = i /\ g[x] = h[x - d]
        BY <3>3, <4>1
      <4> QED
        BY <1>5, <2>1, <3>3, <4>2
    <3>4. CASE x \in Nat /\ ~(x <= d) /\ x - d \in I /\ y \in Nat /\ ~(y <= d) /\ y - d \in I
      <4>1. h[x - d] = h[y - d]
        BY <2>1, <3>4
      <4>2. x - d = y - d
        BY <1>1, <3>4, <4>1 DEF IsInjective
      <4> QED
        BY <1>0, <3>4, <4>2
    <3> QED
      BY <1>4, <3>1, <3>2, <3>3, <3>4
  <2>2. DOMAIN g = J
    OBVIOUS
  <2> HIDE DEF g
  <2> QED
    BY <2>1, <2>2 DEF IsInjective
<1> HIDE DEF g
<1>9. Sources(s, out, i)
  BY <1>6, <1>7, <1>8 DEF Sources, J
<1> QED
  BY <1>9 DEF out

Expanded(s, f, i) ==
  f[i].ok => /\ Sources(s, f[i].out, i)
             /\ (\A k \in 1..Len(s) : s[k] # "$") => f[i].out = SubSeq(s, i, Len(s))

LEMMA ExpandedEnd ==
  ASSUME NEW s \in Seq(Chars), NEW f, f[Len(s) + 1] = [out |-> <<>>, ok |-> TRUE]
  PROVE  Expanded(s, f, Len(s) + 1)
<1> DEFINE n == Len(s)
           h == [x \in {} |-> 0]
<1>0. n \in Nat
  OBVIOUS
<1>1. f[n + 1].out = <<>>
  OBVIOUS
<1>2. Indices(<<>>, "$") = {}
  BY DEF Indices
<1>3. h \in [{} -> (n + 1)..n] /\ IsInjective(h)
  BY DEF IsInjective
<1>4. Sources(s, <<>>, n + 1)
  BY <1>2, <1>3 DEF Sources
<1>5. SubSeq(s, n + 1, n) = <<>>
  BY <1>0, SubSeqEmpty
<1> QED
  BY <1>1, <1>4, <1>5 DEF Expanded

LEMMA ExpandedStep ==
  ASSUME NEW s \in Seq(Chars), NEW f \in [1..(Len(s) + 1) -> Results], NEW i \in 1..Len(s),
         f[i] = Stepped(s, f, i), \A j \in (i + 1)..(Len(s) + 1) : Expanded(s, f, j)
  PROVE  Expanded(s, f, i)
<1> DEFINE n == Len(s)
           v == Piece(s, i)
           e == f[v.next]
<1>0. n \in Nat /\ ~(i > n) /\ s[i] \in Chars
  OBVIOUS
<1>1. CASE v.next = 0
  <2>1. f[i] = [out |-> <<>>, ok |-> FALSE]
    BY <1>0, <1>1 DEF Stepped
  <2>2. f[i].ok = FALSE
    BY <2>1
  <2> QED
    BY <2>2 DEF Expanded
<1>2. CASE v.next # 0
  <2>1. v.out \in Seq(Chars) /\ v.next \in (i + 1)..(n + 1)
    BY <1>2, PieceType
  <2>2. f[i] = [out |-> v.out \o e.out, ok |-> e.ok]
    BY <1>0, <1>2 DEF Stepped
  <2>3. \/ s[i] # "$" /\ v.out = <<s[i]>> /\ v.next = i + 1
        \/ Doubled(s, i) /\ (v.out = <<"$">> \/ v.out = <<"$", Brace>>)
        \/ s[i] = "$" /\ v.out = <<"v">>
    BY <1>2, PieceOf
  <2>4. Expanded(s, f, v.next)
    BY <2>1
  <2> DEFINE w == v.out
             o == e.out
             next == v.next
  <2>5. v.next \in 1..(n + 1)
    BY <1>0, <2>1
  <2>6. e \in Results
    BY <2>5
  <2> HIDE DEF e
  <2>7. o \in Seq(Chars)
    BY <2>6 DEF Results
  <2>8. f[i].out = w \o o /\ f[i].ok = e.ok
    <3>1. ASSUME NEW b, NEW c PROVE [out |-> b, ok |-> c].out = b /\ [out |-> b, ok |-> c].ok = c
      OBVIOUS
    <3>2. [out |-> w \o o, ok |-> e.ok].out = w \o o /\ [out |-> w \o o, ok |-> e.ok].ok = e.ok
      BY <3>1, Zenon
    <3> QED
      BY <2>2, <3>2, Zenon
  <2> HIDE DEF v
  <2>9. SUFFICES ASSUME e.ok PROVE Sources(s, f[i].out, i) /\
                    ((\A k \in 1..n : s[k] # "$") => f[i].out = SubSeq(s, i, n))
    BY <2>8 DEF Expanded
  <2>10. Sources(s, o, next) /\ ((\A k \in 1..n : s[k] # "$") => o = SubSeq(s, next, n))
    BY <2>4, <2>9 DEF Expanded, e
  <2>11. ASSUME NEW x \in 1..Len(w), w[x] = "$" PROVE x = 1 /\ Doubled(s, i)
    <3>a. Brace # "$" /\ "v" # "$"
      BY Zenon DEF Brace
    <3>1. CASE s[i] # "$" /\ w = <<s[i]>>
      <4>1. Len(w) = 1 /\ w[1] = s[i]
        BY <3>1
      <4>2. x = 1
        BY <4>1
      <4> QED
        BY <2>11, <3>1, <4>1, <4>2
    <3>2. CASE Doubled(s, i) /\ w = <<"$">>
      <4>1. Len(w) = 1
        BY <3>2
      <4> QED
        BY <3>2, <4>1
    <3>3. CASE Doubled(s, i) /\ w = <<"$", Brace>>
      <4>1. Len(w) = 2 /\ w[2] = Brace
        BY <3>3
      <4>2. x = 1 \/ x = 2
        BY <4>1
      <4> QED
        BY <2>11, <3>3, <3>a, <4>1, <4>2
    <3>4. CASE w = <<"v">>
      <4>1. Len(w) = 1 /\ w[1] = "v"
        BY <3>4
      <4>2. x = 1
        BY <4>1
      <4> QED
        BY <2>11, <3>a, <4>1, <4>2
    <3> QED
      BY <2>3, <3>1, <3>2, <3>3, <3>4
  <2>12. Sources(s, w \o o, i)
    <3> HIDE DEF w, o, next
    <3>1. w \in Seq(Chars) /\ next \in (i + 1)..(n + 1)
      BY <2>1 DEF w, next
    <3> QED
      BY <2>7, <2>10, <2>11, <3>1, SourcesOfMore
  <2>13. ASSUME \A k \in 1..n : s[k] # "$" PROVE w \o o = SubSeq(s, i, n)
    <3>1. w = <<s[i]>> /\ next = i + 1
      BY <2>3, <2>13 DEF Doubled
    <3>2. o = SubSeq(s, i + 1, n)
      BY <2>10, <2>13, <3>1
    <3>3. i \in 1..n /\ n \in i..n
      BY <1>0
    <3>4. SubSeq(s, i, n) = <<s[i]>> \o SubSeq(s, i + 1, n)
      BY <3>3, SubSeqRecursiveFirst
    <3> QED
      BY <3>1, <3>2, <3>4
  <2> QED
    BY <2>8, <2>12, <2>13
<1> QED
  BY <1>1, <1>2

(* ExpandVars of a text, through the function it is defined by.            *)
LEMMA ExpandVarsExpanded ==
  ASSUME NEW s \in Seq(Chars)
  PROVE  \E f : ExpandVars(s) = f[1] /\ f[1] \in Results /\ Expanded(s, f, 1)
<1> DEFINE n == Len(s)
           D == 1..(n + 1)
           IsFrom(g) == g = [i \in D |-> Stepped(s, g, i)]
           f == CHOOSE g : IsFrom(g)
<1>0. n \in Nat /\ 1 \in D
  OBVIOUS
<1>1. ExpandVars(s) = f[1]
  BY DEF ExpandVars, Stepped
<1>2. PICK g \in [D -> Results] : Unfolds(s, g, 1)
  BY FromExists
<1>3. IsFrom(g)
  <2>1. DOMAIN g = D /\ \A i \in D : g[i] = Stepped(s, g, i)
    BY <1>2 DEF Unfolds
  <2> QED
    BY <1>2, <2>1
<1>4. IsFrom(f)
  BY <1>3
<1> HIDE DEF f
<1>5. \A i \in D : f[i] = Stepped(s, f, i)
  BY <1>4
<1> DEFINE T == {k \in 0..n : \A i \in ((n + 1) - k)..(n + 1) : f[i] = g[i]}
<1>6. 0 \in T
  <2>1. n + 1 \in D /\ n + 1 > n
    BY <1>0
  <2>2. f[n + 1] = g[n + 1]
    BY <1>2, <1>5, <2>1 DEF Unfolds, Stepped
  <2>3. \A i \in ((n + 1) - 0)..(n + 1) : i = n + 1
    BY <1>0
  <2> QED
    BY <1>0, <2>2, <2>3
<1>7. ASSUME NEW k \in 0..(n - 1), k \in T PROVE k + 1 \in T
  <2> DEFINE m == n - k
  <2>1. m \in 1..n /\ m \in D /\ (n + 1) - k = m + 1 /\ (n + 1) - (k + 1) = m /\ k + 1 \in 0..n
    BY <1>0
  <2>2. \A j \in (m + 1)..(n + 1) : f[j] = g[j]
    BY <1>7, <2>1
  <2> HIDE DEF m
  <2>3. f[m] = g[m]
    <3>1. f[m] = Stepped(s, f, m) /\ g[m] = Stepped(s, g, m)
      BY <1>2, <1>5, <2>1 DEF Unfolds
    <3>2. CASE Piece(s, m).next = 0
      BY <2>1, <3>1, <3>2 DEF Stepped
    <3>3. CASE Piece(s, m).next # 0
      <4>1. Piece(s, m).next \in (m + 1)..(n + 1)
        BY <2>1, <3>3, PieceType
      <4>2. f[Piece(s, m).next] = g[Piece(s, m).next]
        BY <2>2, <4>1
      <4> QED
        BY <3>1, <4>2, Zenon DEF Stepped
    <3> QED
      BY <3>2, <3>3
  <2>4. \A j \in m..(n + 1) : j = m \/ j \in (m + 1)..(n + 1)
    BY <1>0, <2>1
  <2> QED
    BY <2>1, <2>2, <2>3, <2>4
<1> HIDE DEF T
<1>8. 0..n \subseteq T
  BY <1>0, <1>6, <1>7, BoundedInduction
<1>9. \A i \in D : f[i] = g[i]
  <2>1. n \in T /\ (n + 1) - n = 1
    BY <1>0, <1>8
  <2> QED
    BY <2>1 DEF T
<1> DEFINE U == {k \in 0..n : \A i \in ((n + 1) - k)..(n + 1) : Expanded(s, g, i)}
<1>10. 0 \in U
  <2>1. n + 1 \in D /\ n + 1 > n
    BY <1>0
  <2>2. g[n + 1] = [out |-> <<>>, ok |-> TRUE]
    BY <1>2, <2>1 DEF Unfolds, Stepped
  <2>3. Expanded(s, g, n + 1)
    BY <2>2, ExpandedEnd
  <2>4. \A i \in ((n + 1) - 0)..(n + 1) : i = n + 1
    BY <1>0
  <2> QED
    BY <1>0, <2>3, <2>4
<1>11. ASSUME NEW k \in 0..(n - 1), k \in U PROVE k + 1 \in U
  <2> DEFINE m == n - k
  <2>1. m \in 1..n /\ m \in D /\ (n + 1) - k = m + 1 /\ (n + 1) - (k + 1) = m /\ k + 1 \in 0..n
    BY <1>0
  <2>2. \A j \in (m + 1)..(n + 1) : Expanded(s, g, j)
    BY <1>11, <2>1
  <2> HIDE DEF m
  <2>3. Expanded(s, g, m)
    <3>1. g[m] = Stepped(s, g, m)
      BY <1>2, <2>1 DEF Unfolds
    <3> QED
      BY <2>1, <2>2, <3>1, ExpandedStep
  <2>4. \A j \in m..(n + 1) : j = m \/ j \in (m + 1)..(n + 1)
    BY <1>0, <2>1
  <2> QED
    BY <2>1, <2>2, <2>3, <2>4
<1> HIDE DEF U
<1>12. 0..n \subseteq U
  BY <1>0, <1>10, <1>11, BoundedInduction
<1>13. Expanded(s, g, 1)
  <2>1. n \in U /\ (n + 1) - n = 1 /\ 1 \in 1..(n + 1)
    BY <1>0, <1>12
  <2> QED
    BY <2>1 DEF U
<1>14. ExpandVars(s) = g[1] /\ g[1] \in Results
  BY <1>0, <1>1, <1>9
<1> QED
  BY <1>13, <1>14

LEMMA ExpandsAllOf ==
  ASSUME NEW s \in Seq(Chars), ExpandVars(s).ok
  PROVE  /\ "$" \notin ToSet(s) => ExpandVars(s).out = s
         /\ Cardinality(Indices(ExpandVars(s).out, "$")) <= Cardinality(Indices(s, "$"))
         /\ \A i \in Indices(ExpandVars(s).out, "$") : \E k \in 1..(Len(s) - 1) : Doubled(s, k)
<1> DEFINE n == Len(s)
           out == ExpandVars(s).out
           I == Indices(out, "$")
           J == Indices(s, "$")
<1>0. n \in Nat /\ DOMAIN s = 1..n
  OBVIOUS
<1>1. PICK f : ExpandVars(s) = f[1] /\ f[1] \in Results /\ Expanded(s, f, 1)
  BY ExpandVarsExpanded
<1>2. /\ Sources(s, out, 1)
      /\ (\A k \in 1..n : s[k] # "$") => out = SubSeq(s, 1, n)
  BY <1>1 DEF Expanded
<1> HIDE DEF out
<1>3. PICK h \in [I -> 1..n] : IsInjective(h) /\ \A x \in I : Doubled(s, h[x])
  BY <1>2 DEF Sources
<1>4. ASSUME "$" \notin ToSet(s) PROVE out = s
  <2>1. \A k \in 1..n : s[k] # "$"
    BY <1>0, <1>4 DEF ToSet
  <2> QED
    BY <1>2, <2>1, SubSeqFull
<1>5. ASSUME NEW x \in I PROVE h[x] \in J /\ h[x] \in 1..(n - 1) /\ Doubled(s, h[x])
  <2>1. Doubled(s, h[x]) /\ h[x] \in 1..n
    BY <1>3
  <2> QED
    BY <1>0, <2>1 DEF Doubled, Indices
<1>6. IsFiniteSet(J)
  <2>1. J \subseteq 1..n /\ IsFiniteSet(1..n)
    BY <1>0, FS_Interval DEF Indices
  <2> QED
    BY <2>1, FS_Subset
<1>7. Cardinality(I) <= Cardinality(J)
  <2> HIDE DEF I, J
  <2>1. h \in [I -> J]
    BY <1>3, <1>5
  <2>2. h \in Injection(I, J)
    BY <1>3, <2>1 DEF Injection
  <2> QED
    BY <1>6, <2>2, FS_Injection
<1> QED
  BY <1>4, <1>5, <1>7 DEF out

(* The syntax of conditions, commands and templates (SyntaxSound): for a   *)
(* text of any length, parse and splitPipe agree on quotes, brackets and   *)
(* escapes; the alternatives of a line that parse accepts are closed; a    *)
(* quoted argument is one word; ExpandVars loses nothing.                  *)
THEOREM RuleSyntaxIsSound == SyntaxSpec => []SyntaxSound
<1> DEFINE Inv == rxText \in Seq(Chars)
<1>1. SyntaxInit => Inv
  BY DEF SyntaxInit
<1>2. Inv /\ [SyntaxNext]_rxText => Inv'
  <2> SUFFICES ASSUME Inv, [SyntaxNext]_rxText PROVE Inv'
    OBVIOUS
  <2>1. Alphabet \subseteq Chars
    BY Zenon DEF Chars
  <2> QED
    BY <2>1 DEF SyntaxNext, Type
<1>3. Inv => SyntaxSound
  <2> SUFFICES ASSUME Inv PROVE SyntaxSound
    OBVIOUS
  <2> DEFINE s == rxText
  <2>1. ScannersAgree
    <3>1. Fine(ParseScan(s)) => Same(ParseScan(s), PipeScan(s))
      BY ScannersAgreeOn
    <3> QED
      BY <3>1, Zenon DEF ScannersAgree, Same, Fine
  <2>2. PartsBalanced
    <3> SUFFICES ASSUME parse(s).err = "", NEW i \in DOMAIN splitPipe(s)
                 PROVE  parse(splitPipe(s)[i]).err \notin {"quotes", "brackets"}
      BY Zenon DEF PartsBalanced
    <3>1. Fine(ParseScan(s)) /\ Closed(ParseScan(s))
      BY ParseAccepts, Zenon
    <3>2. Fine(ParseScan(splitPipe(s)[i])) /\ Closed(ParseScan(splitPipe(s)[i]))
      BY <3>1, PartsBalancedOn, Zenon
    <3> QED
      BY <3>2, ParseAccepts, Zenon
  <2>3. QuotesKeep
    <3>1. Quoted(s) = <<"a", " ", "q">> \o s \o <<"q">>
      BY Zenon DEF Quoted, Blank
    <3> SUFFICES ASSUME ToSet(s) \intersect {"q", "e", "$", "}"} = {},
                        ParseScan(Quoted(s)).err = "", ParseScan(Quoted(s)).brackets = 0
                 PROVE  /\ parse(Quoted(s)) = [err |-> "", words |-> <<<<"a">>, s>>]
                        /\ splitPipe(Quoted(s)) = <<Quoted(s)>>
      BY <3>1, Zenon DEF QuotesKeep
    <3>2. Fine(ParseScan(Quoted(s)))
      BY Zenon DEF Fine
    <3> QED
      BY <3>2, QuotesKeepOn, Zenon
  <2>4. ExpandsAll
    <3> SUFFICES ASSUME ExpandVars(s).ok
                 PROVE  /\ "$" \notin ToSet(s) => ExpandVars(s).out = s
                        /\ Cardinality(Indices(ExpandVars(s).out, "$")) <= Cardinality(Indices(s, "$"))
                        /\ \A i \in Indices(ExpandVars(s).out, "$") :
                             \E k \in 1..(Len(s) - 1) : s[k] = "$" /\ s[k + 1] \in {"$", "{"}
      BY Zenon DEF ExpandsAll
    <3>1. ASSUME NEW k, Doubled(s, k) PROVE s[k] = "$" /\ s[k + 1] \in {"$", "{"}
      BY <3>1, Zenon DEF Doubled, Brace
    <3> QED
      BY <3>1, ExpandsAllOf, Zenon
  <2> QED
    BY <2>1, <2>2, <2>3, <2>4 DEF SyntaxSound
<1> QED
  BY <1>1, <1>2, <1>3, PTL DEF SyntaxSpec

-----------------------------------------------------------------------------
(***************************************************************************)
(* AccessFilter, for any keys and values, and any number of cookies.       *)
(***************************************************************************)

(* The loop over the elements of a sequence, one after the other: what is  *)
(* written after i of them is p[i].                                        *)
SoFar(p, M, s) ==
  /\ p[0] = <<>>
  /\ \A i \in 1..Len(s) : p[i] = p[i - 1] \o M[s[i]]

LEMMA FlatMapPrefixes ==
  ASSUME NEW X, NEW Y, NEW M \in [X -> Seq(Y)], NEW s \in Seq(X)
  PROVE  \E p \in [0..Len(s) -> Seq(Y)] : SoFar(p, M, s) /\ FlatMap(M, s) = p[Len(s)]
<1> DEFINE n == Len(s)
           V == Seq(Y)
           IsFold(h) == h = [t \in SUBSET DOMAIN s |->
             IF t = {} THEN <<>> ELSE h[t \ {Max(t)}] \o M[s[Max(t)]]]
           fold  == CHOOSE h : IsFold(h)
           F     == [k \in 1..n |-> [v \in V |-> v \o M[s[k]]]]
<1>1. n \in Nat /\ DOMAIN s = 1..n
  OBVIOUS
<1>2. FlatMap(M, s) = fold[DOMAIN s]
  BY DEF FlatMap, FoldLeft, MapThenFoldSet
<1>a. ASSUME NEW k \in 1..n, NEW v \in V PROVE v \o M[s[k]] \in V
  <2>1. M[s[k]] \in Seq(Y)
    OBVIOUS
  <2> QED
    BY <2>1
<1>3. F \in [1..n -> [V -> V]]
  <2> HIDE DEF V, n
  <2> QED
    BY <1>a
<1>4. PICK h \in [SUBSET (1..n) -> V] : LeftFold(h, n, V, <<>>, F)
  <2>1. <<>> \in V
    OBVIOUS
  <2> HIDE DEF V, n, F
  <2> QED
    BY <1>1, <1>3, <2>1, LeftFoldExists
<1>5. IsFold(h)
  <2>1. ASSUME NEW t \in SUBSET (1..n)
        PROVE  h[t] = IF t = {} THEN <<>> ELSE h[t \ {Max(t)}] \o M[s[Max(t)]]
    <3>1. CASE t = {}
      BY <1>4, <3>1 DEF LeftFold
    <3>2. CASE t # {}
      <4> DEFINE m == Max(t)
      <4>1. m \in 1..n /\ h[t \ {m}] \in V /\ h[t] = F[m][h[t \ {m}]]
        BY <1>4, <3>2 DEF LeftFold
      <4> HIDE DEF m, n, V
      <4>2. h[t] = h[t \ {m}] \o M[s[m]]
        BY <4>1
      <4> QED
        BY <3>2, <4>2 DEF m
    <3> QED
      BY <3>1, <3>2
  <2> QED
    BY <1>1, <2>1
<1>6. IsFold(fold)
  BY <1>5
<1>7. \A t \in SUBSET (1..n) :
        fold[t] = IF t = {} THEN <<>> ELSE fold[t \ {Max(t)}] \o M[s[Max(t)]]
  <2> HIDE DEF fold
  <2> QED
    BY <1>1, <1>6
<1> HIDE DEF fold
<1> DEFINE T == {i \in 0..n : fold[1..i] \in V}
<1>8. 1..0 = {} /\ 0 \in 0..n
  BY <1>1
<1>9. fold[1..0] = <<>>
  BY <1>7, <1>8
<1>10. ASSUME NEW i \in 1..n PROVE fold[1..i] = fold[1..(i - 1)] \o M[s[i]]
  <2>1. i \in Nat \ {0} /\ 1..i \in SUBSET (1..n)
    BY <1>1
  <2>2. Max(1..i) = i /\ (1..i) \ {i} = 1..(i - 1) /\ 1..i # {}
    BY <2>1, PrefixMax
  <2> QED
    BY <1>7, <2>1, <2>2
<1>11. 0 \in T
  <2>1. fold[1..0] \in V
    BY <1>9
  <2> HIDE DEF V
  <2> QED
    BY <1>8, <2>1
<1>12. ASSUME NEW i \in 0..(n - 1), i \in T PROVE i + 1 \in T
  <2> DEFINE m == i + 1
  <2>1. m \in 1..n /\ m - 1 = i /\ m \in 0..n
    BY <1>1
  <2> HIDE DEF m
  <2>2. fold[1..m] = fold[1..i] \o M[s[m]]
    BY <1>10, <2>1
  <2>3. fold[1..i] \in V
    BY <1>12
  <2> HIDE DEF V, n
  <2>4. fold[1..m] \in V
    BY <1>a, <2>1, <2>2, <2>3
  <2> QED
    BY <2>1, <2>4 DEF m
<1> HIDE DEF T
<1>13. 0..n \subseteq T
  BY <1>1, <1>11, <1>12, BoundedInduction
<1> DEFINE p == [i \in 0..n |-> fold[1..i]]
<1>14. p \in [0..n -> V]
  BY <1>13 DEF T
<1>15. p[0] = <<>>
  BY <1>8, <1>9
<1>16. \A i \in 1..n : p[i] = p[i - 1] \o M[s[i]]
  <2> SUFFICES ASSUME NEW i \in 1..n PROVE p[i] = p[i - 1] \o M[s[i]]
    OBVIOUS
  <2>1. i \in 0..n /\ i - 1 \in 0..n
    BY <1>1
  <2> HIDE DEF n
  <2> QED
    BY <1>10, <2>1
<1>17. FlatMap(M, s) = p[n]
  <2>1. n \in 0..n
    BY <1>1
  <2> HIDE DEF n
  <2> QED
    BY <1>1, <1>2, <2>1
<1> HIDE DEF p
<1> QED
  BY <1>14, <1>15, <1>16, <1>17 DEF SoFar

(* What is written for one element more.                                   *)
LEMMA FlatMapAppend ==
  ASSUME NEW X, NEW Y, NEW M \in [X -> Seq(Y)], NEW s \in Seq(X), NEW x \in X
  PROVE  FlatMap(M, Append(s, x)) = FlatMap(M, s) \o M[x]
<1> DEFINE u == Append(s, x)
           n == Len(s)
<1>1. u \in Seq(X) /\ n \in Nat /\ Len(u) = n + 1 /\ u[n + 1] = x /\ \A i \in 1..n : u[i] = s[i]
  OBVIOUS
<1>2. PICK p \in [0..n -> Seq(Y)] : SoFar(p, M, s) /\ FlatMap(M, s) = p[n]
  BY FlatMapPrefixes
<1> HIDE DEF u
<1>3. PICK q \in [0..Len(u) -> Seq(Y)] : SoFar(q, M, u) /\ FlatMap(M, u) = q[Len(u)]
  <2>1. \A t \in Seq(X) : \E q \in [0..Len(t) -> Seq(Y)] : SoFar(q, M, t) /\ FlatMap(M, t) = q[Len(t)]
    BY FlatMapPrefixes, SMTT(60)
  <2> QED
    BY <1>1, <2>1
<1> DEFINE T == {i \in 0..n : p[i] = q[i]}
<1> HIDE DEF n
<1>4. 0 \in T
  BY <1>1, <1>2, <1>3 DEF SoFar
<1>5. ASSUME NEW i \in 0..(n - 1), i \in T PROVE i + 1 \in T
  <2> DEFINE m == i + 1
  <2>1. m \in 1..n /\ m \in 1..Len(u) /\ m - 1 = i /\ m \in 0..n
    BY <1>1
  <2> HIDE DEF m
  <2>2. p[m] = p[i] \o M[s[m]] /\ q[m] = q[i] \o M[u[m]]
    BY <1>2, <1>3, <2>1 DEF SoFar, n
  <2>3. p[m] = q[m]
    BY <1>1, <1>5, <2>1, <2>2
  <2> QED
    BY <2>1, <2>3 DEF m
<1> HIDE DEF T
<1>6. 0..n \subseteq T
  BY <1>1, <1>4, <1>5, BoundedInduction
<1>7. p[n] = q[n]
  BY <1>1, <1>6 DEF T
<1>8. q[n + 1] = q[n] \o M[x]
  <2> DEFINE m == n + 1
  <2>1. m \in 1..Len(u) /\ m - 1 = n /\ u[m] = x
    BY <1>1
  <2> HIDE DEF m
  <2>2. q[m] = q[n] \o M[x]
    BY <1>3, <2>1 DEF SoFar
  <2> QED
    BY <2>2 DEF m
<1> QED
  BY <1>1, <1>2, <1>3, <1>7, <1>8 DEF u

LEMMA FlatMapEmpty ==
  ASSUME NEW X, NEW Y, NEW M \in [X -> Seq(Y)]
  PROVE  FlatMap(M, <<>>) = <<>>
<1>1. <<>> \in Seq(X) /\ Len(<<>>) = 0
  OBVIOUS
<1> DEFINE e == <<>>
<1> HIDE DEF e
<1>2. e \in Seq(X) /\ Len(e) = 0
  BY <1>1 DEF e
<1>3. PICK p \in [0..Len(e) -> Seq(Y)] : SoFar(p, M, e) /\ FlatMap(M, e) = p[Len(e)]
  <2>1. \A t \in Seq(X) : \E q \in [0..Len(t) -> Seq(Y)] : SoFar(q, M, t) /\ FlatMap(M, t) = q[Len(t)]
    BY FlatMapPrefixes
  <2> QED
    BY <1>2, <2>1
<1> QED
  BY <1>2, <1>3 DEF SoFar, e

(***************************************************************************)
(* The cookies of a key in a line.                                         *)
(***************************************************************************)
Shown == FieldKeys \X (FieldValues \union {RedactedValue})
WriteMap(cfg) == [c \in Cookies |-> Written(cfg, c)]
KeyMap(k) == [c \in Shown |-> IF c[1] = k THEN <<c>> ELSE <<>>]

LEMMA ModeKnown ==
  ASSUME NEW cfg \in FieldConfigs, NEW k \in FieldKeys
  PROVE  ModeOf(cfg, k) \in {"keep", "drop", "redact"}
BY DEF FieldConfigs, FieldModes, ModeOf

LEMMA OneWritten ==
  ASSUME NEW cfg \in FieldConfigs, NEW c \in Cookies
  PROVE  /\ ModeOf(cfg, c[1]) = "drop" => Written(cfg, c) = <<>>
         /\ ModeOf(cfg, c[1]) # "drop" =>
              \E d \in Shown : /\ Written(cfg, c) = <<d>> /\ d[1] = c[1]
                               /\ ModeOf(cfg, c[1]) = "keep" => d = c
                               /\ ModeOf(cfg, c[1]) = "redact" => d[2] = RedactedValue
<1>1. c[1] \in FieldKeys /\ c \in Shown /\ <<c[1], RedactedValue>> \in Shown
  BY DEF Cookies, Shown
<1>2. ModeOf(cfg, c[1]) \in {"keep", "drop", "redact"}
  BY <1>1, ModeKnown
<1>3. CASE ModeOf(cfg, c[1]) = "drop"
  BY <1>3 DEF Written
<1>4. CASE ModeOf(cfg, c[1]) = "keep"
  <2>1. Written(cfg, c) = <<c>>
    BY <1>4 DEF Written
  <2> QED
    BY <1>1, <1>4, <2>1
<1>5. CASE ModeOf(cfg, c[1]) = "redact"
  <2> DEFINE d == <<c[1], RedactedValue>>
  <2>1. Written(cfg, c) = <<d>> /\ d[1] = c[1] /\ d[2] = RedactedValue
    BY <1>5 DEF Written
  <2> HIDE DEF d
  <2>2. d \in Shown
    BY <1>1 DEF d
  <2> QED
    BY <1>5, <2>1, <2>2
<1> QED
  BY <1>2, <1>3, <1>4, <1>5

LEMMA MapTypes ==
  ASSUME NEW cfg \in FieldConfigs, NEW k
  PROVE  WriteMap(cfg) \in [Cookies -> Seq(Shown)] /\ KeyMap(k) \in [Shown -> Seq(Shown)]
<1>1. ASSUME NEW c \in Cookies PROVE Written(cfg, c) \in Seq(Shown)
  <2>1. CASE ModeOf(cfg, c[1]) = "drop"
    <3>1. Written(cfg, c) = <<>>
      BY <2>1, OneWritten
    <3> QED
      BY <3>1
  <2>2. CASE ModeOf(cfg, c[1]) # "drop"
    <3>1. PICK d \in Shown : Written(cfg, c) = <<d>>
      BY <2>2, OneWritten
    <3> QED
      BY <3>1
  <2> QED
    BY <2>1, <2>2
<1>2. ASSUME NEW c \in Shown PROVE (IF c[1] = k THEN <<c>> ELSE <<>>) \in Seq(Shown)
  OBVIOUS
<1>3. WriteMap(cfg) \in [Cookies -> Seq(Shown)]
  BY <1>1 DEF WriteMap
<1> QED
  BY <1>2, <1>3 DEF KeyMap

LEMMA CookiesOfKey ==
  ASSUME NEW cfg \in FieldConfigs, NEW k \in FieldKeys, NEW s \in Seq(Cookies)
  PROVE  LET shown == OfKey(k, FlatMap(WriteMap(cfg), s))
             given == OfKey(k, s)
             mode  == ModeOf(cfg, k) IN
         /\ Len(shown) = IF mode = "drop" THEN 0 ELSE Len(given)
         /\ mode = "keep" => shown = given
         /\ mode = "redact" => \A i \in 1..Len(shown) : shown[i][2] = RedactedValue
<1> DEFINE n    == Len(s)
           W    == WriteMap(cfg)
           K    == KeyMap(k)
           mode == ModeOf(cfg, k)
<1>1. W \in [Cookies -> Seq(Shown)] /\ K \in [Shown -> Seq(Shown)]
  BY MapTypes
<1>2. s \in Seq(Shown) /\ n \in Nat
  BY DEF Cookies, Shown
<1>3. \A t : OfKey(k, t) = FlatMap(K, t)
  BY DEF OfKey, KeyMap, Shown
<1>4. mode \in {"keep", "drop", "redact"}
  BY ModeKnown
<1>a. \A i \in 1..n : s[i] \in Cookies
  OBVIOUS
<1> HIDE DEF W, K, n, mode
<1>5. PICK p \in [0..n -> Seq(Shown)] : SoFar(p, W, s) /\ FlatMap(W, s) = p[n]
  <2>1. ASSUME NEW M \in [Cookies -> Seq(Shown)]
        PROVE  \E q \in [0..Len(s) -> Seq(Shown)] : SoFar(q, M, s) /\ FlatMap(M, s) = q[Len(s)]
    BY FlatMapPrefixes
  <2> QED
    BY <1>1, <2>1 DEF n
<1>6. PICK g \in [0..n -> Seq(Shown)] : SoFar(g, K, s) /\ FlatMap(K, s) = g[n]
  <2>1. \A M \in [Shown -> Seq(Shown)] : \A t \in Seq(Shown) :
          \E q \in [0..Len(t) -> Seq(Shown)] : SoFar(q, M, t) /\ FlatMap(M, t) = q[Len(t)]
    BY FlatMapPrefixes
  <2> QED
    BY <1>1, <1>2, <2>1 DEF n
<1>7. ASSUME NEW t \in Seq(Shown), NEW d \in Shown
      PROVE  FlatMap(K, Append(t, d)) = IF d[1] = k THEN Append(FlatMap(K, t), d) ELSE FlatMap(K, t)
  <2>1. FlatMap(K, Append(t, d)) = FlatMap(K, t) \o K[d]
    BY <1>1, FlatMapAppend, ZenonT(60)
  <2>2. FlatMap(K, t) \in Seq(Shown)
    <3>1. PICK q \in [0..Len(t) -> Seq(Shown)] : SoFar(q, K, t) /\ FlatMap(K, t) = q[Len(t)]
      BY <1>1, FlatMapPrefixes
    <3>2. Len(t) \in 0..Len(t)
      OBVIOUS
    <3> QED
      BY <3>1, <3>2
  <2>3. K[d] = IF d[1] = k THEN <<d>> ELSE <<>>
    BY DEF K, KeyMap
  <2> QED
    BY <2>1, <2>2, <2>3
<1> DEFINE f(i)  == FlatMap(K, p[i])
           OK(i) == /\ f(i) \in Seq(Shown)
                    /\ mode = "drop" => f(i) = <<>>
                    /\ mode = "keep" => f(i) = g[i]
                    /\ mode = "redact" => Len(f(i)) = Len(g[i]) /\ \A j \in 1..Len(f(i)) : f(i)[j][2] = RedactedValue
           T     == {i \in 0..n : OK(i)}
<1>8. 0 \in T
  <2>1. p[0] = <<>> /\ g[0] = <<>> /\ 0 \in 0..n
    BY <1>2, <1>5, <1>6 DEF SoFar
  <2>2. f(0) = <<>>
    BY <1>1, <2>1, FlatMapEmpty
  <2> HIDE DEF f
  <2>3. OK(0)
    BY <2>1, <2>2
  <2> HIDE DEF OK
  <2> QED
    BY <2>1, <2>3
<1>9. ASSUME NEW i \in 0..(n - 1), i \in T PROVE i + 1 \in T
  <2> DEFINE m == i + 1
             c == s[m]
  <2>1. m \in 1..n /\ m - 1 = i /\ m \in 0..n /\ i \in 0..n
    BY <1>2
  <2>2. OK(i)
    BY <1>9
  <2> HIDE DEF m
  <2>3. p[m] = p[i] \o W[c] /\ g[m] = g[i] \o K[c]
    BY <1>5, <1>6, <2>1 DEF SoFar, n
  <2>4. c \in Cookies /\ c \in Shown /\ c[1] \in FieldKeys /\ p[i] \in Seq(Shown) /\ g[i] \in Seq(Shown)
    BY <1>a, <1>5, <1>6, <2>1 DEF Cookies, Shown
  <2> HIDE DEF c
  <2>5. W[c] = Written(cfg, c)
    BY <2>4 DEF W, WriteMap
  <2>6. K[c] = IF c[1] = k THEN <<c>> ELSE <<>>
    BY <2>4 DEF K, KeyMap
  <2>7. g[m] = IF c[1] = k THEN Append(g[i], c) ELSE g[i]
    <3> DEFINE b == g[i]
    <3>1. b \in Seq(Shown) /\ g[m] = b \o K[c]
      BY <2>3, <2>4
    <3> HIDE DEF b
    <3>2. b \o <<c>> = Append(b, c) /\ b \o <<>> = b
      BY <2>4, <3>1
    <3> QED
      BY <2>6, <3>1, <3>2 DEF b
  <2>8. OK(m)
    <3>1. CASE ModeOf(cfg, c[1]) = "drop"
      <4>1. p[m] = p[i]
        BY <2>3, <2>4, <2>5, <3>1, OneWritten
      <4>2. f(m) = f(i)
        BY <4>1
      <4>3. c[1] = k => mode = "drop"
        BY <3>1 DEF mode
      <4> HIDE DEF f
      <4> QED
        BY <2>2, <2>7, <4>2, <4>3
    <3>2. CASE ModeOf(cfg, c[1]) # "drop"
      <4>1. PICK d \in Shown : /\ Written(cfg, c) = <<d>> /\ d[1] = c[1]
                               /\ ModeOf(cfg, c[1]) = "keep" => d = c
                               /\ ModeOf(cfg, c[1]) = "redact" => d[2] = RedactedValue
        BY <2>4, <3>2, OneWritten
      <4>2. p[m] = Append(p[i], d)
        BY <2>3, <2>4, <2>5, <4>1
      <4>3. f(m) = IF d[1] = k THEN Append(f(i), d) ELSE f(i)
        BY <1>7, <2>4, <4>2
      <4> HIDE DEF f
      <4>4. CASE c[1] = k
        <5>1. f(m) = Append(f(i), d) /\ g[m] = Append(g[i], c)
          BY <2>7, <4>1, <4>3, <4>4
        <5>2. mode # "drop" /\ (mode = "keep" => d = c) /\ (mode = "redact" => d[2] = RedactedValue)
          BY <3>2, <4>1, <4>4 DEF mode
        <5>3. f(m) \in Seq(Shown)
          BY <2>2, <5>1
        <5>4. mode = "keep" => f(m) = g[m]
          BY <2>2, <5>1, <5>2
        <5>5. ASSUME mode = "redact"
              PROVE  Len(f(m)) = Len(g[m]) /\ \A j \in 1..Len(f(m)) : f(m)[j][2] = RedactedValue
          <6>1. f(i) \in Seq(Shown) /\ Len(f(i)) = Len(g[i]) /\ \A j \in 1..Len(f(i)) : f(i)[j][2] = RedactedValue
            BY <2>2, <5>5
          <6>2. Len(f(m)) = Len(f(i)) + 1 /\ Len(g[m]) = Len(g[i]) + 1
            BY <2>4, <5>1, <6>1
          <6>3. ASSUME NEW j \in 1..Len(f(m)) PROVE f(m)[j][2] = RedactedValue
            <7>1. CASE j = Len(f(i)) + 1
              BY <5>1, <5>2, <5>5, <6>1, <7>1
            <7>2. CASE j # Len(f(i)) + 1
              <8>1. j \in 1..Len(f(i))
                BY <6>1, <6>2, <7>2
              <8>2. f(m)[j] = f(i)[j]
                BY <5>1, <6>1, <8>1
              <8> QED
                BY <6>1, <8>1, <8>2
            <7> QED
              BY <7>1, <7>2
          <6> QED
            BY <6>1, <6>2, <6>3
        <5> QED
          BY <5>2, <5>3, <5>4, <5>5
      <4>5. CASE c[1] # k
        <5>1. f(m) = f(i) /\ g[m] = g[i]
          BY <2>7, <4>1, <4>3, <4>5
        <5> QED
          BY <2>2, <5>1
      <4> QED
        BY <4>4, <4>5
    <3> QED
      BY <3>1, <3>2
  <2> HIDE DEF OK
  <2> QED
    BY <2>1, <2>8 DEF m
<1> HIDE DEF T
<1>10. 0..n \subseteq T
  BY <1>2, <1>8, <1>9, BoundedInduction
<1>11. OK(n)
  BY <1>2, <1>10 DEF T
<1>12. OfKey(k, FlatMap(W, s)) = f(n) /\ OfKey(k, s) = g[n]
  BY <1>3, <1>5, <1>6
<1> DEFINE shown == OfKey(k, FlatMap(W, s))
           given == OfKey(k, s)
<1>13. /\ mode = "drop" => shown = <<>>
       /\ mode = "keep" => shown = given
       /\ mode = "redact" => Len(shown) = Len(given) /\ \A j \in 1..Len(shown) : shown[j][2] = RedactedValue
  <2> HIDE DEF f, shown, given
  <2>1. shown = f(n) /\ given = g[n]
    BY <1>12 DEF shown, given
  <2> QED
    BY <1>11, <2>1
<1> HIDE DEF shown, given
<1>14. /\ Len(shown) = IF mode = "drop" THEN 0 ELSE Len(given)
       /\ mode = "keep" => shown = given
       /\ mode = "redact" => \A i \in 1..Len(shown) : shown[i][2] = RedactedValue
  BY <1>4, <1>13
<1> QED
  BY <1>14 DEF W, mode, shown, given

(***************************************************************************)
(* The steps.                                                              *)
(***************************************************************************)
LEMMA MapIterModes ==
  ASSUME NEW cfg \in FieldConfigs, NEW m \in Maps, NEW k \in FieldKeys
  PROVE  LET q == MapIter(cfg, m)  mode == ModeOf(cfg, k) IN
         /\ (k \in DOMAIN q) <=> (k \in DOMAIN m /\ mode # "drop")
         /\ k \in DOMAIN m /\ mode = "keep" => q[k] = m[k]
         /\ k \in DOMAIN m /\ mode = "redact" => q[k] = <<RedactedValue>>
<1> DEFINE q == MapIter(cfg, m)
<1>1. cfg.default \in {"keep", "drop", "redact"}
  BY DEF FieldConfigs, FieldModes
<1>2. CASE DOMAIN cfg.config = {}
  <2>1. ModeOf(cfg, k) = cfg.default
    BY <1>2 DEF ModeOf
  <2>2. CASE cfg.default = "keep"
    <3>1. q = m
      BY <1>2, <2>2 DEF MapIter
    <3> QED
      BY <2>1, <2>2, <3>1
  <2>3. CASE cfg.default = "drop"
    <3>1. q = [x \in {} |-> <<>>]
      BY <1>2, <2>3 DEF MapIter
    <3>2. DOMAIN q = {}
      BY <3>1
    <3> QED
      BY <2>1, <2>3, <3>2
  <2>4. CASE cfg.default = "redact"
    <3>1. q = [x \in DOMAIN m |-> <<RedactedValue>>]
      BY <1>2, <2>4 DEF MapIter
    <3> HIDE DEF q
    <3>2. DOMAIN q = DOMAIN m /\ (k \in DOMAIN m => q[k] = <<RedactedValue>>)
      BY <3>1
    <3> QED
      BY <2>1, <2>4, <3>2 DEF q
  <2> QED
    BY <1>1, <2>2, <2>3, <2>4
<1>3. CASE DOMAIN cfg.config # {}
  <2>1. q = IterWithConfig(cfg, m)
    BY <1>3 DEF MapIter
  <2> HIDE DEF q
  <2>2. ModeOf(cfg, k) \in {"keep", "drop", "redact"}
    BY ModeKnown
  <2>3. /\ DOMAIN q = {x \in DOMAIN m : ModeOf(cfg, x) # "drop"}
        /\ k \in DOMAIN q => q[k] = IF ModeOf(cfg, k) = "keep" THEN m[k] ELSE <<RedactedValue>>
    BY <2>1 DEF IterWithConfig
  <2>4. /\ (k \in DOMAIN q) <=> (k \in DOMAIN m /\ ModeOf(cfg, k) # "drop")
        /\ k \in DOMAIN m /\ ModeOf(cfg, k) = "keep" => q[k] = m[k]
        /\ k \in DOMAIN m /\ ModeOf(cfg, k) = "redact" => q[k] = <<RedactedValue>>
    BY <2>2, <2>3
  <2> QED
    BY <2>4 DEF q
<1> QED
  BY <1>2, <1>3

LEMMA IterSliceModes ==
  ASSUME NEW cfg \in FieldConfigs, NEW k \in FieldKeys, NEW s \in Seq(Cookies)
  PROVE  LET shown == OfKey(k, IterSlice(cfg, s))
             given == OfKey(k, s)
             mode  == ModeOf(cfg, k) IN
         /\ Len(shown) = IF mode = "drop" THEN 0 ELSE Len(given)
         /\ mode = "keep" => shown = given
         /\ mode = "redact" => \A i \in 1..Len(shown) : shown[i][2] = RedactedValue
<1>1. OfKey(k, <<>>) = <<>>
  <2>1. KeyMap(k) \in [Shown -> Seq(Shown)]
    BY MapTypes
  <2>2. OfKey(k, <<>>) = FlatMap(KeyMap(k), <<>>)
    BY DEF OfKey, KeyMap, Shown
  <2>3. \A M \in [Shown -> Seq(Shown)] : FlatMap(M, <<>>) = <<>>
    BY FlatMapEmpty
  <2> QED
    BY <2>1, <2>2, <2>3
<1>2. CASE s = <<>>
  <2>1. IterSlice(cfg, s) = <<>>
    BY <1>2 DEF IterSlice
  <2> QED
    BY <1>1, <1>2, <2>1
<1>3. CASE DOMAIN cfg.config = {} /\ cfg.default = "drop"
  <2>1. IterSlice(cfg, s) = <<>>
    BY <1>3 DEF IterSlice
  <2>2. ModeOf(cfg, k) = "drop"
    BY <1>3 DEF ModeOf
  <2> QED
    BY <1>1, <2>1, <2>2
<1>4. CASE s # <<>> /\ ~(DOMAIN cfg.config = {} /\ cfg.default = "drop")
  <2>1. IterSlice(cfg, s) = FlatMap(WriteMap(cfg), s)
    BY <1>4 DEF IterSlice, WriteMap
  <2> QED
    BY <2>1, CookiesOfKey
<1> QED
  BY <1>2, <1>3, <1>4

LEMMA LogFormattedSound == LogFormatted => LinesSound'
<1> SUFFICES ASSUME LogFormatted PROVE LinesSound'
  OBVIOUS
<1>1. PICK format \in {"common", "json"}, cfg \in FieldConfigs, m \in Maps,
           cookies \in UNION {[1..n -> Cookies] : n \in 0..MaxCookies} :
        LET req == [query |-> m, headers |-> m, cookies |-> cookies] IN
        af' = [pc |-> "formatted", format |-> format, cfg |-> cfg, req |-> req,
               line |-> Formatted(format, [query |-> cfg, headers |-> cfg, cookies |-> cfg], req)]
  BY DEF LogFormatted
<1>2. /\ af'.pc = "formatted" /\ af'.format = format /\ af'.cfg = cfg
      /\ af'.req = [query |-> m, headers |-> m, cookies |-> cookies]
      /\ af'.line = Formatted(format, [query |-> cfg, headers |-> cfg, cookies |-> cfg],
                              [query |-> m, headers |-> m, cookies |-> cookies])
  BY <1>1
<1>3. /\ af'.req.query = m /\ af'.req.cookies = cookies /\ af'.line.query = MapIter(cfg, m)
      /\ format = "json" => af'.line.headers = MapIter(cfg, m) /\ af'.line.cookies = IterSlice(cfg, cookies)
  BY <1>2 DEF Formatted
<1>4. cookies \in Seq(Cookies)
  <2>1. PICK n \in 0..MaxCookies : cookies \in [1..n -> Cookies]
    OBVIOUS
  <2>2. n \in Nat
    BY <2>1, AccessFilterAssumption
  <2> QED
    BY <2>1, <2>2
<1>5. FieldsRespected'
  <2> SUFFICES ASSUME NEW k \in FieldKeys
               PROVE  LET mode == ModeOf(af'.cfg, k)
                          sent == k \in DOMAIN af'.req.query IN
                      /\ (k \in DOMAIN af'.line.query) <=> (sent /\ mode # "drop")
                      /\ sent /\ mode = "keep" => af'.line.query[k] = af'.req.query[k]
                      /\ sent /\ mode = "redact" => ToSet(af'.line.query[k]) = {RedactedValue}
                      /\ af'.format = "json" =>
                           /\ af'.line.headers = af'.line.query
                           /\ LET shown == OfKey(k, af'.line.cookies)
                                  given == OfKey(k, af'.req.cookies) IN
                              /\ Len(shown) = IF mode = "drop" THEN 0 ELSE Len(given)
                              /\ mode = "keep" => shown = given
                              /\ mode = "redact" => \A i \in 1..Len(shown) : shown[i][2] = RedactedValue
    BY DEF FieldsRespected
  <2>1. LET q == MapIter(cfg, m)  mode == ModeOf(cfg, k) IN
        /\ (k \in DOMAIN q) <=> (k \in DOMAIN m /\ mode # "drop")
        /\ k \in DOMAIN m /\ mode = "keep" => q[k] = m[k]
        /\ k \in DOMAIN m /\ mode = "redact" => q[k] = <<RedactedValue>>
    BY MapIterModes
  <2>2. ToSet(<<RedactedValue>>) = {RedactedValue}
    BY DEF ToSet
  <2>3. LET shown == OfKey(k, IterSlice(cfg, cookies))
            given == OfKey(k, cookies)
            mode  == ModeOf(cfg, k) IN
        /\ Len(shown) = IF mode = "drop" THEN 0 ELSE Len(given)
        /\ mode = "keep" => shown = given
        /\ mode = "redact" => \A i \in 1..Len(shown) : shown[i][2] = RedactedValue
    BY <1>4, IterSliceModes
  <2> QED
    BY <1>2, <1>3, <2>1, <2>2, <2>3
<1>6. FiltersComplement'
  BY <1>2 DEF FiltersComplement
<1> QED
  BY <1>5, <1>6 DEF LinesSound

LEMMA LogFilteredSound == LogFiltered => LinesSound'
<1> SUFFICES ASSUME LogFiltered PROVE LinesSound'
  OBVIOUS
<1>1. PICK neg \in BOOLEAN, codes \in SUBSET Ranges, hs \in SUBSET [key : FieldKeys, value : {""} \union FieldValues],
           headers \in Maps, status \in {200, 404, 500}, inNet \in BOOLEAN :
        LET req == [status |-> status, method |-> "GET", headers |-> headers,
                    ip |-> IF inNet THEN "in" ELSE "out"]
            f == [status |-> [negative |-> neg, values |-> codes], method |-> NoFilter,
                  headers |-> [negative |-> neg, values |-> hs],
                  cidr |-> [negative |-> ~neg, values |-> {{"in"}}]] IN
        af' = [pc |-> "filtered", f |-> f, req |-> req, logged |-> ShouldLogRequest(f, req)]
  BY DEF LogFiltered
<1> DEFINE g == [negative |-> neg, values |-> hs]
           theCidr == [negative |-> ~neg, values |-> {{"in"}}]
           f == [status |-> [negative |-> neg, values |-> codes], method |-> NoFilter, headers |-> g, cidr |-> theCidr]
           req == [status |-> status, method |-> "GET", headers |-> headers, ip |-> IF inNet THEN "in" ELSE "out"]
<1>2. af'.pc = "filtered" /\ af'.f = f /\ af'.req = req /\ af'.logged = ShouldLogRequest(f, req)
  BY <1>1
<1>3. f.headers = g /\ f.cidr = theCidr /\ req.headers = headers /\ req.ip = IF inNet THEN "in" ELSE "out"
  OBVIOUS
<1>4. f.cidr.negative = ~neg /\ f.cidr.values = {{"in"}} /\ g.negative = neg /\ g.values = hs
  OBVIOUS
<1>5. ASSUME ShouldLogRequest(f, req) PROVE (req.ip = "in") # f.cidr.negative
  <2> DEFINE within == {x \in f.cidr.values : req.ip \in x}
  <2>1. CheckKeep(f.cidr, within)
    BY <1>5 DEF ShouldLogRequest
  <2>a. within # {} => neg
    <3> HIDE DEF within, f
    <3> QED
      BY <1>4, <2>1 DEF CheckKeep
  <2>b. within = {} => ~neg
    <3> HIDE DEF within, f
    <3> QED
      BY <1>4, <2>1 DEF CheckKeep
  <2> HIDE DEF f, req
  <2>2. CASE inNet
    <3>1. req.ip = "in"
      BY <1>3, <2>2
    <3>2. {"in"} \in within
      BY <1>4, <3>1
    <3> HIDE DEF within
    <3>3. neg
      BY <2>a, <3>2
    <3> QED
      BY <1>4, <3>1, <3>3
  <2>3. CASE ~inNet
    <3>1. req.ip = "out"
      BY <1>3, <2>3
    <3>2. ASSUME NEW x \in within PROVE FALSE
      <4>1. x = {"in"} /\ req.ip \in x
        BY <1>4
      <4> QED
        BY <3>1, <4>1
    <3> HIDE DEF within
    <3>3. ~neg
      BY <2>b, <3>2
    <3> QED
      BY <1>4, <3>1, <3>3
  <2> QED
    BY <2>2, <2>3
<1>a. af'.f.headers = g
  BY <1>2, <1>3
<1>6. af'.f.cidr = f.cidr /\ af'.req.ip = req.ip /\ af'.logged = ShouldLogRequest(f, req)
  BY <1>2, <1>3
<1> DEFINE full(v) == {h \in v : HeaderFulfills(h, af'.req.headers)}
           keep(x) == CheckKeep(x, {h \in x.values : HeaderFulfills(h, af'.req.headers)})
<1>7. keep(af'.f.headers) # keep([af'.f.headers EXCEPT !.negative = ~@])
  <2> DEFINE G == af'.f.headers
             flipped == [G EXCEPT !.negative = ~@]
  <2>1. G.values = hs /\ G.negative = neg /\ flipped.values = hs /\ flipped.negative = ~neg
    <3>1. G = g
      BY <1>a
    <3> HIDE DEF G
    <3> QED
      BY <3>1
  <2> HIDE DEF flipped, G
  <2>2. keep(G) = (IF hs = {} \/ full(hs) # {} THEN ~neg ELSE neg)
    BY <2>1, ZenonT(60) DEF CheckKeep
  <2>3. keep(flipped) = (IF hs = {} \/ full(hs) # {} THEN neg ELSE ~neg)
    BY <2>1, ZenonT(60) DEF CheckKeep
  <2>4. keep(G) # keep(flipped)
    BY <2>2, <2>3
  <2> QED
    BY <2>4 DEF flipped, G
<1>8. ASSUME NEW h \in [key : FieldKeys, value : {""}],
             keep([af'.f.headers EXCEPT !.negative = FALSE]), [af'.f.headers EXCEPT !.negative = FALSE].values # {}
      PROVE  keep([[af'.f.headers EXCEPT !.negative = FALSE] EXCEPT !.values = @ \union {h}])
  <2> DEFINE pos == [af'.f.headers EXCEPT !.negative = FALSE]
             more == [pos EXCEPT !.values = @ \union {h}]
  <2>1. pos.values = hs /\ pos.negative = FALSE /\ more.values = hs \union {h} /\ more.negative = FALSE
    <3> DEFINE G == af'.f.headers
    <3>1. G = g
      BY <1>a
    <3> HIDE DEF G
    <3>2. pos = [G EXCEPT !.negative = FALSE]
      BY DEF G
    <3> HIDE DEF pos
    <3>3. pos = [negative |-> FALSE, values |-> hs]
      BY <3>1, <3>2
    <3> QED
      BY <3>3
  <2>2. keep(pos) /\ pos.values # {}
    BY <1>8
  <2> HIDE DEF pos, more
  <2>3. full(hs) # {}
    BY <2>1, <2>2 DEF CheckKeep
  <2>4. full(hs \union {h}) # {}
    BY <2>3
  <2>5. keep(more)
    BY <2>1, <2>4 DEF CheckKeep
  <2> QED
    BY <2>5 DEF more, pos
<1>9. af'.logged => (af'.req.ip = "in") # af'.f.cidr.negative
  BY <1>5, <1>6
<1>10. FiltersComplement'
  <2> HIDE DEF f, req, g
  <2> QED
    BY <1>7, <1>8, <1>9, ZenonT(60) DEF FiltersComplement
<1>11. FieldsRespected'
  <2> HIDE DEF f, req
  <2> QED
    BY <1>2 DEF FieldsRespected
<1> QED
  BY <1>10, <1>11 DEF LinesSound

(* A line is written for the requests the filters ask for, and shows of    *)
(* them what the fields allow: the shortcuts of mapIter and iterSlice and  *)
(* the loops they replace agree, for any number of cookies.                *)
THEOREM LinesAreSound == AccessFilterSpec => []LinesSound
<1>1. AccessFilterInit => LinesSound
  BY DEF AccessFilterInit, LinesSound, FieldsRespected, FiltersComplement
<1>2. LinesSound /\ [AccessFilterNext]_af => LinesSound'
  <2>1. ASSUME LinesSound, UNCHANGED af PROVE LinesSound'
    BY <2>1 DEF LinesSound, FieldsRespected, FiltersComplement
  <2> QED
    BY <2>1, LogFilteredSound, LogFormattedSound DEF AccessFilterNext
<1> QED
  BY <1>1, <1>2, PTL DEF AccessFilterSpec

(***************************************************************************)
(* EnvReader, for texts of any length and any sizes of chunks and reads.   *)
(***************************************************************************)
EnvChars == UNION {Range(text) : text \in EnvTexts}
Tokens   == EnvChars \union {Value}
AllChars == EnvChars \union {"$", LeftBrace, RightBrace}
EnvNamed == EnvSet \intersect Seq(EnvChars)
ValuesOf(got) == {k \in DOMAIN got : got[k] = Value}
Restored(got, text) ==
  \E name \in [ValuesOf(got) -> EnvNamed] : text = FlattenSeq(WithNames(got, name))

LEMMA ValueApart == Value \notin EnvChars
BY EnvReaderAssumption DEF EnvChars

LEMMA BracesApart == "$" # RightBrace /\ LeftBrace # RightBrace
BY Zenon DEF LeftBrace, RightBrace

LEMMA WithNamesType ==
  ASSUME NEW got \in Seq(Tokens), NEW name \in [ValuesOf(got) -> EnvNamed]
  PROVE  WithNames(got, name) \in Seq(Seq(AllChars)) /\ Len(WithNames(got, name)) = Len(got)
<1> DEFINE n == Len(got)
           w == WithNames(got, name)
           e(k) == IF got[k] = Value THEN <<"$", LeftBrace>> \o name[k] \o <<RightBrace>> ELSE <<got[k]>>
<1>0. n \in Nat /\ DOMAIN got = 1..n
  OBVIOUS
<1>a. <<"$", LeftBrace>> \in Seq(AllChars) /\ <<RightBrace>> \in Seq(AllChars) /\ EnvChars \subseteq AllChars
  <2>1. "$" \in AllChars /\ LeftBrace \in AllChars /\ RightBrace \in AllChars /\ EnvChars \subseteq AllChars
    BY Zenon DEF AllChars
  <2> QED
    BY <2>1
<1>1. ASSUME NEW k \in 1..n PROVE e(k) \in Seq(AllChars)
  <2>1. CASE got[k] = Value
    <3>1. name[k] \in EnvNamed
      BY <1>0, <2>1 DEF ValuesOf
    <3>2. name[k] \in Seq(EnvChars)
      BY <3>1 DEF EnvNamed
    <3> DEFINE x == name[k]
    <3>3. x \in Seq(AllChars)
      <4> HIDE DEF x
      <4> QED
        BY <1>a, <3>2, SeqMonotonic DEF x
    <3> HIDE DEF x
    <3>4. <<"$", LeftBrace>> \o x \o <<RightBrace>> \in Seq(AllChars)
      BY <1>a, <3>3, ConcatProperties
    <3> QED
      BY <2>1, <3>4 DEF x
  <2>2. CASE got[k] # Value
    <3>1. got[k] \in Tokens
      OBVIOUS
    <3>2. got[k] \in AllChars
      BY <1>a, <2>2, <3>1 DEF Tokens
    <3>3. <<got[k]>> \in Seq(AllChars)
      BY <3>2
    <3> QED
      BY <2>2, <3>3
  <2> QED
    BY <2>1, <2>2
<1>2. w = [k \in 1..n |-> e(k)]
  BY <1>0 DEF WithNames
<1> HIDE DEF e
<1>3. w \in [1..n -> Seq(AllChars)]
  BY <1>1, <1>2
<1> HIDE DEF w
<1> QED
  BY <1>0, <1>3 DEF w

LEMMA RestoredEmpty == Restored(<<>>, <<>>)
<1> DEFINE name == [k \in {} |-> <<>>]
<1>1. ValuesOf(<<>>) = {}
  BY DEF ValuesOf
<1>2. name \in [ValuesOf(<<>>) -> EnvNamed]
  BY <1>1
<1>3. WithNames(<<>>, name) = <<>>
  BY DEF WithNames
<1>4. FlattenSeq(<<>>) = <<>>
  BY DEF FlattenSeq
<1> QED
  BY <1>2, <1>3, <1>4 DEF Restored

LEMMA RestoredConcat ==
  ASSUME NEW g \in Seq(Tokens), NEW h \in Seq(Tokens), NEW s, NEW t, Restored(g, s), Restored(h, t)
  PROVE  Restored(g \o h, s \o t)
<1> DEFINE m == Len(g)
           n == Len(h)
           c == g \o h
<1>0. m \in Nat /\ n \in Nat /\ DOMAIN g = 1..m /\ DOMAIN h = 1..n
  OBVIOUS
<1>1. PICK a \in [ValuesOf(g) -> EnvNamed] : s = FlattenSeq(WithNames(g, a))
  BY DEF Restored
<1>2. PICK b \in [ValuesOf(h) -> EnvNamed] : t = FlattenSeq(WithNames(h, b))
  BY DEF Restored
<1>3. /\ c \in Seq(Tokens) /\ Len(c) = m + n
      /\ \A i \in 1..(m + n) : c[i] = IF i <= m THEN g[i] ELSE h[i - m]
  BY ConcatProperties
<1>4. DOMAIN c = 1..(m + n)
  BY <1>3
<1> HIDE DEF c
<1> DEFINE name == [k \in ValuesOf(c) |-> IF k <= m THEN a[k] ELSE b[k - m]]
<1>5. ASSUME NEW k \in 1..(m + n)
      PROVE  /\ k <= m => k \in 1..m /\ c[k] = g[k] /\ (c[k] = Value => k \in ValuesOf(g))
             /\ ~(k <= m) => k - m \in 1..n /\ c[k] = h[k - m] /\ (c[k] = Value => k - m \in ValuesOf(h))
  <2>1. k <= m => k \in 1..m
    BY <1>0
  <2>2. ~(k <= m) => k - m \in 1..n
    BY <1>0
  <2> QED
    BY <1>0, <1>3, <2>1, <2>2 DEF ValuesOf
<1>6. name \in [ValuesOf(c) -> EnvNamed]
  <2>1. ASSUME NEW k \in ValuesOf(c) PROVE (IF k <= m THEN a[k] ELSE b[k - m]) \in EnvNamed
    <3>1. k \in 1..(m + n) /\ c[k] = Value
      BY <1>4 DEF ValuesOf
    <3> QED
      BY <1>1, <1>2, <1>5, <3>1
  <2> QED
    BY <2>1
<1>7. \A k \in ValuesOf(c) : name[k] = IF k <= m THEN a[k] ELSE b[k - m]
  OBVIOUS
<1> HIDE DEF name
<1> DEFINE u == WithNames(g, a)
           v == WithNames(h, b)
           w == WithNames(c, name)
<1>8. u \in Seq(Seq(AllChars)) /\ Len(u) = m /\ v \in Seq(Seq(AllChars)) /\ Len(v) = n
  BY <1>1, <1>2, WithNamesType
<1>9. w \in Seq(Seq(AllChars)) /\ Len(w) = m + n
  BY <1>3, <1>6, WithNamesType
<1>10. /\ \A k \in 1..m : u[k] = IF g[k] = Value THEN <<"$", LeftBrace>> \o a[k] \o <<RightBrace>> ELSE <<g[k]>>
       /\ \A k \in 1..n : v[k] = IF h[k] = Value THEN <<"$", LeftBrace>> \o b[k] \o <<RightBrace>> ELSE <<h[k]>>
       /\ \A k \in 1..(m + n) : w[k] = IF c[k] = Value THEN <<"$", LeftBrace>> \o name[k] \o <<RightBrace>> ELSE <<c[k]>>
  BY <1>0, <1>4, Zenon DEF WithNames
<1> HIDE DEF u, v, w
<1>11. /\ u \o v \in Seq(Seq(AllChars)) /\ Len(u \o v) = m + n
       /\ \A i \in 1..(m + n) : (u \o v)[i] = IF i <= m THEN u[i] ELSE v[i - m]
  <2>1. /\ u \o v \in Seq(Seq(AllChars)) /\ Len(u \o v) = Len(u) + Len(v)
        /\ \A i \in 1..(Len(u) + Len(v)) : (u \o v)[i] = IF i <= Len(u) THEN u[i] ELSE v[i - Len(u)]
    <3> HIDE DEF m, n
    <3>1. u \in Seq(Seq(AllChars)) /\ v \in Seq(Seq(AllChars))
      BY <1>8
    <3> QED
      BY ONLY <3>1, ConcatProperties
  <2> HIDE DEF m, n
  <2> QED
    BY <1>8, <2>1
<1>12. ASSUME NEW k \in 1..(m + n) PROVE w[k] = (u \o v)[k]
  <2>1. CASE k <= m
    <3>1. k \in 1..m /\ c[k] = g[k] /\ (c[k] = Value => name[k] = a[k])
      BY <1>4, <1>5, <1>7, <2>1 DEF ValuesOf
    <3>2. (u \o v)[k] = u[k]
      BY <1>11, <2>1
    <3> QED
      BY <1>10, <3>1, <3>2, Zenon
  <2>2. CASE ~(k <= m)
    <3>1. k - m \in 1..n /\ c[k] = h[k - m] /\ (c[k] = Value => name[k] = b[k - m])
      BY <1>4, <1>5, <1>7, <2>2 DEF ValuesOf
    <3>2. (u \o v)[k] = v[k - m]
      BY <1>11, <2>2
    <3> QED
      BY <1>10, <3>1, <3>2, Zenon
  <2> QED
    BY <2>1, <2>2
<1>13. w = u \o v
  BY <1>9, <1>11, <1>12, SeqEqual
<1>14. FlattenSeq(w) = s \o t
  <2>1. FlattenSeq(u \o v) = FlattenSeq(u) \o FlattenSeq(v)
    BY <1>8, FlattenConcat
  <2> QED
    BY <1>1, <1>2, <1>13, <2>1 DEF u, v
<1> QED
  BY <1>6, <1>14 DEF Restored, w, c

LEMMA RestoredChar ==
  ASSUME NEW c \in EnvChars
  PROVE  Restored(<<c>>, <<c>>)
<1> DEFINE g == <<c>>
           name == [k \in {} |-> <<>>]
<1>1. c # Value
  BY ValueApart
<1>2. ValuesOf(g) = {}
  BY <1>1 DEF ValuesOf
<1>3. name \in [ValuesOf(g) -> EnvNamed]
  BY <1>2
<1>4. WithNames(g, name) = << <<c>> >>
  <2>1. DOMAIN g = {1} /\ g[1] = c
    OBVIOUS
  <2>2. WithNames(g, name) = [k \in {1} |-> <<c>>]
    <3> HIDE DEF g, name
    <3>1. \A k \in {1} : (IF g[k] = Value THEN <<"$", LeftBrace>> \o name[k] \o <<RightBrace>> ELSE <<g[k]>>) = <<c>>
      BY <1>1, <2>1
    <3> QED
      BY <2>1, <3>1 DEF WithNames
  <2> QED
    BY <2>2
<1>5. <<c>> \in Seq(EnvChars)
  OBVIOUS
<1>6. FlattenSeq(<< <<c>> >>) = <<c>>
  BY <1>5, FlattenOne
<1> QED
  BY <1>3, <1>4, <1>6 DEF Restored

LEMMA RestoredValue ==
  ASSUME NEW nm \in EnvNamed
  PROVE  Restored(<<Value>>, <<"$", LeftBrace>> \o nm \o <<RightBrace>>)
<1> DEFINE g == <<Value>>
           name == [k \in {1} |-> nm]
           x == <<"$", LeftBrace>> \o nm \o <<RightBrace>>
<1>1. DOMAIN g = {1} /\ g[1] = Value
  OBVIOUS
<1>2. ValuesOf(g) = {1}
  <2> HIDE DEF g
  <2> QED
    BY <1>1 DEF ValuesOf
<1>3. name \in [ValuesOf(g) -> EnvNamed] /\ name[1] = nm
  BY <1>2
<1>4. WithNames(g, name) = <<x>>
  <2>1. WithNames(g, name) = [k \in {1} |-> x]
    <3> HIDE DEF g, name
    <3>1. \A k \in {1} : (IF g[k] = Value THEN <<"$", LeftBrace>> \o name[k] \o <<RightBrace>> ELSE <<g[k]>>) = x
      BY <1>1, <1>3
    <3> HIDE DEF x
    <3> QED
      BY <1>1, <3>1 DEF WithNames
  <2> HIDE DEF x
  <2> QED
    BY <2>1
<1>5. <<Value>> \in Seq(Tokens)
  BY DEF Tokens
<1>6. WithNames(g, name) \in Seq(Seq(AllChars))
  BY <1>3, <1>5, WithNamesType
<1> HIDE DEF x
<1>7. x \in Seq(AllChars)
  BY <1>4, <1>6
<1>8. FlattenSeq(<<x>>) = x
  BY <1>7, FlattenOne
<1> QED
  BY <1>3, <1>4, <1>8 DEF Restored, x

IsCandidate(c, i, j) ==
  /\ i \in 1..Len(c) /\ j \in 1..Len(c) /\ j > i + 2
  /\ c[i] = "$" /\ c[i + 1] = LeftBrace /\ c[j] = RightBrace
  /\ \A k \in (i + 2)..(j - 1) : c[k] # RightBrace

LEMMA CandidateIs ==
  ASSUME NEW c, NEW m
  PROVE  m \in Candidates(c) <=> /\ m \in (1..Len(c)) \X (1..Len(c)) /\ IsCandidate(c, m[1], m[2])
BY DEF Candidates, IsCandidate

(* Two references do not overlap.                                          *)
LEMMA MatchesApart ==
  ASSUME NEW c \in Seq(EnvChars), NEW m \in Matches(c), NEW o \in Matches(c)
  PROVE  m = o \/ m[2] < o[1] \/ o[2] < m[1]
<1>0. Len(c) \in Nat
  OBVIOUS
<1>1. ASSUME NEW x \in Matches(c), NEW y \in Matches(c), x[2] < y[2] PROVE x[2] < y[1]
  <2>1. IsCandidate(c, x[1], x[2]) /\ IsCandidate(c, y[1], y[2])
    BY CandidateIs DEF Matches
  <2> DEFINE j == x[2]
             i == y[1]
             l == y[2]
  <2>2. i \in 1..Len(c) /\ l \in 1..Len(c) /\ j \in 1..Len(c) /\ c[i] = "$" /\ c[i + 1] = LeftBrace /\ c[j] = RightBrace
        /\ \A k \in (i + 2)..(l - 1) : c[k] # RightBrace
    BY <2>1 DEF IsCandidate
  <2>3. j < l
    BY <1>1
  <2> HIDE DEF i, j, l
  <2>4. j # i /\ j # i + 1
    BY <2>2, BracesApart
  <2>5. j \notin (i + 2)..(l - 1)
    BY <2>2
  <2>6. j < i
    BY <1>0, <2>2, <2>3, <2>4, <2>5
  <2> QED
    BY <2>6 DEF i, j
<1>2. m \in Candidates(c) /\ o \in Candidates(c)
  BY DEF Matches
<1>3. /\ m \in (1..Len(c)) \X (1..Len(c)) /\ o \in (1..Len(c)) \X (1..Len(c))
  BY <1>2, CandidateIs
<1>4. m[1] \in 1..Len(c) /\ m[2] \in 1..Len(c) /\ o[1] \in 1..Len(c) /\ o[2] \in 1..Len(c)
  BY <1>3
<1>5. CASE m[2] = o[2]
  <2>1. m[1] <= o[1] /\ o[1] <= m[1]
    BY <1>2, <1>5 DEF Matches
  <2>2. m[1] = o[1]
    BY <1>0, <1>4, <2>1
  <2> QED
    BY <1>3, <1>5, <2>2
<1>6. CASE m[2] < o[2]
  BY <1>1, <1>6
<1>7. CASE o[2] < m[2]
  BY <1>1, <1>7
<1> QED
  BY <1>0, <1>4, <1>5, <1>6, <1>7

LEMMA PiecewiseType ==
  ASSUME NEW c \in Seq(EnvChars)
  PROVE  /\ Piecewise(c) \in Seq(Seq(Tokens)) /\ Len(Piecewise(c)) = Len(c)
         /\ substituteEnv(c) \in Seq(Tokens)
<1> DEFINE n == Len(c)
           q == Piecewise(c)
           e(k) == IF \E m \in Matches(c) : m[1] = k THEN <<Value>>
                   ELSE IF \E m \in Matches(c) : m[1] < k /\ k <= m[2] THEN <<>> ELSE <<c[k]>>
<1>0. n \in Nat /\ DOMAIN c = 1..n
  OBVIOUS
<1>1. ASSUME NEW k \in 1..n PROVE e(k) \in Seq(Tokens)
  <2>1. c[k] \in Tokens /\ Value \in Tokens
    BY DEF Tokens
  <2>2. <<c[k]>> \in Seq(Tokens) /\ <<Value>> \in Seq(Tokens) /\ <<>> \in Seq(Tokens)
    BY <2>1
  <2> QED
    BY <2>2
<1>2. q = [k \in 1..n |-> e(k)]
  BY <1>0 DEF Piecewise
<1> HIDE DEF e
<1>3. q \in [1..n -> Seq(Tokens)]
  BY <1>1, <1>2
<1> HIDE DEF q
<1>4. q \in Seq(Seq(Tokens)) /\ Len(q) = n
  BY <1>0, <1>3
<1>5. FlattenSeq(q) \in Seq(Tokens)
  BY <1>4, FlattenType
<1> QED
  BY <1>4, <1>5 DEF q, substituteEnv

Inside(m, k) == m[1] <= k /\ k < m[2]

(* Substitution loses nothing: with the names put back, the text is there. *)
LEMMA SubstitutesBack ==
  ASSUME NEW c \in Seq(EnvChars), AllSet(c)
  PROVE  Restored(substituteEnv(c), c)
<1> DEFINE n == Len(c)
           q == Piecewise(c)
           M == Matches(c)
           Pre(k) == SubSeq(c, 1, k)
<1>0. n \in Nat /\ DOMAIN c = 1..n
  OBVIOUS
<1>1. q \in Seq(Seq(Tokens)) /\ Len(q) = n
  BY PiecewiseType
<1>2. PICK p \in [0..n -> Seq(Tokens)] : Flattens(p, q)
  <2> HIDE DEF q
  <2>1. \E p \in [0..Len(q) -> Seq(Tokens)] : Flattens(p, q)
    BY <1>1, PrefixesExist
  <2> QED
    BY <1>1, <2>1
<1>3. FlattenSeq(q) = p[n]
  <2> HIDE DEF q, n
  <2>1. p \in [0..Len(q) -> Seq(Tokens)]
    BY <1>1, <1>2
  <2> QED
    BY <1>1, <1>2, <2>1, FlattenIs
<1>4. p[0] = <<>> /\ \A k \in 1..n : p[k] = p[k - 1] \o q[k]
  BY <1>1, <1>2 DEF Flattens
<1>5. ASSUME NEW k \in 1..n
      PROVE  q[k] = IF \E m \in M : m[1] = k THEN <<Value>>
                    ELSE IF \E m \in M : m[1] < k /\ k <= m[2] THEN <<>> ELSE <<c[k]>>
  BY <1>0 DEF Piecewise
<1>6. ASSUME NEW m \in M
      PROVE  /\ m[1] \in 1..n /\ m[2] \in 1..n /\ m[2] > m[1] + 2
             /\ Restored(<<Value>>, SubSeq(c, m[1], m[2]))
  <2>1. m \in Candidates(c)
    BY DEF Matches
  <2>2. IsCandidate(c, m[1], m[2])
    BY <2>1, CandidateIs
  <2> DEFINE i == m[1]
             j == m[2]
             nm == SubSeq(c, i + 2, j - 1)
  <2>3. Name(c, m) \in EnvSet
    BY DEF AllSet
  <2>4. /\ i \in 1..n /\ j \in 1..n /\ j > i + 2 /\ c[i] = "$" /\ c[i + 1] = LeftBrace /\ c[j] = RightBrace
    BY <2>2 DEF IsCandidate
  <2>5. nm \in EnvSet
    BY <2>3 DEF Name
  <2> HIDE DEF i, j
  <2>6. nm \in Seq(EnvChars)
    <3>1. \A k \in (i + 2)..(j - 1) : c[k] \in EnvChars
      BY <1>0, <2>4
    <3>2. i + 2 \in Int /\ j - 1 \in Int
      BY <1>0, <2>4
    <3> QED
      BY <3>1, <3>2, SubSeqProperties
  <2>7. Restored(<<Value>>, <<"$", LeftBrace>> \o nm \o <<RightBrace>>)
    <3> HIDE DEF nm
    <3>1. nm \in EnvNamed
      BY <2>5, <2>6 DEF EnvNamed
    <3> QED
      BY <3>1, RestoredValue
  <2>8. SubSeq(c, i, j) = <<"$", LeftBrace>> \o nm \o <<RightBrace>>
    <3>1. SubSeq(c, i, j) = SubSeq(c, i, j - 1) \o <<c[j]>>
      <4>1. j \in i..n
        BY <1>0, <2>4
      <4> QED
        BY <2>4, <4>1, SubSeqRecursiveSecond
    <3>2. SubSeq(c, i, j - 1) = SubSeq(c, i, i + 1) \o SubSeq(c, (i + 1) + 1, j - 1)
      <4>1. i \in 1..(n + 1) /\ i + 1 \in (i - 1)..n /\ j - 1 \in (i + 1)..n
        BY <1>0, <2>4
      <4> QED
        BY <4>1, ConcatAdjacentSubSeq
    <3>3. (i + 1) + 1 = i + 2
      BY <2>4
    <3>4. SubSeq(c, i, i + 1) = <<"$", LeftBrace>>
      <4>1. SubSeq(c, i, i + 1) = <<c[i]>> \o SubSeq(c, i + 1, i + 1)
        <5>1. i + 1 \in i..n
          BY <1>0, <2>4
        <5> QED
          BY <2>4, <5>1, SubSeqRecursiveFirst
      <4>2. SubSeq(c, i + 1, i + 1) = <<c[i + 1]>> \o SubSeq(c, (i + 1) + 1, i + 1)
        <5>1. i + 1 \in 1..n /\ i + 1 \in (i + 1)..n
          BY <1>0, <2>4
        <5> QED
          BY <5>1, SubSeqRecursiveFirst
      <4>3. SubSeq(c, (i + 1) + 1, i + 1) = <<>>
        <5>1. (i + 1) + 1 \in Int /\ i + 1 \in Int /\ i + 1 < (i + 1) + 1
          BY <1>0, <2>4
        <5> QED
          BY <5>1, SubSeqEmpty
      <4>4. ASSUME NEW x, NEW y PROVE <<x>> \o (<<y>> \o <<>>) = <<x, y>>
        BY SMTT(60)
      <4>5. SubSeq(c, i, i + 1) = <<c[i], c[i + 1]>>
        BY ONLY <4>1, <4>2, <4>3, <4>4
      <4> QED
        BY <2>4, <4>5
    <3> QED
      BY <2>4, <3>1, <3>2, <3>3, <3>4
  <2> QED
    BY <2>4, <2>7, <2>8 DEF i, j
<1>7. ASSUME NEW m \in M, NEW o \in M PROVE m = o \/ m[2] < o[1] \/ o[2] < m[1]
  BY MatchesApart
<1> HIDE DEF M, q
<1> DEFINE A(k) == (\A m \in M : ~Inside(m, k)) => Restored(p[k], Pre(k))
           B(k) == \A m \in M : Inside(m, k) =>
                     \E g \in Seq(Tokens) : Restored(g, SubSeq(c, 1, m[1] - 1)) /\ p[k] = g \o <<Value>>
           T == {k \in 0..n : A(k) /\ B(k)}
<1>8. 0 \in T
  <2>1. Pre(0) = <<>>
    BY SubSeqEmpty
  <2>2. \A m \in M : ~Inside(m, 0)
    BY <1>0, <1>6 DEF Inside
  <2> QED
    BY <1>0, <1>4, <2>1, <2>2, RestoredEmpty, SMTT(60)
<1>9. ASSUME NEW i \in 0..(n - 1), i \in T PROVE i + 1 \in T
  <2> DEFINE k == i + 1
  <2>0. k \in 1..n /\ k \in 0..n /\ k - 1 = i /\ i \in 0..n
    BY <1>0
  <2>1. A(i) /\ B(i)
    BY <1>9
  <2>2. p[k] = p[i] \o q[k]
    BY <1>4, <2>0
  <2>3. p[i] \in Seq(Tokens) /\ <<Value>> \in Seq(Tokens)
    <3>1. Value \in Tokens
      BY DEF Tokens
    <3> QED
      BY <2>0, <3>1
  <2> HIDE DEF k
  <2>4. CASE \E m \in M : m[1] = k
    <3>1. PICK m \in M : m[1] = k
      BY <2>4
    <3>2. q[k] = <<Value>>
      BY <1>5, <2>0, <2>4
    <3>3. \A o \in M : ~Inside(o, i)
      <4> SUFFICES ASSUME NEW o \in M, Inside(o, i) PROVE FALSE
        OBVIOUS
      <4>1. o[1] \in 1..n /\ o[2] \in 1..n /\ o[1] <= i /\ i < o[2] /\ m[2] \in 1..n /\ m[2] > m[1] + 2
        BY <1>6 DEF Inside
      <4>2. m = o \/ m[2] < o[1] \/ o[2] < m[1]
        BY <1>7
      <4> QED
        BY <1>0, <2>0, <3>1, <4>1, <4>2
    <3>4. Restored(p[i], Pre(i))
      BY <2>1, <3>3
    <3>5. Inside(m, k)
      BY <1>0, <1>6, <3>1 DEF Inside
    <3>6. ASSUME NEW o \in M, Inside(o, k)
          PROVE  \E g \in Seq(Tokens) : Restored(g, SubSeq(c, 1, o[1] - 1)) /\ p[k] = g \o <<Value>>
      <4>1. o = m
        <5>1. o[1] \in 1..n /\ o[2] \in 1..n /\ o[1] <= k /\ k < o[2] /\ m[2] \in 1..n /\ m[2] > m[1] + 2
          BY <1>6, <3>6 DEF Inside
        <5>2. m = o \/ m[2] < o[1] \/ o[2] < m[1]
          BY <1>7
        <5> QED
          BY <1>0, <2>0, <3>1, <5>1, <5>2
      <4>2. o[1] - 1 = i
        BY <2>0, <3>1, <4>1
      <4> QED
        BY <2>2, <2>3, <3>2, <3>4, <4>2
    <3> QED
      BY <2>0, <3>5, <3>6 DEF k
  <2>5. CASE (~ \E m \in M : m[1] = k) /\ (\E m \in M : m[1] < k /\ k <= m[2])
    <3>1. PICK m \in M : m[1] < k /\ k <= m[2]
      BY <2>5
    <3>2. q[k] = <<>>
      BY <1>5, <2>0, <2>5
    <3>3. p[k] = p[i]
      BY <2>2, <2>3, <3>2, ConcatEmptySeq
    <3>4. Inside(m, i) /\ m[1] \in 1..n /\ m[2] \in 1..n
      BY <1>0, <1>6, <2>0, <3>1 DEF Inside
    <3>5. PICK g \in Seq(Tokens) : Restored(g, SubSeq(c, 1, m[1] - 1)) /\ p[i] = g \o <<Value>>
      BY <2>1, <3>4
    <3>6. ASSUME NEW o \in M, Inside(o, k) PROVE o = m /\ Inside(m, k)
      <4>1. o[1] \in 1..n /\ o[2] \in 1..n /\ o[1] <= k /\ k < o[2] /\ m[2] \in 1..n
        BY <1>6, <3>6 DEF Inside
      <4>2. o[1] # k
        BY <2>5
      <4>3. m = o \/ m[2] < o[1] \/ o[2] < m[1]
        BY <1>7
      <4>4. o = m
        BY <1>0, <2>0, <3>1, <3>4, <4>1, <4>2, <4>3
      <4> QED
        BY <3>6, <4>4
    <3>7. B(k)
      BY <3>3, <3>5, <3>6
    <3>8. ASSUME \A o \in M : ~Inside(o, k) PROVE Restored(p[k], Pre(k))
      <4>a. ~Inside(m, k) /\ m[1] <= k
        BY <1>0, <2>0, <3>1, <3>4, <3>8
      <4>b. ~(k < m[2])
        BY <4>a DEF Inside
      <4>1. k = m[2]
        BY <1>0, <2>0, <3>1, <3>4, <4>b
      <4>2. Restored(<<Value>>, SubSeq(c, m[1], m[2]))
        BY <1>6
      <4>3. Restored(g \o <<Value>>, SubSeq(c, 1, m[1] - 1) \o SubSeq(c, m[1], m[2]))
        BY <2>3, <3>5, <4>2, RestoredConcat
      <4>4. SubSeq(c, 1, m[1] - 1) \o SubSeq(c, m[1], m[2]) = SubSeq(c, 1, m[2])
        <5> DEFINE x == m[1] - 1
                   y == m[2]
        <5>1. x + 1 = m[1] /\ 1 \in 1..(n + 1) /\ x \in (1 - 1)..n /\ y \in x..n
          BY <1>0, <3>1, <3>4, <4>1
        <5> HIDE DEF x, y
        <5>2. SubSeq(c, 1, x) \o SubSeq(c, x + 1, y) = SubSeq(c, 1, y)
          BY <5>1, ConcatAdjacentSubSeq
        <5> QED
          BY <5>1, <5>2 DEF x, y
      <4> QED
        BY <3>3, <3>5, <4>1, <4>3, <4>4
    <3> QED
      BY <2>0, <3>7, <3>8 DEF k
  <2>6. CASE (~ \E m \in M : m[1] = k) /\ ~ (\E m \in M : m[1] < k /\ k <= m[2])
    <3>1. q[k] = <<c[k]>>
      BY <1>5, <2>0, <2>6
    <3>2. ASSUME NEW o \in M PROVE ~Inside(o, i) /\ ~Inside(o, k)
      <4>1. o[1] \in 1..n /\ o[2] \in 1..n /\ o[1] # k /\ ~(o[1] < k /\ k <= o[2])
        BY <1>6, <2>6
      <4> QED
        BY <1>0, <2>0, <4>1 DEF Inside
    <3>3. Restored(p[i], Pre(i))
      BY <2>1, <3>2
    <3>4. c[k] \in EnvChars
      BY <2>0
    <3>5. Restored(<<c[k]>>, <<c[k]>>) /\ <<c[k]>> \in Seq(Tokens)
      <4>1. c[k] \in Tokens
        BY <3>4 DEF Tokens
      <4> QED
        BY <3>4, <4>1, RestoredChar
    <3>6. Restored(p[i] \o <<c[k]>>, Pre(i) \o <<c[k]>>)
      BY <2>3, <3>3, <3>5, RestoredConcat
    <3>7. Pre(k) = Pre(i) \o <<c[k]>>
      <4>1. SubSeq(c, 1, k) = SubSeq(c, 1, k - 1) \o <<c[k]>>
        <5>1. 1 \in 1..n /\ k \in 1..n
          BY <1>0, <2>0
        <5> QED
          BY <5>1, SubSeqRecursiveSecond
      <4> QED
        BY <2>0, <4>1
    <3>8. A(k) /\ B(k)
      BY <2>2, <3>1, <3>2, <3>6, <3>7
    <3> QED
      BY <2>0, <3>8 DEF k
  <2> QED
    BY <2>4, <2>5, <2>6
<1> HIDE DEF T
<1>10. 0..n \subseteq T
  BY <1>0, <1>8, <1>9, BoundedInduction
<1>11. A(n)
  BY <1>0, <1>10 DEF T
<1>12. \A m \in M : ~Inside(m, n)
  BY <1>0, <1>6 DEF Inside
<1>13. Pre(n) = c
  BY SubSeqFull
<1> QED
  BY <1>3, <1>11, <1>12, <1>13 DEF substituteEnv, q

(* A text that no reference spans the cut of: the references of the two.   *)
Cut(c, n) == \A i, j \in 1..Len(c) : i <= n /\ n < j => ~IsCandidate(c, i, j)

LEMMA CandidatesSplit ==
  ASSUME NEW a \in Seq(EnvChars), NEW b \in Seq(EnvChars), NEW i \in Nat \ {0}, NEW j \in Nat \ {0}
  PROVE  /\ IsCandidate(a, i, j) <=> IsCandidate(a \o b, i, j) /\ j <= Len(a)
         /\ IsCandidate(b, i, j) <=> IsCandidate(a \o b, i + Len(a), j + Len(a))
<1> DEFINE m == Len(a)
           n == Len(b)
           c == a \o b
<1>0. m \in Nat /\ n \in Nat
  OBVIOUS
<1>1. /\ Len(c) = m + n
      /\ \A k \in 1..(m + n) : c[k] = IF k <= m THEN a[k] ELSE b[k - m]
  BY ConcatProperties
<1> HIDE DEF c, m, n
<1>2. \A k \in 1..m : c[k] = a[k]
  BY <1>0, <1>1
<1>3. \A k \in 1..n : c[k + m] = b[k]
  <2> SUFFICES ASSUME NEW k \in 1..n PROVE c[k + m] = b[k]
    OBVIOUS
  <2>1. k + m \in 1..(m + n) /\ ~(k + m <= m) /\ (k + m) - m = k
    BY <1>0
  <2> QED
    BY <1>1, <2>1
<1>4. IsCandidate(a, i, j) <=> IsCandidate(c, i, j) /\ j <= m
  <2>1. ASSUME i \in 1..m, j \in 1..m, j > i + 2
        PROVE  /\ i \in 1..Len(c) /\ j \in 1..Len(c) /\ i + 1 \in 1..m
               /\ \A k \in (i + 2)..(j - 1) : k \in 1..m
    BY <1>0, <1>1, <2>1
  <2>2. ASSUME IsCandidate(a, i, j) PROVE IsCandidate(c, i, j) /\ j <= m
    <3>1. i \in 1..m /\ j \in 1..m /\ j > i + 2
      BY <2>2 DEF IsCandidate, m
    <3>2. c[i] = a[i] /\ c[i + 1] = a[i + 1] /\ c[j] = a[j] /\ \A k \in (i + 2)..(j - 1) : c[k] = a[k]
      BY <1>2, <2>1, <3>1
    <3>3. j <= m
      BY <1>0, <3>1
    <3> QED
      BY <2>1, <2>2, <3>1, <3>2, <3>3 DEF IsCandidate
  <2>3. ASSUME IsCandidate(c, i, j), j <= m PROVE IsCandidate(a, i, j)
    <3>1. j > i + 2
      BY <2>3 DEF IsCandidate
    <3>2. i \in 1..m /\ j \in 1..m
      BY <1>0, <2>3, <3>1
    <3>3. c[i] = a[i] /\ c[i + 1] = a[i + 1] /\ c[j] = a[j] /\ \A k \in (i + 2)..(j - 1) : c[k] = a[k]
      BY <1>2, <2>1, <3>1, <3>2
    <3> QED
      BY <2>3, <3>1, <3>2, <3>3 DEF IsCandidate, m
  <2> QED
    BY <2>2, <2>3
<1>5. IsCandidate(b, i, j) <=> IsCandidate(c, i + m, j + m)
  <2>1. ASSUME i \in 1..n, j \in 1..n, j > i + 2
        PROVE  /\ i + m \in 1..Len(c) /\ j + m \in 1..Len(c) /\ i + 1 \in 1..n /\ j + m > (i + m) + 2
               /\ c[i + m] = b[i] /\ c[(i + m) + 1] = b[i + 1] /\ c[j + m] = b[j]
    <3>1. i + m \in 1..Len(c) /\ j + m \in 1..Len(c) /\ i + 1 \in 1..n /\ (i + m) + 1 = (i + 1) + m /\ j + m > (i + m) + 2
      BY <1>0, <1>1, <2>1, SMTT(60)
    <3> QED
      BY <1>3, <2>1, <3>1, SMTT(60)
  <2>2. ASSUME IsCandidate(b, i, j) PROVE IsCandidate(c, i + m, j + m)
    <3>1. i \in 1..n /\ j \in 1..n /\ j > i + 2
      BY <2>2 DEF IsCandidate, n
    <3>2. ASSUME NEW k \in ((i + m) + 2)..((j + m) - 1) PROVE c[k] # RightBrace
      <4>1. k - m \in (i + 2)..(j - 1) /\ k - m \in 1..n /\ (k - m) + m = k
        BY <1>0, <3>1
      <4>2. c[k] = b[k - m]
        BY <1>3, <4>1
      <4> QED
        BY <2>2, <4>1, <4>2 DEF IsCandidate
    <3> QED
      BY <2>1, <2>2, <3>1, <3>2 DEF IsCandidate
  <2>3. ASSUME IsCandidate(c, i + m, j + m) PROVE IsCandidate(b, i, j)
    <3>1. i + m \in 1..Len(c) /\ j + m \in 1..Len(c) /\ j + m > (i + m) + 2
      BY <2>3 DEF IsCandidate
    <3>2. i \in 1..n /\ j \in 1..n /\ j > i + 2
      BY <1>0, <1>1, <3>1
    <3>3. ASSUME NEW k \in (i + 2)..(j - 1) PROVE b[k] # RightBrace
      <4>1. k + m \in ((i + m) + 2)..((j + m) - 1) /\ k \in 1..n
        BY <1>0, <3>2
      <4>2. c[k + m] = b[k]
        BY <1>3, <4>1
      <4> QED
        BY <2>3, <4>1, <4>2 DEF IsCandidate
    <3> QED
      BY <2>1, <2>3, <3>2, <3>3 DEF IsCandidate, n
  <2> QED
    BY <2>2, <2>3
<1> QED
  BY <1>4, <1>5 DEF c, m

IsMatch(c, i, j) == IsCandidate(c, i, j) /\ \A k \in 1..Len(c) : IsCandidate(c, k, j) => i <= k

LEMMA MatchIs ==
  ASSUME NEW c \in Seq(EnvChars), NEW m
  PROVE  m \in Matches(c) <=> m \in (1..Len(c)) \X (1..Len(c)) /\ IsMatch(c, m[1], m[2])
<1>1. ASSUME m \in Matches(c) PROVE m \in (1..Len(c)) \X (1..Len(c)) /\ IsMatch(c, m[1], m[2])
  <2>1. m \in Candidates(c) /\ \A o \in Candidates(c) : o[2] = m[2] => m[1] <= o[1]
    BY <1>1 DEF Matches
  <2>2. m \in (1..Len(c)) \X (1..Len(c)) /\ IsCandidate(c, m[1], m[2])
    BY <2>1, CandidateIs
  <2>3. ASSUME NEW k \in 1..Len(c), IsCandidate(c, k, m[2]) PROVE m[1] <= k
    <3> DEFINE o == <<k, m[2]>>
    <3>1. o[1] = k /\ o[2] = m[2] /\ o \in (1..Len(c)) \X (1..Len(c))
      BY <2>2
    <3>2. o \in Candidates(c)
      <4> HIDE DEF o
      <4> QED
        BY <2>3, <3>1, CandidateIs
    <3> QED
      BY <2>1, <3>1, <3>2
  <2> QED
    BY <2>2, <2>3 DEF IsMatch
<1>2. ASSUME m \in (1..Len(c)) \X (1..Len(c)), IsMatch(c, m[1], m[2]) PROVE m \in Matches(c)
  <2>1. m \in Candidates(c)
    BY <1>2, CandidateIs DEF IsMatch
  <2>2. ASSUME NEW o \in Candidates(c), o[2] = m[2] PROVE m[1] <= o[1]
    <3>1. o \in (1..Len(c)) \X (1..Len(c)) /\ IsCandidate(c, o[1], o[2])
      BY CandidateIs
    <3>2. o[1] \in 1..Len(c)
      BY <3>1
    <3> QED
      BY <1>2, <2>2, <3>1, <3>2 DEF IsMatch
  <2> QED
    BY <2>1, <2>2 DEF Matches
<1> QED
  BY <1>1, <1>2

LEMMA MatchesSplit ==
  ASSUME NEW a \in Seq(EnvChars), NEW b \in Seq(EnvChars), Cut(a \o b, Len(a)),
         NEW i \in Nat \ {0}, NEW j \in Nat \ {0}
  PROVE  /\ IsMatch(a, i, j) <=> IsMatch(a \o b, i, j) /\ j <= Len(a)
         /\ IsMatch(b, i, j) <=> IsMatch(a \o b, i + Len(a), j + Len(a))
         /\ IsMatch(a \o b, i, j) => j <= Len(a) \/ i > Len(a)
<1> DEFINE m == Len(a)
           n == Len(b)
           c == a \o b
<1>0. m \in Nat /\ n \in Nat /\ Len(c) = m + n
  BY ConcatProperties
<1>a. Cut(c, m)
  OBVIOUS
<1>1. ASSUME NEW k \in Nat \ {0}, NEW l \in Nat \ {0}
      PROVE  /\ IsCandidate(a, k, l) <=> IsCandidate(c, k, l) /\ l <= m
             /\ IsCandidate(b, k, l) <=> IsCandidate(c, k + m, l + m)
  BY CandidatesSplit
<1>b. m = Len(a) /\ n = Len(b)
  OBVIOUS
<1> HIDE DEF c, m, n
<1>2. ASSUME NEW k \in Nat \ {0}, NEW l \in Nat \ {0}, IsCandidate(c, k, l) PROVE k \in 1..(m + n) /\ l \in 1..(m + n) /\ k < l /\ (l <= m \/ k > m)
  <2>1. k \in 1..(m + n) /\ l \in 1..(m + n) /\ l > k + 2
    BY <1>0, <1>2 DEF IsCandidate
  <2>2. ~(k <= m /\ m < l)
    BY <1>0, <1>2, <1>a, <2>1 DEF Cut
  <2> QED
    BY <1>0, <2>1, <2>2
<1>3. IsMatch(a, i, j) <=> IsMatch(c, i, j) /\ j <= m
  <2>1. ASSUME IsMatch(a, i, j) PROVE IsMatch(c, i, j) /\ j <= m
    <3>1. IsCandidate(c, i, j) /\ j <= m
      BY <1>1, <2>1 DEF IsMatch
    <3>2. ASSUME NEW k \in 1..Len(c), IsCandidate(c, k, j) PROVE i <= k
      <4>1. k \in Nat \ {0}
        BY <1>0
      <4>2. IsCandidate(a, k, j)
        BY <1>1, <3>1, <3>2, <4>1
      <4>3. k \in 1..Len(a)
        BY <4>2 DEF IsCandidate
      <4> QED
        BY <2>1, <4>2, <4>3 DEF IsMatch
    <3> QED
      BY <3>1, <3>2 DEF IsMatch
  <2>2. ASSUME IsMatch(c, i, j), j <= m PROVE IsMatch(a, i, j)
    <3>1. IsCandidate(a, i, j)
      BY <1>1, <2>2 DEF IsMatch
    <3>2. ASSUME NEW k \in 1..Len(a), IsCandidate(a, k, j) PROVE i <= k
      <4>1. k \in Nat \ {0} /\ k \in 1..Len(c)
        BY <1>0, <1>b
      <4>2. IsCandidate(c, k, j)
        BY <1>1, <3>2, <4>1
      <4> QED
        BY <2>2, <4>1, <4>2 DEF IsMatch
    <3> QED
      BY <3>1, <3>2 DEF IsMatch
  <2> QED
    BY <2>1, <2>2
<1>4. IsMatch(b, i, j) <=> IsMatch(c, i + m, j + m)
  <2>0. i + m \in Nat \ {0} /\ j + m \in Nat \ {0}
    BY <1>0
  <2>1. ASSUME IsMatch(b, i, j) PROVE IsMatch(c, i + m, j + m)
    <3>1. IsCandidate(c, i + m, j + m)
      BY <1>1, <2>1 DEF IsMatch
    <3>2. ASSUME NEW k \in 1..Len(c), IsCandidate(c, k, j + m) PROVE i + m <= k
      <4>1. k \in Nat \ {0}
        BY <1>0
      <4>2. k > m
        <5>1. j + m <= m \/ k > m
          BY <1>2, <2>0, <3>2, <4>1
        <5> QED
          BY <1>0, <5>1
      <4>3. k - m \in Nat \ {0} /\ (k - m) + m = k
        BY <1>0, <4>1, <4>2
      <4>4. IsCandidate(b, k - m, j)
        BY <1>1, <3>2, <4>3
      <4>5. k - m \in 1..Len(b)
        BY <4>4 DEF IsCandidate
      <4>6. i <= k - m
        BY <2>1, <4>4, <4>5 DEF IsMatch
      <4> QED
        BY <1>0, <4>1, <4>6
    <3> QED
      BY <3>1, <3>2 DEF IsMatch
  <2>2. ASSUME IsMatch(c, i + m, j + m) PROVE IsMatch(b, i, j)
    <3>1. IsCandidate(b, i, j)
      BY <1>1, <2>2 DEF IsMatch
    <3>2. ASSUME NEW k \in 1..Len(b), IsCandidate(b, k, j) PROVE i <= k
      <4>1. k \in Nat \ {0} /\ k + m \in 1..Len(c)
        BY <1>0, <1>b
      <4>2. IsCandidate(c, k + m, j + m)
        BY <1>1, <3>2, <4>1
      <4>3. i + m <= k + m
        BY <2>2, <4>1, <4>2 DEF IsMatch
      <4> QED
        BY <1>0, <4>1, <4>3
    <3> QED
      BY <3>1, <3>2 DEF IsMatch
  <2> QED
    BY <2>1, <2>2
<1>5. IsMatch(c, i, j) => j <= m \/ i > m
  BY <1>2 DEF IsMatch
<1> QED
  BY <1>3, <1>4, <1>5 DEF c, m

LEMMA PieceIs ==
  ASSUME NEW c \in Seq(EnvChars), NEW k \in 1..Len(c)
  PROVE  /\ (\E j \in 1..Len(c) : IsMatch(c, k, j)) => Piecewise(c)[k] = <<Value>>
         /\ (\A j \in 1..Len(c) : ~IsMatch(c, k, j)) /\ (\E i, j \in 1..Len(c) : IsMatch(c, i, j) /\ i < k /\ k <= j)
              => Piecewise(c)[k] = <<>>
         /\ (\A j \in 1..Len(c) : ~IsMatch(c, k, j)) /\ ~(\E i, j \in 1..Len(c) : IsMatch(c, i, j) /\ i < k /\ k <= j)
              => Piecewise(c)[k] = <<c[k]>>
<1> DEFINE n == Len(c)
<1>1. Piecewise(c)[k] = IF \E m \in Matches(c) : m[1] = k THEN <<Value>>
                        ELSE IF \E m \in Matches(c) : m[1] < k /\ k <= m[2] THEN <<>> ELSE <<c[k]>>
  <2>1. DOMAIN c = 1..Len(c)
    OBVIOUS
  <2> QED
    BY <2>1 DEF Piecewise
<1>2. (\E m \in Matches(c) : m[1] = k) <=> (\E j \in 1..n : IsMatch(c, k, j))
  <2>1. ASSUME NEW m \in Matches(c), m[1] = k PROVE \E j \in 1..n : IsMatch(c, k, j)
    <3>1. m \in (1..Len(c)) \X (1..Len(c)) /\ IsMatch(c, m[1], m[2])
      BY MatchIs
    <3>2. m[2] \in 1..n
      BY <3>1
    <3> QED
      BY <2>1, <3>1, <3>2
  <2>2. ASSUME NEW j \in 1..n, IsMatch(c, k, j) PROVE \E m \in Matches(c) : m[1] = k
    <3> DEFINE m == <<k, j>>
    <3>1. m[1] = k /\ m[2] = j /\ m \in (1..Len(c)) \X (1..Len(c))
      OBVIOUS
    <3> HIDE DEF m
    <3>2. m \in Matches(c)
      BY <2>2, <3>1, MatchIs
    <3> QED
      BY <3>1, <3>2
  <2> QED
    BY <2>1, <2>2
<1>3. (\E m \in Matches(c) : m[1] < k /\ k <= m[2]) <=> (\E i, j \in 1..n : IsMatch(c, i, j) /\ i < k /\ k <= j)
  <2>1. ASSUME NEW m \in Matches(c), m[1] < k, k <= m[2] PROVE \E i, j \in 1..n : IsMatch(c, i, j) /\ i < k /\ k <= j
    <3>1. m \in (1..Len(c)) \X (1..Len(c)) /\ IsMatch(c, m[1], m[2])
      BY MatchIs
    <3>2. m[1] \in 1..n /\ m[2] \in 1..n
      BY <3>1
    <3> QED
      BY <2>1, <3>1, <3>2
  <2>2. ASSUME NEW i \in 1..n, NEW j \in 1..n, IsMatch(c, i, j), i < k, k <= j PROVE \E m \in Matches(c) : m[1] < k /\ k <= m[2]
    <3> DEFINE m == <<i, j>>
    <3>1. m[1] = i /\ m[2] = j /\ m \in (1..Len(c)) \X (1..Len(c))
      OBVIOUS
    <3> HIDE DEF m
    <3>2. m \in Matches(c)
      BY <2>2, <3>1, MatchIs
    <3> QED
      BY <2>2, <3>1, <3>2
  <2> QED
    BY <2>1, <2>2
<1> QED
  BY <1>1, <1>2, <1>3

(* The substitution of two texts, one after the other.                     *)
LEMMA SubstituteConcat ==
  ASSUME NEW a \in Seq(EnvChars), NEW b \in Seq(EnvChars), Cut(a \o b, Len(a))
  PROVE  substituteEnv(a \o b) = substituteEnv(a) \o substituteEnv(b)
<1> DEFINE m == Len(a)
           n == Len(b)
           c == a \o b
           p == Piecewise(a)
           q == Piecewise(b)
           r == Piecewise(c)
<1>0. /\ m \in Nat /\ n \in Nat /\ Len(c) = m + n /\ c \in Seq(EnvChars)
      /\ \A k \in 1..(m + n) : c[k] = IF k <= m THEN a[k] ELSE b[k - m]
  BY ConcatProperties
<1>1. /\ p \in Seq(Seq(Tokens)) /\ Len(p) = m /\ q \in Seq(Seq(Tokens)) /\ Len(q) = n
      /\ r \in Seq(Seq(Tokens)) /\ Len(r) = m + n
  BY <1>0, PiecewiseType
<1>2. ASSUME NEW i \in Nat \ {0}, NEW j \in Nat \ {0}
      PROVE  /\ IsMatch(a, i, j) <=> IsMatch(c, i, j) /\ j <= m
             /\ IsMatch(b, i, j) <=> IsMatch(c, i + m, j + m)
             /\ IsMatch(c, i, j) => j <= m \/ i > m
  BY MatchesSplit
<1>b. m = Len(a) /\ n = Len(b)
  OBVIOUS
<1> HIDE DEF c, m, n
<1>3. ASSUME NEW i, NEW j, NEW s, IsMatch(s, i, j) PROVE i \in 1..Len(s) /\ j \in 1..Len(s) /\ j > i + 2
  BY <1>3 DEF IsMatch, IsCandidate
<1>4. ASSUME NEW k \in 1..m PROVE r[k] = p[k]
  <2>0. k \in 1..Len(a) /\ k \in 1..Len(c) /\ c[k] = a[k] /\ k <= m
    BY <1>0, <1>b
  <2>1. (\E j \in 1..Len(a) : IsMatch(a, k, j)) <=> (\E j \in 1..Len(c) : IsMatch(c, k, j))
    <3>1. ASSUME NEW j \in 1..Len(a), IsMatch(a, k, j) PROVE j \in 1..Len(c) /\ IsMatch(c, k, j)
      <4>1. j \in 1..Len(c) /\ j \in Nat \ {0} /\ k \in Nat \ {0}
        BY <1>0, <1>b
      <4> QED
        BY <1>2, <3>1, <4>1
    <3>2. ASSUME NEW j \in 1..Len(c), IsMatch(c, k, j) PROVE j \in 1..Len(a) /\ IsMatch(a, k, j)
      <4>0. j \in Nat \ {0} /\ k \in Nat \ {0} /\ ~(k > m)
        BY <1>0
      <4>1. j <= m
        BY <1>2, <3>2, <4>0
      <4>2. j \in 1..Len(a)
        BY <1>0, <1>b, <4>1
      <4> QED
        BY <1>2, <3>2, <4>0, <4>1, <4>2
    <3> QED
      BY <3>1, <3>2
  <2>2. (\E i, j \in 1..Len(a) : IsMatch(a, i, j) /\ i < k /\ k <= j) <=> (\E i, j \in 1..Len(c) : IsMatch(c, i, j) /\ i < k /\ k <= j)
    <3>1. ASSUME NEW i \in 1..Len(a), NEW j \in 1..Len(a), IsMatch(a, i, j) PROVE i \in 1..Len(c) /\ j \in 1..Len(c) /\ IsMatch(c, i, j)
      <4>1. i \in 1..Len(c) /\ j \in 1..Len(c) /\ j \in Nat \ {0} /\ i \in Nat \ {0}
        BY <1>0, <1>b
      <4> QED
        BY <1>2, <3>1, <4>1
    <3>2. ASSUME NEW i \in 1..Len(c), NEW j \in 1..Len(c), IsMatch(c, i, j), i < k PROVE i \in 1..Len(a) /\ j \in 1..Len(a) /\ IsMatch(a, i, j)
      <4>0. j \in Nat \ {0} /\ i \in Nat \ {0} /\ ~(i > m)
        BY <1>0, <3>2
      <4>1. j <= m
        BY <1>2, <3>2, <4>0
      <4>2. i \in 1..Len(a) /\ j \in 1..Len(a)
        BY <1>0, <1>b, <4>0, <4>1
      <4> QED
        BY <1>2, <3>2, <4>0, <4>1, <4>2
    <3> QED
      BY <3>1, <3>2
  <2> QED
    BY <1>0, <2>0, <2>1, <2>2, PieceIs
<1>5. ASSUME NEW k \in 1..n PROVE r[k + m] = q[k]
  <2>0. k \in 1..Len(b) /\ k + m \in 1..Len(c) /\ c[k + m] = b[k] /\ k + m > m
    <3>1. k + m \in 1..(m + n) /\ ~(k + m <= m) /\ (k + m) - m = k
      BY <1>0
    <3> QED
      BY <1>0, <1>b, <3>1, SMTT(60)
  <2>1. (\E j \in 1..Len(b) : IsMatch(b, k, j)) <=> (\E j \in 1..Len(c) : IsMatch(c, k + m, j))
    <3>1. ASSUME NEW j \in 1..Len(b), IsMatch(b, k, j) PROVE j + m \in 1..Len(c) /\ IsMatch(c, k + m, j + m)
      <4>1. j + m \in 1..Len(c) /\ j \in Nat \ {0} /\ k \in Nat \ {0}
        BY <1>0, <1>b
      <4> QED
        BY <1>2, <3>1, <4>1
    <3>2. ASSUME NEW j \in 1..Len(c), IsMatch(c, k + m, j) PROVE j - m \in 1..Len(b) /\ IsMatch(b, k, j - m)
      <4>1. j > (k + m) + 2
        BY <1>3, <3>2
      <4>2. j - m \in 1..n /\ j - m \in Nat \ {0} /\ (j - m) + m = j /\ k \in Nat \ {0}
        BY <1>0, <4>1
      <4>3. IsMatch(b, k, j - m)
        BY <1>2, <3>2, <4>2
      <4> QED
        BY <1>b, <4>2, <4>3
    <3> QED
      BY <3>1, <3>2
  <2>2. (\E i, j \in 1..Len(b) : IsMatch(b, i, j) /\ i < k /\ k <= j) <=> (\E i, j \in 1..Len(c) : IsMatch(c, i, j) /\ i < k + m /\ k + m <= j)
    <3>1. ASSUME NEW i \in 1..Len(b), NEW j \in 1..Len(b), IsMatch(b, i, j), i < k, k <= j
          PROVE  i + m \in 1..Len(c) /\ j + m \in 1..Len(c) /\ IsMatch(c, i + m, j + m) /\ i + m < k + m /\ k + m <= j + m
      <4>1. i + m \in 1..Len(c) /\ j + m \in 1..Len(c) /\ j \in Nat \ {0} /\ i \in Nat \ {0} /\ i + m < k + m /\ k + m <= j + m
        BY <1>0, <1>b, <3>1
      <4> QED
        BY <1>2, <3>1, <4>1
    <3>2. ASSUME NEW i \in 1..Len(c), NEW j \in 1..Len(c), IsMatch(c, i, j), i < k + m, k + m <= j
          PROVE  i - m \in 1..Len(b) /\ j - m \in 1..Len(b) /\ IsMatch(b, i - m, j - m) /\ i - m < k /\ k <= j - m
      <4>0. i \in Nat \ {0} /\ j \in Nat \ {0}
        BY <1>0
      <4>1. j <= m \/ i > m
        BY <1>2, <3>2, <4>0
      <4>2. i > m
        BY <1>0, <2>0, <3>2, <4>0, <4>1
      <4>3. i - m \in 1..n /\ j - m \in 1..n /\ i - m \in Nat \ {0} /\ j - m \in Nat \ {0} /\ (i - m) + m = i /\ (j - m) + m = j
            /\ i - m < k /\ k <= j - m
        BY <1>0, <3>2, <4>0, <4>2
      <4>4. IsMatch(b, i - m, j - m)
        BY <1>2, <3>2, <4>3
      <4> QED
        BY <1>b, <4>3, <4>4
    <3> QED
      BY <3>1, <3>2
  <2> QED
    BY <1>0, <2>0, <2>1, <2>2, PieceIs
<1> HIDE DEF p, q, r
<1>6. /\ p \o q \in Seq(Seq(Tokens)) /\ Len(p \o q) = m + n
      /\ \A k \in 1..(m + n) : (p \o q)[k] = IF k <= m THEN p[k] ELSE q[k - m]
  <2>1. /\ p \o q \in Seq(Seq(Tokens)) /\ Len(p \o q) = Len(p) + Len(q)
        /\ \A k \in 1..(Len(p) + Len(q)) : (p \o q)[k] = IF k <= Len(p) THEN p[k] ELSE q[k - Len(p)]
    <3>1. p \in Seq(Seq(Tokens)) /\ q \in Seq(Seq(Tokens))
      BY <1>1
    <3> QED
      BY ONLY <3>1, ConcatProperties
  <2> QED
    BY <1>1, <2>1
<1>7. ASSUME NEW k \in 1..(m + n) PROVE r[k] = (p \o q)[k]
  <2>1. CASE k <= m
    <3>1. k \in 1..m
      BY <1>0, <2>1
    <3> QED
      BY <1>4, <1>6, <2>1, <3>1
  <2>2. CASE ~(k <= m)
    <3>1. k - m \in 1..n /\ (k - m) + m = k
      BY <1>0, <2>2
    <3>2. r[(k - m) + m] = q[k - m]
      BY <1>5, <3>1
    <3> QED
      BY <1>6, <2>2, <3>1, <3>2
  <2> QED
    BY <2>1, <2>2
<1>8. r = p \o q
  BY <1>1, <1>6, <1>7, SeqEqual
<1>9. FlattenSeq(p \o q) = FlattenSeq(p) \o FlattenSeq(q)
  BY <1>1, FlattenConcat
<1> QED
  BY <1>8, <1>9 DEF substituteEnv, p, q, r, c

(* The names of the two are the names of both.                             *)
LEMMA AllSetConcat ==
  ASSUME NEW a \in Seq(EnvChars), NEW b \in Seq(EnvChars), Cut(a \o b, Len(a))
  PROVE  AllSet(a \o b) <=> AllSet(a) /\ AllSet(b)
<1> DEFINE m == Len(a)
           n == Len(b)
           c == a \o b
           Set(s) == \A i, j \in 1..Len(s) : IsMatch(s, i, j) => SubSeq(s, i + 2, j - 1) \in EnvSet
<1>0. /\ m \in Nat /\ n \in Nat /\ Len(c) = m + n /\ c \in Seq(EnvChars)
      /\ \A k \in 1..(m + n) : c[k] = IF k <= m THEN a[k] ELSE b[k - m]
  BY ConcatProperties
<1>1. ASSUME NEW s \in Seq(EnvChars) PROVE AllSet(s) <=> Set(s)
  <2>1. ASSUME AllSet(s), NEW i \in 1..Len(s), NEW j \in 1..Len(s), IsMatch(s, i, j) PROVE SubSeq(s, i + 2, j - 1) \in EnvSet
    <3> DEFINE o == <<i, j>>
    <3>1. o[1] = i /\ o[2] = j /\ o \in (1..Len(s)) \X (1..Len(s))
      OBVIOUS
    <3> HIDE DEF o
    <3>2. o \in Matches(s)
      BY <2>1, <3>1, MatchIs
    <3> QED
      BY <2>1, <3>1, <3>2 DEF AllSet, Name
  <2>2. ASSUME Set(s), NEW o \in Matches(s) PROVE Name(s, o) \in EnvSet
    <3>1. o \in (1..Len(s)) \X (1..Len(s)) /\ IsMatch(s, o[1], o[2])
      BY MatchIs
    <3>2. o[1] \in 1..Len(s) /\ o[2] \in 1..Len(s)
      BY <3>1
    <3> QED
      BY <2>2, <3>1, <3>2 DEF Name
  <2> QED
    BY <2>1, <2>2 DEF AllSet
<1>2. ASSUME NEW i \in Nat \ {0}, NEW j \in Nat \ {0}
      PROVE  /\ IsMatch(a, i, j) <=> IsMatch(c, i, j) /\ j <= m
             /\ IsMatch(b, i, j) <=> IsMatch(c, i + m, j + m)
             /\ IsMatch(c, i, j) => j <= m \/ i > m
  BY MatchesSplit
<1>3. ASSUME NEW i \in 1..m, NEW j \in 1..m, j > i + 2 PROVE SubSeq(c, i + 2, j - 1) = SubSeq(a, i + 2, j - 1)
  <2>1. i + 2 \in 1..m /\ j - 1 \in 0..m
    BY <1>0, <1>3
  <2> QED
    BY <1>0, <1>3, <2>1
<1>4. ASSUME NEW i \in 1..n, NEW j \in 1..n, j > i + 2 PROVE SubSeq(c, (i + m) + 2, (j + m) - 1) = SubSeq(b, i + 2, j - 1)
  BY <1>0, <1>4
<1>b. m = Len(a) /\ n = Len(b)
  OBVIOUS
<1>5. ASSUME NEW i, NEW j, NEW s, IsMatch(s, i, j) PROVE i \in 1..Len(s) /\ j \in 1..Len(s) /\ j > i + 2
  BY <1>5 DEF IsMatch, IsCandidate
<1> HIDE DEF c, m, n
<1>6. ASSUME Set(c) PROVE Set(a) /\ Set(b)
  <2>1. ASSUME NEW i \in 1..Len(a), NEW j \in 1..Len(a), IsMatch(a, i, j) PROVE SubSeq(a, i + 2, j - 1) \in EnvSet
    <3>1. i \in 1..m /\ j \in 1..m /\ j > i + 2 /\ i \in 1..Len(c) /\ j \in 1..Len(c) /\ i \in Nat \ {0} /\ j \in Nat \ {0}
      BY <1>0, <1>5, <1>b, <2>1
    <3>2. SubSeq(c, i + 2, j - 1) \in EnvSet
      BY <1>2, <1>6, <2>1, <3>1
    <3> QED
      BY <1>3, <3>1, <3>2
  <2>2. ASSUME NEW i \in 1..Len(b), NEW j \in 1..Len(b), IsMatch(b, i, j) PROVE SubSeq(b, i + 2, j - 1) \in EnvSet
    <3>1. i \in 1..n /\ j \in 1..n /\ j > i + 2 /\ i + m \in 1..Len(c) /\ j + m \in 1..Len(c) /\ i \in Nat \ {0} /\ j \in Nat \ {0}
      BY <1>0, <1>5, <1>b, <2>2
    <3>2. SubSeq(c, (i + m) + 2, (j + m) - 1) \in EnvSet
      BY <1>2, <1>6, <2>2, <3>1
    <3> QED
      BY <1>4, <3>1, <3>2
  <2> QED
    BY <2>1, <2>2
<1>7. ASSUME Set(a), Set(b) PROVE Set(c)
  <2> SUFFICES ASSUME NEW i \in 1..Len(c), NEW j \in 1..Len(c), IsMatch(c, i, j) PROVE SubSeq(c, i + 2, j - 1) \in EnvSet
    OBVIOUS
  <2>0. i \in Nat \ {0} /\ j \in Nat \ {0} /\ j > i + 2
    BY <1>0, <1>5
  <2>1. CASE j <= m
    <3>1. IsMatch(a, i, j) /\ i \in 1..m /\ j \in 1..m
      BY <1>0, <1>2, <2>0, <2>1
    <3>2. SubSeq(a, i + 2, j - 1) \in EnvSet
      BY <1>7, <1>b, <3>1
    <3> QED
      BY <1>3, <2>0, <3>1, <3>2
  <2>2. CASE i > m
    <3> DEFINE x == i - m
               y == j - m
    <3>1. x \in 1..n /\ y \in 1..n /\ y > x + 2 /\ x + m = i /\ y + m = j /\ x \in Nat \ {0} /\ y \in Nat \ {0}
      BY <1>0, <2>0, <2>2
    <3> HIDE DEF x, y
    <3>2. IsMatch(b, x, y)
      BY <1>2, <3>1
    <3>3. SubSeq(b, x + 2, y - 1) \in EnvSet
      BY <1>7, <1>b, <3>1, <3>2
    <3> QED
      BY <1>4, <3>1, <3>3
  <2> QED
    BY <1>2, <2>0, <2>1, <2>2
<1> QED
  BY <1>0, <1>1, <1>6, <1>7 DEF c

LEMMA UptoSplits ==
  ASSUME NEW X, NEW s \in Seq(X), NEW n \in Nat
  PROVE  /\ Upto(s, n) \in Seq(X) /\ SubSeq(s, n + 1, Len(s)) \in Seq(X)
         /\ Upto(s, n) \o SubSeq(s, n + 1, Len(s)) = s
<1>0. Len(s) \in Nat
  OBVIOUS
<1>1. CASE n < Len(s)
  <2>1. Upto(s, n) = SubSeq(s, 1, n)
    BY <1>1 DEF Upto
  <2>2. SubSeq(s, 1, n) \o SubSeq(s, n + 1, Len(s)) = SubSeq(s, 1, Len(s))
    <3>1. 1 \in 1..(Len(s) + 1) /\ n \in (1 - 1)..Len(s) /\ Len(s) \in n..Len(s)
      BY <1>0, <1>1
    <3> QED
      BY <3>1, ConcatAdjacentSubSeq
  <2>3. SubSeq(s, 1, Len(s)) = s
    BY SubSeqFull
  <2>4. SubSeq(s, 1, n) \in Seq(X)
    <3>1. \A i \in 1..n : s[i] \in X
      BY <1>0, <1>1
    <3> QED
      BY <3>1, SubSeqProperties
  <2>5. SubSeq(s, n + 1, Len(s)) \in Seq(X)
    <3>1. \A i \in (n + 1)..Len(s) : s[i] \in X
      BY <1>0, <1>1
    <3> QED
      BY <1>0, <3>1, SubSeqProperties
  <2> QED
    BY <2>1, <2>2, <2>3, <2>4, <2>5
<1>2. CASE ~(n < Len(s))
  <2>1. Upto(s, n) = SubSeq(s, 1, Len(s))
    BY <1>2 DEF Upto
  <2>2. SubSeq(s, 1, Len(s)) = s
    BY SubSeqFull
  <2>3. SubSeq(s, n + 1, Len(s)) = <<>>
    <3>1. n + 1 \in Int /\ Len(s) \in Int /\ Len(s) < n + 1
      BY <1>0, <1>2
    <3> QED
      BY <3>1, SubSeqEmpty
  <2>4. <<>> \in Seq(X) /\ s \o <<>> = s
    BY ConcatEmptySeq
  <2> QED
    BY <2>1, <2>2, <2>3, <2>4
<1> QED
  BY <1>1, <1>2

(* What is peeked at is the text from the position on.                     *)
LEMMA UptoRest ==
  ASSUME NEW text \in Seq(EnvChars), NEW pos \in 0..Len(text), NEW n \in Nat
  PROVE  LET l == IF n < Len(text) - pos THEN n ELSE Len(text) - pos IN
         /\ l \in Nat /\ pos + l \in 0..Len(text)
         /\ Upto(SubSeq(text, pos + 1, Len(text)), n) = SubSeq(text, pos + 1, pos + l)
         /\ Len(SubSeq(text, pos + 1, pos + l)) = l
<1> DEFINE l == IF n < Len(text) - pos THEN n ELSE Len(text) - pos
           r == SubSeq(text, pos + 1, Len(text))
<1>0. Len(text) \in Nat /\ pos \in Nat /\ pos <= Len(text) /\ pos + 1 \in Nat \ {0} /\ Len(text) \in 0..Len(text)
  OBVIOUS
<1>1. r \in Seq(EnvChars) /\ Len(r) = Len(text) - pos /\ \A k \in 1..(Len(text) - pos) : r[k] = text[pos + k]
  <2>1. /\ r \in Seq(EnvChars) /\ Len(r) = IF pos + 1 <= Len(text) THEN Len(text) - (pos + 1) + 1 ELSE 0
        /\ \A k \in 1..(Len(text) - (pos + 1) + 1) : r[k] = text[(pos + 1) + k - 1]
    BY <1>0, SubSeqType
  <2>2. Len(r) = Len(text) - pos
    BY <1>0, <2>1
  <2>3. ASSUME NEW k \in 1..(Len(text) - pos) PROVE r[k] = text[pos + k]
    <3>1. k \in 1..(Len(text) - (pos + 1) + 1) /\ (pos + 1) + k - 1 = pos + k
      BY <1>0
    <3> QED
      BY <2>1, <3>1
  <2> QED
    BY <2>1, <2>2, <2>3
<1>2. l \in Nat /\ pos + l \in 0..Len(text) /\ l \in 0..Len(r) /\ l <= Len(text) - pos
  BY <1>0, <1>1
<1>3. Upto(r, n) = SubSeq(r, 1, l)
  BY <1>1 DEF Upto
<1> DEFINE a == SubSeq(r, 1, l)
           b == SubSeq(text, pos + 1, pos + l)
<1> HIDE DEF l, r
<1>4. a \in Seq(EnvChars) /\ Len(a) = l /\ \A k \in 1..l : a[k] = r[k]
  <2>1. 1 \in Nat \ {0}
    OBVIOUS
  <2>2. a \in Seq(EnvChars) /\ Len(a) = (IF 1 <= l THEN l - 1 + 1 ELSE 0) /\ \A k \in 1..(l - 1 + 1) : a[k] = r[1 + k - 1]
    BY <1>1, <1>2, <2>1, SubSeqType
  <2>3. Len(a) = l /\ l - 1 + 1 = l /\ \A k \in 1..l : 1 + k - 1 = k
    BY <1>2, <2>2
  <2> QED
    BY <2>2, <2>3
<1>5. b \in Seq(EnvChars) /\ Len(b) = l /\ \A k \in 1..l : b[k] = text[pos + k]
  <2>2. b \in Seq(EnvChars) /\ Len(b) = (IF pos + 1 <= pos + l THEN (pos + l) - (pos + 1) + 1 ELSE 0)
        /\ \A k \in 1..((pos + l) - (pos + 1) + 1) : b[k] = text[(pos + 1) + k - 1]
    BY <1>0, <1>2, SubSeqType
  <2>3. Len(b) = l /\ (pos + l) - (pos + 1) + 1 = l /\ \A k \in 1..l : (pos + 1) + k - 1 = pos + k
    BY <1>0, <1>2, <2>2
  <2> QED
    BY <2>2, <2>3
<1>6. \A k \in 1..l : r[k] = text[pos + k]
  BY <1>0, <1>1, <1>2
<1>7. a = b
  <2> HIDE DEF a, b
  <2>1. \A k \in 1..l : a[k] = b[k]
    BY <1>4, <1>5, <1>6
  <2> QED
    BY <1>4, <1>5, <2>1, SeqEqual
<1> QED
  BY <1>2, <1>3, <1>5, <1>7 DEF l, r

(* The prefix up to the position, and the chunk after it.                  *)
LEMMA ChunkFollows ==
  ASSUME NEW text \in Seq(EnvChars), NEW pos \in 0..Len(text), NEW l \in 0..(Len(text) - pos)
  PROVE  /\ SubSeq(text, 1, pos) \in Seq(EnvChars) /\ Len(SubSeq(text, 1, pos)) = pos
         /\ SubSeq(text, pos + 1, pos + l) \in Seq(EnvChars)
         /\ SubSeq(text, 1, pos) \o SubSeq(text, pos + 1, pos + l) = SubSeq(text, 1, pos + l)
<1>0. Len(text) \in Nat /\ pos \in Nat /\ pos + 1 \in Nat \ {0} /\ pos + l \in 0..Len(text) /\ 1 \in Nat \ {0}
  OBVIOUS
<1>1. SubSeq(text, 1, pos) \in Seq(EnvChars) /\ Len(SubSeq(text, 1, pos)) = pos
  <2>1. SubSeq(text, 1, pos) \in Seq(EnvChars) /\ Len(SubSeq(text, 1, pos)) = IF 1 <= pos THEN pos - 1 + 1 ELSE 0
    BY <1>0, SubSeqType
  <2> QED
    BY <1>0, <2>1
<1>2. SubSeq(text, pos + 1, pos + l) \in Seq(EnvChars)
  BY <1>0, SubSeqType
<1>3. SubSeq(text, 1, pos) \o SubSeq(text, pos + 1, pos + l) = SubSeq(text, 1, pos + l)
  <2>1. 1 \in 1..(Len(text) + 1) /\ pos \in (1 - 1)..Len(text) /\ pos + l \in pos..Len(text)
    BY <1>0
  <2> QED
    BY <2>1, ConcatAdjacentSubSeq
<1> QED
  BY <1>1, <1>2, <1>3

(* A cut of the text is a cut of every prefix of it.                       *)
LEMMA CutPrefix ==
  ASSUME NEW text \in Seq(EnvChars), NEW pos \in 0..Len(text), NEW l \in 0..(Len(text) - pos), Cut(text, pos)
  PROVE  Cut(SubSeq(text, 1, pos) \o SubSeq(text, pos + 1, pos + l), Len(SubSeq(text, 1, pos)))
<1> DEFINE k == pos + l
           a == SubSeq(text, 1, k)
           b == SubSeq(text, k + 1, Len(text))
<1>0. Len(text) \in Nat /\ k \in 0..Len(text) /\ Len(text) - k \in 0..(Len(text) - k) /\ k + (Len(text) - k) = Len(text)
  OBVIOUS
<1>1. a \in Seq(EnvChars) /\ Len(a) = k /\ b \in Seq(EnvChars) /\ a \o b = text
  <2> HIDE DEF k
  <2>1. /\ SubSeq(text, 1, k) \in Seq(EnvChars) /\ Len(SubSeq(text, 1, k)) = k
        /\ SubSeq(text, k + 1, k + (Len(text) - k)) \in Seq(EnvChars)
        /\ SubSeq(text, 1, k) \o SubSeq(text, k + 1, k + (Len(text) - k)) = SubSeq(text, 1, k + (Len(text) - k))
    BY <1>0, ChunkFollows
  <2>2. SubSeq(text, 1, Len(text)) = text
    BY SubSeqFull
  <2> QED
    BY <1>0, <2>1, <2>2
<1>2. SubSeq(text, 1, pos) \o SubSeq(text, pos + 1, pos + l) = a /\ Len(SubSeq(text, 1, pos)) = pos
  BY ChunkFollows
<1> HIDE DEF a, b, k
<1>3. ASSUME NEW i \in 1..Len(a), NEW j \in 1..Len(a), i <= pos, pos < j, IsCandidate(a, i, j) PROVE FALSE
  <2>1. i \in Nat \ {0} /\ j \in Nat \ {0} /\ i \in 1..Len(text) /\ j \in 1..Len(text)
    BY <1>0, <1>1
  <2>2. IsCandidate(text, i, j)
    <3>1. IsCandidate(a \o b, i, j)
      BY <1>1, <1>3, <2>1, CandidatesSplit
    <3> QED
      BY <1>1, <3>1
  <2> QED
    BY <1>3, <2>1, <2>2 DEF Cut
<1> QED
  BY <1>2, <1>3 DEF Cut

(* The start of a reference that the end of a chunk cuts.                  *)
IsOpen(data, i) ==
  /\ i \in DOMAIN data /\ i > Len(data) - MaxVarNameLength /\ data[i] = "$"
  /\ i = Len(data) \/ (data[i + 1] = LeftBrace /\ ~HasClosing(SubSeq(data, i, Len(data))))

LEMMA StartIsOpen ==
  ASSUME NEW data \in Seq(EnvChars), NEW i, IsOpen(data, i)
  PROVE  /\ findIncompletePatternStart(data) \in 1..Len(data)
         /\ findIncompletePatternStart(data) > Len(data) - MaxVarNameLength
<1> DEFINE open == {k \in DOMAIN data : IsOpen(data, k)}
<1>0. Len(data) \in Nat /\ DOMAIN data = 1..Len(data)
  OBVIOUS
<1>1. findIncompletePatternStart(data) = IF open = {} THEN 0 ELSE CHOOSE k \in open : \A j \in open : j <= k
  <2> DEFINE cut == {k \in DOMAIN data :
                       /\ k > Len(data) - MaxVarNameLength /\ data[k] = "$"
                       /\ k = Len(data) \/ (data[k + 1] = LeftBrace /\ ~HasClosing(SubSeq(data, k, Len(data))))}
  <2>1. findIncompletePatternStart(data) = IF cut = {} THEN 0 ELSE CHOOSE k \in cut : \A j \in cut : j <= k
    BY DEF findIncompletePatternStart
  <2>2. cut = open
    BY DEF IsOpen
  <2> HIDE DEF cut, open
  <2> QED
    BY <2>1, <2>2
<1>2. open \in SUBSET (1..Len(data)) /\ open # {}
  BY <1>0 DEF IsOpen
<1>3. \E k \in open : \A j \in open : j <= k
  <2> HIDE DEF open
  <2> QED
    BY <1>0, <1>2, GreatestNatural
<1>4. findIncompletePatternStart(data) \in open
  <2> HIDE DEF open
  <2> QED
    BY <1>1, <1>2, <1>3
<1> QED
  BY <1>0, <1>4 DEF IsOpen

ErShort(text) ==
  /\ Len(text) <= 2 * PeekSize
  /\ \A m \in Candidates(text) : m[2] - m[1] <= MaxVarNameLength

(* A reference of a short name that spans the first chunk is open in it.   *)
LEMMA SpanIsOpen ==
  ASSUME NEW text \in Seq(EnvChars), ErShort(text), NEW l \in 1..Len(text),
         NEW i \in 1..Len(text), NEW j \in 1..Len(text), i <= l, l < j, IsCandidate(text, i, j)
  PROVE  IsOpen(SubSeq(text, 1, l), i)
<1> DEFINE d == SubSeq(text, 1, l)
<1>0. Len(text) \in Nat /\ l \in 0..Len(text) /\ 1 \in Nat \ {0} /\ MaxVarNameLength \in Nat
  BY EnvReaderAssumption
<1>1. d \in Seq(EnvChars) /\ Len(d) = l /\ \A k \in 1..l : d[k] = text[k]
  <2>1. d \in Seq(EnvChars) /\ Len(d) = (IF 1 <= l THEN l - 1 + 1 ELSE 0) /\ \A k \in 1..(l - 1 + 1) : d[k] = text[1 + k - 1]
    BY <1>0, SubSeqType
  <2>2. Len(d) = l /\ l - 1 + 1 = l /\ \A k \in 1..l : 1 + k - 1 = k
    BY <2>1
  <2> QED
    BY <2>1, <2>2
<1>2. text[i] = "$" /\ text[i + 1] = LeftBrace /\ \A k \in (i + 2)..(j - 1) : text[k] # RightBrace
  BY DEF IsCandidate
<1>3. j - i <= MaxVarNameLength
  <2> DEFINE m == <<i, j>>
  <2>1. m[1] = i /\ m[2] = j /\ m \in (1..Len(text)) \X (1..Len(text))
    OBVIOUS
  <2> HIDE DEF m
  <2>2. m \in Candidates(text)
    BY <2>1, CandidateIs
  <2>3. m[2] - m[1] <= MaxVarNameLength
    BY <2>2 DEF ErShort
  <2> QED
    BY <2>1, <2>3
<1> HIDE DEF d
<1>4. i \in DOMAIN d /\ i > Len(d) - MaxVarNameLength /\ d[i] = "$"
  <2>1. i \in 1..l /\ i > l - MaxVarNameLength
    BY <1>0, <1>3
  <2>2. DOMAIN d = 1..l
    BY <1>1
  <2> QED
    BY <1>1, <1>2, <2>1, <2>2
<1>5. ASSUME i # l PROVE d[i + 1] = LeftBrace /\ ~HasClosing(SubSeq(d, i, Len(d)))
  <2>1. i + 1 \in 1..l /\ i \in Nat \ {0} /\ l \in 0..Len(d)
    BY <1>0, <1>1, <1>5
  <2> DEFINE s == SubSeq(d, i, l)
  <2>2. s \in Seq(EnvChars) /\ Len(s) = (IF i <= l THEN l - i + 1 ELSE 0) /\ \A k \in 1..(l - i + 1) : s[k] = d[i + k - 1]
    BY <1>1, <2>1, SubSeqType
  <2> HIDE DEF s
  <2>3. DOMAIN s = 1..(l - i + 1)
    BY <2>1, <2>2
  <2>4. ASSUME NEW k \in DOMAIN s PROVE s[k] # RightBrace
    <3>1. k \in 1..(l - i + 1) /\ i + k - 1 \in 1..l
      BY <2>1, <2>3
    <3> DEFINE x == i + k - 1
    <3>2. s[k] = text[x]
      BY <1>1, <2>2, <3>1
    <3>3. x = i \/ x = i + 1 \/ x \in (i + 2)..(j - 1)
      BY <1>0, <2>1, <3>1
    <3> HIDE DEF x
    <3> QED
      BY <1>2, <3>2, <3>3, BracesApart
  <2>5. ~HasClosing(s)
    BY <2>4 DEF HasClosing
  <2> QED
    BY <1>1, <1>2, <2>1, <2>5 DEF s
<1> QED
  BY <1>1, <1>4, <1>5 DEF IsOpen, d

(* The chunk: from the position on, and never cutting a short reference.   *)
LEMMA ChunkIs ==
  ASSUME er.text \in Seq(EnvChars), er.pos \in 0..Len(er.text)
  PROVE  \E l \in 0..(Len(er.text) - er.pos) :
           /\ Chunk = SubSeq(er.text, er.pos + 1, er.pos + l) /\ Len(Chunk) = l
           /\ er.pos + l >= PeekSize \/ er.pos + l = Len(er.text)
           /\ ErShort(er.text) /\ (er.pos = 0 \/ er.pos >= PeekSize \/ er.pos = Len(er.text))
                => Cut(er.text, er.pos + l)
<1> DEFINE text  == er.text
           pos   == er.pos
           N     == Len(text) - pos
           chunk == Upto(Rest, PeekSize)
           start == findIncompletePatternStart(chunk)
           again == start # 0 /\ Len(chunk) - start + 1 <= MaxVarNameLength + 3
           Of(n) == IF n < N THEN n ELSE N
<1>0. /\ Len(text) \in Nat /\ pos \in Nat /\ N \in Nat /\ PeekSize \in Nat /\ MaxVarNameLength \in Nat
      /\ PeekSize >= MaxVarNameLength + 3 /\ pos + N = Len(text)
  BY EnvReaderAssumption
<1>1. ASSUME NEW n \in Nat
      PROVE  /\ Of(n) \in 0..N /\ Upto(Rest, n) = SubSeq(text, pos + 1, pos + Of(n))
             /\ Len(Upto(Rest, n)) = Of(n)
  <2>1. /\ Upto(SubSeq(text, pos + 1, Len(text)), n) = SubSeq(text, pos + 1, pos + Of(n))
        /\ Len(SubSeq(text, pos + 1, pos + Of(n))) = Of(n)
    BY UptoRest
  <2>2. Of(n) \in 0..N
    BY <1>0
  <2> QED
    BY <2>1, <2>2 DEF Rest
<1>2. chunk \in Seq(EnvChars) /\ Len(chunk) = Of(PeekSize) /\ chunk = SubSeq(text, pos + 1, pos + Of(PeekSize))
  <2>1. chunk = SubSeq(text, pos + 1, pos + Of(PeekSize)) /\ Of(PeekSize) \in 0..N /\ Len(chunk) = Of(PeekSize)
    BY <1>0, <1>1
  <2>2. pos + 1 \in Nat \ {0} /\ pos + Of(PeekSize) \in 0..Len(text)
    <3> HIDE DEF Of, text, pos
    <3> QED
      BY <1>0, <2>1
  <2> DEFINE a == pos + 1
             d == pos + Of(PeekSize)
  <2>3. text \in Seq(EnvChars) /\ a \in Nat \ {0} /\ d \in 0..Len(text)
    BY <1>0, <2>2
  <2>4. chunk = SubSeq(text, a, d)
    BY <2>1
  <2> HIDE DEF a, d
  <2>5. SubSeq(text, a, d) \in Seq(EnvChars)
    BY ONLY <2>3, SubSeqType
  <2> QED
    BY <2>1, <2>4, <2>5
<1>3. Chunk = IF again THEN Upto(Rest, Len(chunk) + PeekSize) ELSE chunk
  BY DEF Chunk
<1>4. ASSUME NEW k \in 0..Len(text), k = Len(text) PROVE Cut(text, k)
  BY <1>0, <1>4 DEF Cut
<1>a. \A n \in Nat : (n < N => Of(n) = n) /\ (~(n < N) => Of(n) = N)
  OBVIOUS
<1>c. text \in Seq(EnvChars)
  OBVIOUS
<1> HIDE DEF chunk, start, Of, text, pos
<1>b. Len(chunk) \in Nat
  BY <1>2
<1>5. CASE again
  <2> DEFINE x == Len(chunk) + PeekSize
             l == Of(x)
  <2>1. x \in Nat
    BY <1>0, <1>b
  <2>2. l \in 0..N /\ Chunk = SubSeq(text, pos + 1, pos + l) /\ Len(Chunk) = l
    BY <1>1, <1>3, <1>5, <2>1
  <2>a. (x < N => l = x) /\ (~(x < N) => l = N) /\ (PeekSize < N => Len(chunk) = PeekSize) /\ (~(PeekSize < N) => Len(chunk) = N)
    BY <1>0, <1>2, <1>a, <2>1
  <2>3. pos + l >= PeekSize \/ pos + l = Len(text)
    <3> HIDE DEF l, N
    <3> QED
      BY <1>0, <1>b, <2>1, <2>a
  <2>4. ASSUME ErShort(text) PROVE pos + l = Len(text)
    <3>1. Len(text) <= 2 * PeekSize
      BY <2>4 DEF ErShort
    <3> HIDE DEF l, N
    <3> QED
      BY <1>0, <1>b, <2>1, <2>a, <3>1
  <2>5. ErShort(text) => Cut(text, pos + l)
    <3>1. pos + l \in 0..Len(text)
      <4> HIDE DEF l, N
      <4> QED
        BY <1>0, <2>2
    <3> QED
      BY <1>4, <2>4, <3>1
  <2> HIDE DEF l
  <2> QED
    BY <2>2, <2>3, <2>5 DEF text, pos
<1>6. CASE ~again
  <2> DEFINE l == Of(PeekSize)
  <2>1. l \in 0..N /\ Chunk = SubSeq(text, pos + 1, pos + l) /\ Len(Chunk) = l
    BY <1>0, <1>1, <1>2, <1>3, <1>6
  <2>a. (PeekSize < N => l = PeekSize) /\ (~(PeekSize < N) => l = N)
    BY <1>0, <1>a
  <2>2. pos + l >= PeekSize \/ pos + l = Len(text)
    <3> HIDE DEF l, N
    <3> QED
      BY <1>0, <2>1, <2>a
  <2>3. ASSUME ErShort(text), pos = 0 \/ pos >= PeekSize \/ pos = Len(text) PROVE Cut(text, pos + l)
    <3>0. Len(text) <= 2 * PeekSize
      BY <2>3 DEF ErShort
    <3>1. CASE pos + l = Len(text)
      <4>1. pos + l \in 0..Len(text)
        BY <1>0, <3>1
      <4> QED
        BY <1>4, <3>1, <4>1
    <3>2. CASE pos + l # Len(text)
      <4>1. pos = 0 /\ l = PeekSize /\ l \in 1..Len(text) /\ l = Len(chunk)
        <5>1. l = Len(chunk)
          BY <1>2
        <5> HIDE DEF l, N
        <5>2. pos = 0 /\ l = PeekSize
          BY <1>0, <2>1, <2>3, <2>a, <3>0, <3>2
        <5> QED
          BY <1>0, <2>1, <3>2, <5>1, <5>2
      <4>2. chunk = SubSeq(text, 1, l)
        <5>1. pos + 1 = 1 /\ pos + l = l
          BY <1>0, <4>1
        <5> QED
          BY <1>2, <5>1
      <4> HIDE DEF l
      <4>3. ASSUME NEW i \in 1..Len(text), NEW j \in 1..Len(text), i <= l, l < j, IsCandidate(text, i, j) PROVE FALSE
        <5>1. IsOpen(chunk, i)
          BY <1>c, <2>3, <4>1, <4>2, <4>3, SpanIsOpen
        <5>2. start \in 1..Len(chunk) /\ start > Len(chunk) - MaxVarNameLength
          BY <1>2, <5>1, StartIsOpen DEF start
        <5>3. start # 0 /\ Len(chunk) - start + 1 <= MaxVarNameLength + 3
          BY <1>0, <1>b, <5>2
        <5> QED
          BY <1>6, <5>3
      <4>4. pos + l = l
        BY <4>1
      <4> QED
        BY <4>3, <4>4 DEF Cut
    <3> QED
      BY <3>1, <3>2
  <2> HIDE DEF l
  <2> QED
    BY <2>1, <2>2, <2>3 DEF text, pos
<1> QED
  BY <1>5, <1>6

(* The inductive invariant: what was delivered, and for a short text also  *)
(* that no reference spans the position.                                   *)
ErRecords == [text : EnvTexts, pos : Nat, out : Seq(Tokens), buf : Seq(Tokens), err : {"none", "unset", "eof"}]
ErBefore  == SubSeq(er.text, 1, er.pos)
ErShortInv ==
  /\ er.pos = 0 \/ er.pos >= PeekSize \/ er.pos = Len(er.text)
  /\ Cut(er.text, er.pos) /\ AllSet(ErBefore)
  /\ er.out \o er.buf = substituteEnv(ErBefore)
  /\ er.err = "unset" => ~AllSet(er.text)
ErInv ==
  /\ er \in ErRecords /\ er.pos \in 0..Len(er.text)
  /\ Restored(er.out \o er.buf, ErBefore)
  /\ er.err = "eof" => er.buf = <<>> /\ er.pos = Len(er.text)
  /\ ErShort(er.text) => ErShortInv

LEMMA TextIsChars ==
  ASSUME NEW text \in EnvTexts
  PROVE  text \in Seq(EnvChars)
<1>1. text \in Seq(Range(text))
  BY EnvReaderAssumption
<1>2. Range(text) \subseteq EnvChars
  BY DEF EnvChars
<1> QED
  BY <1>1, <1>2, SeqMonotonic

LEMMA EmptyHasNoMatches == AllSet(<<>>) /\ substituteEnv(<<>>) = <<>>
<1>1. Matches(<<>>) = {}
  BY DEF Matches, Candidates
<1>2. Piecewise(<<>>) = <<>>
  BY DEF Piecewise
<1>3. FlattenSeq(<<>>) = <<>>
  BY DEF FlattenSeq
<1> QED
  BY <1>1, <1>2, <1>3 DEF AllSet, substituteEnv

LEMMA ErInitInv == EnvReaderInit => ErInv
<1> SUFFICES ASSUME EnvReaderInit PROVE ErInv
  OBVIOUS
<1>1. PICK t \in EnvTexts : er = [text |-> t, pos |-> 0, out |-> <<>>, buf |-> <<>>, err |-> "none"]
  BY DEF EnvReaderInit
<1>2. /\ er.text = t /\ er.pos = 0 /\ er.out = <<>> /\ er.buf = <<>> /\ er.err = "none"
      /\ t \in Seq(EnvChars) /\ Len(t) \in Nat
  BY <1>1, TextIsChars
<1>3. er \in ErRecords /\ er.pos \in 0..Len(er.text)
  <2>1. <<>> \in Seq(Tokens)
    OBVIOUS
  <2>2. er \in ErRecords
    BY <1>1, <2>1 DEF ErRecords
  <2> QED
    BY <1>2, <2>2
<1>4. ErBefore = <<>> /\ er.out \o er.buf = <<>>
  <2>1. SubSeq(t, 1, 0) = <<>>
    BY <1>2, SubSeqEmpty
  <2>2. <<>> \o <<>> = <<>>
    OBVIOUS
  <2> QED
    BY <1>2, <2>1, <2>2 DEF ErBefore
<1>5. Cut(er.text, er.pos)
  BY <1>2 DEF Cut
<1>6. ErShortInv
  BY <1>2, <1>4, <1>5, EmptyHasNoMatches DEF ErShortInv
<1> QED
  BY <1>2, <1>3, <1>4, <1>6, RestoredEmpty DEF ErInv

(* The next chunk, substituted, after what was delivered.                  *)
LEMMA ErChunkStep ==
  ASSUME ErInv, er.buf = <<>>, er.err = "none"
  PROVE  \E l \in Nat :
           LET c == SubSeq(er.text, 1, er.pos + l) IN
           /\ Len(Chunk) = l /\ er.pos + l \in 0..Len(er.text) /\ substituteEnv(Chunk) \in Seq(Tokens)
           /\ AllSet(Chunk) => Restored(er.out \o substituteEnv(Chunk), c)
           /\ ErShort(er.text) =>
                /\ er.pos + l = 0 \/ er.pos + l >= PeekSize \/ er.pos + l = Len(er.text)
                /\ Cut(er.text, er.pos + l)
                /\ AllSet(c) <=> AllSet(Chunk)
                /\ AllSet(er.text) => AllSet(Chunk)
                /\ er.out \o substituteEnv(Chunk) = substituteEnv(c)
<1> DEFINE text == er.text
           pos  == er.pos
           N    == Len(text)
           a    == ErBefore
<1>0. /\ text \in Seq(EnvChars) /\ pos \in 0..N /\ er.out \in Seq(Tokens) /\ N \in Nat /\ pos \in Nat
      /\ er.out \o er.buf = er.out /\ Restored(er.out, a)
  <2>1. text \in EnvTexts /\ er.out \in Seq(Tokens) /\ pos \in 0..N
    BY DEF ErInv, ErRecords
  <2>2. text \in Seq(EnvChars)
    BY <2>1, TextIsChars
  <2>3. er.out \o er.buf = er.out
    BY <2>1, ConcatEmptySeq
  <2>4. Restored(er.out \o er.buf, a)
    BY DEF ErInv
  <2> QED
    BY <2>1, <2>2, <2>3, <2>4
<1>1. PICK l \in 0..(N - pos) :
           /\ Chunk = SubSeq(text, pos + 1, pos + l) /\ Len(Chunk) = l
           /\ pos + l >= PeekSize \/ pos + l = N
           /\ ErShort(text) /\ (pos = 0 \/ pos >= PeekSize \/ pos = N) => Cut(text, pos + l)
  BY <1>0, ChunkIs
<1> DEFINE c == SubSeq(text, 1, pos + l)
           b == Chunk
           e == pos + l
<1>2. a \in Seq(EnvChars) /\ Len(a) = pos /\ b \in Seq(EnvChars) /\ a \o b = c
  BY <1>0, <1>1, ChunkFollows DEF ErBefore
<1>3. l \in Nat /\ e \in 0..N
  BY <1>0
<1>4. substituteEnv(b) \in Seq(Tokens)
  BY <1>2, PiecewiseType
<1>5. ASSUME AllSet(b) PROVE Restored(er.out \o substituteEnv(b), c)
  <2>1. Restored(substituteEnv(b), b)
    BY <1>2, <1>5, SubstitutesBack
  <2>2. Restored(er.out \o substituteEnv(b), a \o b)
    BY <1>0, <1>4, <2>1, RestoredConcat
  <2> QED
    BY <1>2, <2>2
<1>6. ASSUME ErShort(text)
      PROVE  /\ e = 0 \/ e >= PeekSize \/ e = N
             /\ Cut(text, e) /\ (AllSet(c) <=> AllSet(b)) /\ (AllSet(text) => AllSet(b))
             /\ er.out \o substituteEnv(b) = substituteEnv(c)
  <2>1. ErShortInv
    BY <1>6 DEF ErInv
  <2>2. Cut(text, e)
    BY <1>1, <1>6, <2>1 DEF ErShortInv
  <2>3. Cut(a \o b, Len(a))
    <3>1. Cut(text, pos)
      BY <2>1 DEF ErShortInv
    <3> QED
      BY <1>0, <1>1, <3>1, CutPrefix DEF ErBefore
  <2>4. AllSet(a) /\ er.out = substituteEnv(a)
    BY <1>0, <2>1 DEF ErShortInv
  <2>5. AllSet(c) <=> AllSet(b)
    <3>1. AllSet(a \o b) <=> AllSet(a) /\ AllSet(b)
      BY <1>2, <2>3, AllSetConcat
    <3> QED
      BY <1>2, <2>4, <3>1
  <2>6. er.out \o substituteEnv(b) = substituteEnv(c)
    <3>1. substituteEnv(a \o b) = substituteEnv(a) \o substituteEnv(b)
      BY <1>2, <2>3, SubstituteConcat
    <3> QED
      BY <1>2, <2>4, <3>1
  <2>7. AllSet(text) => AllSet(c)
    <3> DEFINE d == SubSeq(text, e + 1, N)
    <3>1. c \in Seq(EnvChars) /\ Len(c) = e /\ d \in Seq(EnvChars) /\ c \o d = text
      <4>1. N - e \in 0..(N - e) /\ e + (N - e) = N
        <5> HIDE DEF e, N
        <5> QED
          BY <1>0, <1>3
      <4>2. /\ SubSeq(text, 1, e) \in Seq(EnvChars) /\ Len(SubSeq(text, 1, e)) = e
            /\ SubSeq(text, e + 1, e + (N - e)) \in Seq(EnvChars)
            /\ SubSeq(text, 1, e) \o SubSeq(text, e + 1, e + (N - e)) = SubSeq(text, 1, e + (N - e))
        <5> HIDE DEF e, text
        <5> QED
          BY <1>0, <1>3, <4>1, ChunkFollows
      <4>3. SubSeq(text, 1, N) = text
        BY <1>0, SubSeqFull
      <4> QED
        BY <4>1, <4>2, <4>3
    <3> HIDE DEF c, d, e
    <3>2. AllSet(c \o d) <=> AllSet(c) /\ AllSet(d)
      BY <2>2, <3>1, AllSetConcat
    <3> QED
      BY <3>1, <3>2
  <2> QED
    BY <1>1, <2>2, <2>5, <2>6, <2>7
<1> HIDE DEF c
<1> QED
  BY <1>1, <1>3, <1>4, <1>5, <1>6 DEF c

LEMMA ConcatThree == \A a, b, c \in Seq(Tokens) : (a \o b) \o c = a \o (b \o c)
BY ConcatAssociative

LEMMA ErNextInv == ErInv /\ [EnvReaderNext]_er => ErInv'
<1> SUFFICES ASSUME ErInv, [EnvReaderNext]_er PROVE ErInv'
  OBVIOUS
<1>0. /\ er \in ErRecords /\ er.text \in EnvTexts /\ er.text \in Seq(EnvChars) /\ er.pos \in Nat
      /\ er.out \in Seq(Tokens) /\ er.buf \in Seq(Tokens) /\ er.pos \in 0..Len(er.text)
  BY TextIsChars DEF ErInv, ErRecords
<1>a. \A n \in ReadSizes : n \in Nat
  BY EnvReaderAssumption
<1>1. CASE UNCHANGED er
  BY <1>1 DEF ErInv, ErShortInv, ErBefore
<1>2. CASE ReadUnset
  <2>1. /\ er.err = "none" /\ er.buf = <<>> /\ ~AllSet(Chunk) /\ er' = [er EXCEPT !.err = "unset"]
    BY <1>2 DEF ReadUnset
  <2>2. er' \in ErRecords /\ er'.text = er.text /\ er'.pos = er.pos /\ er'.out = er.out /\ er'.buf = er.buf /\ er'.err = "unset"
    BY <1>0, <2>1 DEF ErRecords
  <2>3. ErBefore' = ErBefore
    BY <2>2 DEF ErBefore
  <2>4. ErShort(er.text) => ~AllSet(er.text)
    BY <2>1, ErChunkStep
  <2>5. ErShort(er.text) => ErShortInv'
    BY <2>2, <2>3, <2>4 DEF ErInv, ErShortInv
  <2> QED
    BY <2>2, <2>3, <2>5 DEF ErInv
<1>3. CASE ReadEOF
  <2>1. /\ er.err = "none" /\ er.buf = <<>> /\ Rest = <<>> /\ er' = [er EXCEPT !.err = "eof"]
    BY <1>3 DEF ReadEOF
  <2>2. er' \in ErRecords /\ er'.text = er.text /\ er'.pos = er.pos /\ er'.out = er.out /\ er'.buf = er.buf /\ er'.err = "eof"
    BY <1>0, <2>1 DEF ErRecords
  <2>3. ErBefore' = ErBefore
    BY <2>2 DEF ErBefore
  <2>4. er.pos = Len(er.text)
    <3> DEFINE N == Len(er.text)
    <3>1. N \in Nat /\ N \in 0..N /\ er.pos + 1 \in Nat \ {0}
      BY <1>0
    <3>2. Len(Rest) = IF er.pos + 1 <= N THEN N - (er.pos + 1) + 1 ELSE 0
      BY <1>0, <3>1, SubSeqType DEF Rest
    <3>3. Len(Rest) = 0
      BY <2>1
    <3> QED
      BY <1>0, <3>1, <3>2, <3>3
  <2>5. ErShort(er.text) => ErShortInv'
    BY <2>2, <2>3 DEF ErInv, ErShortInv
  <2> QED
    BY <2>1, <2>2, <2>3, <2>4, <2>5 DEF ErInv
<1>4. ASSUME NEW n \in ReadSizes, ReadBuffered(n) PROVE ErInv'
  <2> DEFINE s == er.buf
  <2>1. /\ er.err = "none" /\ er' = [er EXCEPT !.out = @ \o Upto(s, n), !.buf = SubSeq(s, n + 1, Len(s))]
    BY <1>4 DEF ReadBuffered, Deliver
  <2>2. Upto(s, n) \in Seq(Tokens) /\ SubSeq(s, n + 1, Len(s)) \in Seq(Tokens) /\ Upto(s, n) \o SubSeq(s, n + 1, Len(s)) = s
    BY <1>0, <1>a, UptoSplits
  <2> DEFINE x == Upto(s, n)
             y == SubSeq(s, n + 1, Len(s))
  <2>3. er.out \o x \in Seq(Tokens) /\ (er.out \o x) \o y = er.out \o s
    <3>1. x \in Seq(Tokens) /\ y \in Seq(Tokens) /\ x \o y = s
      BY <2>2
    <3> HIDE DEF x, y, s
    <3>2. (er.out \o x) \o y = er.out \o (x \o y)
      BY <1>0, <3>1, ConcatThree
    <3> QED
      BY <1>0, <3>1, <3>2
  <2> HIDE DEF x, y, s
  <2>4. /\ er' \in ErRecords /\ er'.text = er.text /\ er'.pos = er.pos /\ er'.err = "none"
        /\ er'.out = er.out \o x /\ er'.buf = y
    BY <1>0, <2>1, <2>2, <2>3 DEF ErRecords, x, y
  <2>5. ErBefore' = ErBefore /\ (er.out \o er.buf)' = er.out \o er.buf
    BY <2>3, <2>4 DEF ErBefore, s
  <2>6. ErShort(er.text) => ErShortInv'
    BY <2>4, <2>5 DEF ErInv, ErShortInv
  <2> QED
    BY <2>4, <2>5, <2>6 DEF ErInv
<1>5. ASSUME NEW n \in ReadSizes, ReadChunk(n) PROVE ErInv'
  <2> DEFINE s == substituteEnv(Chunk)
             x == Upto(s, n)
             y == SubSeq(s, n + 1, Len(s))
  <2>1. /\ er.err = "none" /\ er.buf = <<>> /\ AllSet(Chunk)
        /\ er' = [er EXCEPT !.pos = @ + Len(Chunk), !.out = @ \o x, !.buf = y]
    BY <1>5 DEF ReadChunk
  <2>2. PICK l \in Nat :
           LET c == SubSeq(er.text, 1, er.pos + l) IN
           /\ Len(Chunk) = l /\ er.pos + l \in 0..Len(er.text) /\ substituteEnv(Chunk) \in Seq(Tokens)
           /\ AllSet(Chunk) => Restored(er.out \o substituteEnv(Chunk), c)
           /\ ErShort(er.text) =>
                /\ er.pos + l = 0 \/ er.pos + l >= PeekSize \/ er.pos + l = Len(er.text)
                /\ Cut(er.text, er.pos + l)
                /\ AllSet(c) <=> AllSet(Chunk)
                /\ AllSet(er.text) => AllSet(Chunk)
                /\ er.out \o substituteEnv(Chunk) = substituteEnv(c)
    BY <2>1, ErChunkStep
  <2>3. s \in Seq(Tokens)
    BY <2>2
  <2>4. x \in Seq(Tokens) /\ y \in Seq(Tokens) /\ x \o y = s
    <3> HIDE DEF s
    <3> QED
      BY <1>a, <2>3, UptoSplits
  <2>5. er.out \o x \in Seq(Tokens) /\ (er.out \o x) \o y = er.out \o s
    <3> HIDE DEF x, y, s
    <3>1. (er.out \o x) \o y = er.out \o (x \o y)
      BY <1>0, <2>4, ConcatThree
    <3> QED
      BY <1>0, <2>4, <3>1
  <2> HIDE DEF x, y, s
  <2>6. /\ er' \in ErRecords /\ er'.text = er.text /\ er'.pos = er.pos + l /\ er'.err = "none"
        /\ er'.out = er.out \o x /\ er'.buf = y
    <3>1. er.pos + l \in Nat
      BY <1>0
    <3> QED
      BY <1>0, <2>1, <2>2, <2>4, <2>5, <3>1 DEF ErRecords
  <2>7. ErBefore' = SubSeq(er.text, 1, er.pos + l) /\ (er.out \o er.buf)' = er.out \o s
    BY <2>5, <2>6 DEF ErBefore
  <2>8. Restored((er.out \o er.buf)', ErBefore')
    BY <2>1, <2>2, <2>7 DEF s
  <2>9. ErShort(er.text) => ErShortInv'
    BY <2>1, <2>2, <2>6, <2>7 DEF ErShortInv, s
  <2> QED
    BY <2>2, <2>6, <2>8, <2>9 DEF ErInv
<1> QED
  BY <1>1, <1>2, <1>3, <1>4, <1>5 DEF EnvReaderNext

LEMMA ErInvIsSound == ErInv => EnvReaderSound
<1> SUFFICES ASSUME ErInv PROVE EnvReaderSound
  OBVIOUS
<1>0. er.text \in EnvTexts /\ er.text \in Seq(EnvChars) /\ er.out \in Seq(Tokens) /\ er.pos \in 0..Len(er.text)
  BY TextIsChars DEF ErInv, ErRecords
<1>1. NothingLost
  <2>1. PICK name \in [ValuesOf(er.out \o er.buf) -> EnvNamed] : ErBefore = FlattenSeq(WithNames(er.out \o er.buf, name))
    BY DEF ErInv, Restored
  <2>2. name \in [{k \in DOMAIN (er.out \o er.buf) : (er.out \o er.buf)[k] = Value} -> EnvSet]
    BY <2>1 DEF ValuesOf, EnvNamed
  <2> QED
    BY <2>1, <2>2 DEF NothingLost, Restores, ErBefore
<1>2. ASSUME ErShort(er.text), er.err = "eof" PROVE er.out = substituteEnv(er.text)
  <2>1. er.buf = <<>> /\ er.pos = Len(er.text) /\ er.out \o er.buf = substituteEnv(ErBefore)
    BY <1>2 DEF ErInv, ErShortInv
  <2>2. er.out \o <<>> = er.out
    BY <1>0, ConcatEmptySeq
  <2>3. ErBefore = er.text
    BY <1>0, <2>1, SubSeqFull DEF ErBefore
  <2> QED
    BY <2>1, <2>2, <2>3
<1>3. ASSUME ErShort(er.text), er.err = "unset" PROVE ~AllSet(er.text)
  BY <1>3 DEF ErInv, ErShortInv
<1>4. SubstitutesAll
  BY <1>2, <1>3 DEF SubstitutesAll, ErShort
<1> QED
  BY <1>1, <1>4 DEF EnvReaderSound

(* Substitution in chunks loses nothing of any text, whatever the sizes of *)
(* the chunks and the reads, and of a short text gives what substitution   *)
(* in the whole gives (Read and substituteEnv in reader.go).               *)
THEOREM EnvReaderIsSound == EnvReaderSpec => []EnvReaderSound
<1>1. EnvReaderInit => ErInv
  BY ErInitInv
<1>2. ErInv /\ [EnvReaderNext]_er => ErInv'
  BY ErNextInv
<1>3. ErInv => EnvReaderSound
  BY ErInvIsSound
<1> QED
  BY <1>1, <1>2, <1>3, PTL DEF EnvReaderSpec

(***************************************************************************)
(* DockerLabels: the labels of a container, whatever they are.  The state  *)
(* is one record x, and what a pass has done is told from what is left.    *)
(* An alias al[k] is called by two names.                                  *)
(***************************************************************************)
Names(al, k) == {al[k], AliasRefs[k]}
Parts == STRING
Paths == Seq(Parts) \ {<<>>}

LEMMA NameFacts ==
  ASSUME NEW al \in AliasLists, NEW k \in DOMAIN al
  PROVE  /\ k \in 1..Len(al) /\ Len(al) \in Nat /\ Len(al) + MaxLabels <= Len(AliasRefs)
         /\ DOMAIN al = 1..Len(al) /\ DOMAIN AliasRefs = 1..Len(AliasRefs) /\ Len(AliasRefs) \in Nat
         /\ k \in DOMAIN AliasRefs /\ IsRef(AliasRefs[k]) /\ ~IsRef(al[k])
         /\ al[k] # Wildcard /\ AliasRefs[k] # Wildcard /\ al[k] # AliasRefs[k]
         /\ al[k] \in Parts /\ AliasRefs[k] \in Parts
         /\ \A j \in DOMAIN al : al[j] = al[k] => j = k
         /\ \A j \in DOMAIN AliasRefs : AliasRefs[j] = AliasRefs[k] => j = k
<1>1. al \in Seq(Parts) /\ AliasRefs \in Seq(Parts) /\ Len(al) + MaxLabels <= Len(AliasRefs) /\ MaxLabels \in Nat
  BY DockerLabelsAssumption DEF Parts
<1>2. DOMAIN al = 1..Len(al) /\ DOMAIN AliasRefs = 1..Len(AliasRefs) /\ Len(al) \in Nat /\ Len(AliasRefs) \in Nat
  BY <1>1
<1>3. k \in 1..Len(al) /\ k \in DOMAIN AliasRefs
  BY <1>1, <1>2
<1>4. al[k] \in Parts /\ AliasRefs[k] \in Parts
  BY <1>1, <1>3
<1>5. ~IsRef(al[k]) /\ al[k] # Wildcard /\ ~IsRef(Wildcard)
  BY DockerLabelsAssumption
<1>6. IsRef(AliasRefs[k])
  BY <1>3 DEF IsRef
<1>7. AliasRefs[k] # Wildcard /\ al[k] # AliasRefs[k]
  BY <1>5, <1>6
<1>8. IsInjective(al) /\ IsInjective(AliasRefs)
  BY DockerLabelsAssumption
<1>9. /\ \A j \in DOMAIN al : al[j] = al[k] => j = k
      /\ \A j \in DOMAIN AliasRefs : AliasRefs[j] = AliasRefs[k] => j = k
  BY <1>3, <1>8 DEF IsInjective
<1> QED
  BY <1>1, <1>2, <1>3, <1>4, <1>5, <1>6, <1>7, <1>9

(* No name of one alias is a name of another.                              *)
LEMMA NamesApart ==
  ASSUME NEW al \in AliasLists, NEW k \in DOMAIN al, NEW j \in DOMAIN al, NEW h, h \in Names(al, k), h \in Names(al, j)
  PROVE  k = j
<1>1. \A i \in DOMAIN al : /\ ~IsRef(al[i]) /\ IsRef(AliasRefs[i])
                           /\ \A m \in DOMAIN al : al[m] = al[i] => m = i
                           /\ \A m \in DOMAIN al : AliasRefs[m] = AliasRefs[i] => m = i
  <2> SUFFICES ASSUME NEW i \in DOMAIN al
               PROVE  /\ ~IsRef(al[i]) /\ IsRef(AliasRefs[i])
                      /\ \A m \in DOMAIN al : al[m] = al[i] => m = i
                      /\ \A m \in DOMAIN al : AliasRefs[m] = AliasRefs[i] => m = i
    OBVIOUS
  <2>1. \A m \in DOMAIN al : m \in DOMAIN AliasRefs
    BY NameFacts
  <2> QED
    BY <2>1, NameFacts
<1>2. CASE h = al[k]
  BY <1>1, <1>2 DEF Names
<1>3. CASE h = AliasRefs[k]
  BY <1>1, <1>3 DEF Names
<1> QED
  BY <1>2, <1>3 DEF Names

LEMMA LabelFacts ==
  ASSUME NEW l \in Labels
  PROVE  l.path \in Paths /\ DOMAIN l.value # {} /\ DOMAIN l.value \subseteq Seq(Parts)
BY DockerLabelsAssumption DEF Paths, Parts

LEMMA PathFacts ==
  ASSUME NEW p \in Paths
  PROVE  /\ Len(p) \in Nat \ {0} /\ p[1] \in Parts /\ Tail(p) \in Seq(Parts) /\ p = <<p[1]>> \o Tail(p)
         /\ Len(Tail(p)) = Len(p) - 1 /\ (Tail(p) = <<>> <=> Len(p) = 1) /\ DOMAIN p = 1..Len(p)
         /\ \A i \in 1..(Len(p) - 1) : Tail(p)[i] = p[i + 1]
<1>1. p \in Seq(Parts) /\ p # <<>>
  BY DEF Paths
<1>2. Len(p) \in Nat /\ Len(p) # 0 /\ DOMAIN p = 1..Len(p)
  BY <1>1
<1>3. Tail(p) \in Seq(Parts) /\ Len(Tail(p)) = Len(p) - 1 /\ \A i \in 1..(Len(p) - 1) : Tail(p)[i] = p[i + 1]
  BY <1>1, <1>2
<1>4. p = <<p[1]>> \o Tail(p)
  <2>1. Head(p) = p[1] /\ p = <<Head(p)>> \o Tail(p)
    BY <1>1
  <2> QED
    BY <2>1
<1>5. Tail(p) = <<>> <=> Len(p) = 1
  BY <1>2, <1>3, EmptySeq
<1>6. p[1] \in Parts
  BY <1>1, <1>2
<1> QED
  BY <1>2, <1>3, <1>4, <1>5, <1>6

LEMMA JoinFacts ==
  ASSUME NEW h \in Parts, NEW s \in Seq(Parts)
  PROVE  <<h>> \o s \in Paths /\ (<<h>> \o s)[1] = h /\ Tail(<<h>> \o s) = s
<1> DEFINE p == <<h>> \o s
<1>1. <<h>> \in Seq(Parts) /\ Len(<<h>>) = 1 /\ <<h>>[1] = h
  OBVIOUS
<1>2. p \in Seq(Parts) /\ Len(p) = 1 + Len(s) /\ p[1] = h /\ \A i \in 1..Len(s) : p[i + 1] = s[i]
  BY <1>1
<1>3. Len(s) \in Nat /\ p # <<>>
  BY <1>2
<1> HIDE DEF p
<1>4. Tail(p) \in Seq(Parts) /\ Len(Tail(p)) = Len(s) /\ \A i \in 1..Len(s) : Tail(p)[i] = s[i]
  BY <1>2, <1>3
<1>5. Tail(p) = s
  BY <1>4, SeqEqual
<1> QED
  BY <1>2, <1>3, <1>5 DEF p, Paths

(* Being below, for suffixes and for paths.                                *)
LEMMA BelowTail ==
  ASSUME NEW p \in Paths, NEW q \in Paths, Below(p, q)
  PROVE  Below(Tail(p), Tail(q))
<1>1. Len(q) > Len(p) /\ \A i \in 1..Len(p) : q[i] = p[i]
  BY PathFacts DEF Below
<1>2. DOMAIN Tail(p) = 1..(Len(p) - 1)
  BY PathFacts
<1>3. Len(Tail(q)) > Len(Tail(p))
  <2>1. Len(Tail(q)) = Len(q) - 1 /\ Len(Tail(p)) = Len(p) - 1 /\ Len(q) \in Nat /\ Len(p) \in Nat
    BY PathFacts
  <2> QED
    BY <1>1, <2>1
<1>4. ASSUME NEW i \in 1..(Len(p) - 1) PROVE Tail(q)[i] = Tail(p)[i]
  <2>1. i + 1 \in 1..Len(p) /\ i \in 1..(Len(q) - 1) /\ Len(p) \in Nat /\ Len(q) \in Nat
    BY <1>1, PathFacts
  <2>2. Tail(q)[i] = q[i + 1] /\ Tail(p)[i] = p[i + 1]
    BY <2>1, PathFacts
  <2> QED
    BY <1>1, <2>1, <2>2
<1> QED
  BY <1>2, <1>3, <1>4 DEF Below

LEMMA BelowTrans ==
  ASSUME NEW p \in Paths, NEW q \in Paths, NEW r \in Paths, Below(p, q), Below(q, r)
  PROVE  Below(p, r)
<1>1. Len(p) \in Nat /\ Len(q) \in Nat /\ Len(r) \in Nat /\ DOMAIN p = 1..Len(p) /\ DOMAIN q = 1..Len(q)
  BY PathFacts
<1>2. Len(q) > Len(p) /\ Len(r) > Len(q) /\ \A i \in 1..Len(p) : q[i] = p[i] /\ i \in 1..Len(q)
  BY <1>1 DEF Below
<1>3. \A i \in 1..Len(q) : r[i] = q[i]
  BY <1>1 DEF Below
<1> QED
  BY <1>1, <1>2, <1>3 DEF Below

LEMMA BelowHead ==
  ASSUME NEW p \in Paths, NEW q \in Paths, Below(p, q)
  PROVE  q[1] = p[1] /\ ~Below(q, p)
<1>1. Len(p) \in Nat \ {0} /\ Len(q) \in Nat /\ DOMAIN p = 1..Len(p)
  BY PathFacts
<1> QED
  BY <1>1 DEF Below

-----------------------------------------------------------------------------
(* The first pass: what the wildcards give, and the numbers of the names.  *)
IsWild(l) == l.path[1] = Wildcard
WildOK(w, S) ==
  /\ \A s \in DOMAIN w : \E l \in S : IsWild(l) /\ s \in DOMAIN Sets(l) /\ w[s] = Sets(l)[s]
  /\ \A l \in S : IsWild(l) => DOMAIN Sets(l) \subseteq DOMAIN w

IndexOK(ix, al) ==
  /\ IsFiniteSet(DOMAIN ix) /\ Cardinality(DOMAIN ix) >= Len(al)
  /\ \A k \in DOMAIN al : al[k] \in DOMAIN ix /\ ix[al[k]] = k - 1
  /\ \A c \in DOMAIN ix : (\A k \in DOMAIN al : c # al[k]) => ix[c] \in Len(al)..(Len(AliasRefs) - 1)

Dotted(l) == ~IsWild(l) /\ Suffix(l) # <<>> /\ ~IsRef(l.path[1])
IndexKnown(ix, S) == \A l \in S : Dotted(l) => l.path[1] \in DOMAIN ix

LEMMA WildSame ==
  ASSUME NEW w, NEW S, NEW l, WildOK(w, S), ~IsWild(l)
  PROVE  WildOK(w, S \cup {l})
BY DEF WildOK

LEMMA WildOver ==
  ASSUME NEW w, NEW S, NEW l, WildOK(w, S), IsWild(l)
  PROVE  WildOK(Over(w, Sets(l)), S \cup {l})
<1> DEFINE g == Sets(l)
           v == Over(w, g)
<1>1. DOMAIN v = DOMAIN w \cup DOMAIN g /\ \A s \in DOMAIN v : v[s] = IF s \in DOMAIN g THEN g[s] ELSE w[s]
  BY DEF Over
<1> HIDE DEF v, g
<1>2. \A s \in DOMAIN v : \E m \in S \cup {l} : IsWild(m) /\ s \in DOMAIN Sets(m) /\ v[s] = Sets(m)[s]
  <2> SUFFICES ASSUME NEW s \in DOMAIN v
               PROVE  \E m \in S \cup {l} : IsWild(m) /\ s \in DOMAIN Sets(m) /\ v[s] = Sets(m)[s]
    OBVIOUS
  <2>1. CASE s \in DOMAIN g
    BY <1>1, <2>1 DEF g
  <2>2. CASE s \notin DOMAIN g
    <3>1. s \in DOMAIN w /\ v[s] = w[s]
      BY <1>1, <2>2
    <3> QED
      BY <3>1 DEF WildOK
  <2> QED
    BY <2>1, <2>2
<1>3. \A m \in S \cup {l} : IsWild(m) => DOMAIN Sets(m) \subseteq DOMAIN v
  BY <1>1 DEF WildOK, g
<1> QED
  BY <1>2, <1>3 DEF WildOK, v, g

(* What labels set is not at the empty suffix, and not a nested map.       *)
LEMMA SetsFacts ==
  ASSUME NEW l \in Labels
  PROVE  /\ DOMAIN Sets(l) \subseteq Seq(Parts) \ {<<>>}
         /\ \A s \in DOMAIN Sets(l) : DOMAIN (Sets(l)[s]) # {}
         /\ Suffix(l) # <<>> /\ ~IsWild(l) => DOMAIN Sets(l) = {Suffix(l)} /\ Sets(l)[Suffix(l)] = l.value
         /\ Suffix(l) = <<>> => Sets(l) = Flatten(l.value)
         /\ Suffix(l) \in Seq(Parts)
<1>1. l.path \in Paths /\ DOMAIN l.value # {} /\ DOMAIN l.value \subseteq Seq(Parts)
  BY LabelFacts
<1>2. Suffix(l) \in Seq(Parts)
  BY <1>1, PathFacts DEF Suffix
<1>3. DOMAIN Flatten(l.value) \subseteq Seq(Parts) \ {<<>>} /\ \A s \in DOMAIN Flatten(l.value) : DOMAIN (Flatten(l.value)[s]) # {}
  <2>1. CASE <<>> \in DOMAIN l.value
    <3>1. Flatten(l.value) = <<>>
      BY <2>1 DEF Flatten, Node
    <3>2. DOMAIN Flatten(l.value) = {}
      BY <3>1
    <3> QED
      BY <3>2
  <2>2. CASE <<>> \notin DOMAIN l.value
    <3>1. Flatten(l.value) = [s \in DOMAIN l.value |-> [e \in {<<>>} |-> l.value[s]]]
      BY <2>2 DEF Flatten
    <3> QED
      BY <1>1, <2>2, <3>1
  <2> QED
    BY <2>1, <2>2
<1>4. CASE Suffix(l) = <<>> \/ (l.path[1] = Wildcard /\ <<>> \notin DOMAIN l.value)
  <2>1. Sets(l) = Flatten(l.value)
    BY <1>4 DEF Sets
  <2> QED
    BY <1>2, <1>3, <1>4, <2>1 DEF IsWild
<1>5. CASE ~(Suffix(l) = <<>> \/ (l.path[1] = Wildcard /\ <<>> \notin DOMAIN l.value))
  <2>1. Sets(l) = [s \in {Suffix(l)} |-> l.value]
    BY <1>5 DEF Sets
  <2> QED
    BY <1>1, <1>2, <1>5, <2>1
<1> QED
  BY <1>4, <1>5

LEMMA IndexGrows ==
  ASSUME NEW ix, NEW al \in AliasLists, NEW c, IndexOK(ix, al), c \notin DOMAIN ix,
         Cardinality(DOMAIN ix) < Len(AliasRefs)
  PROVE  LET iy == Put(ix, c, Cardinality(DOMAIN ix)) IN
         /\ IndexOK(iy, al) /\ DOMAIN iy = DOMAIN ix \cup {c}
         /\ Cardinality(DOMAIN iy) = Cardinality(DOMAIN ix) + 1
<1> DEFINE n == Cardinality(DOMAIN ix)
           iy == Put(ix, c, n)
<1>1. DOMAIN iy = DOMAIN ix \cup {c} /\ iy[c] = n /\ \A x \in DOMAIN ix : iy[x] = ix[x]
  BY DEF Put, IndexOK
<1>2. IsFiniteSet(DOMAIN ix) /\ n >= Len(al) /\ n \in Nat
  BY FS_CardinalityType DEF IndexOK
<1>3. Len(AliasRefs) \in Nat /\ Len(al) \in Nat
  <2>1. al \in Seq(STRING) /\ AliasRefs \in Seq(STRING)
    BY DockerLabelsAssumption
  <2> QED
    BY <2>1
<1> HIDE DEF iy, n
<1>4. IsFiniteSet(DOMAIN iy) /\ Cardinality(DOMAIN iy) = n + 1
  BY <1>1, <1>2, FS_AddElement DEF n
<1>5. Cardinality(DOMAIN iy) >= Len(al)
  BY <1>2, <1>3, <1>4
<1>6. \A k \in DOMAIN al : al[k] \in DOMAIN iy /\ iy[al[k]] = k - 1
  BY <1>1 DEF IndexOK
<1>7. n \in Len(al)..(Len(AliasRefs) - 1)
  BY <1>2, <1>3 DEF n
<1>8. \A d \in DOMAIN iy : (\A k \in DOMAIN al : d # al[k]) => iy[d] \in Len(al)..(Len(AliasRefs) - 1)
  BY <1>1, <1>7 DEF IndexOK
<1> QED
  BY <1>1, <1>4, <1>5, <1>6, <1>8 DEF IndexOK, iy, n

LEMMA IndexStarts ==
  ASSUME NEW al \in AliasLists
  PROVE  LET A == {al[k] : k \in DOMAIN al}
             ix == [a \in A |-> (CHOOSE k \in DOMAIN al : al[k] = a) - 1]
         IN  IndexOK(ix, al) /\ Cardinality(DOMAIN ix) = Len(al)
<1> DEFINE A == {al[k] : k \in DOMAIN al}
           ix == [a \in A |-> (CHOOSE k \in DOMAIN al : al[k] = a) - 1]
<1>0. al \in Seq(STRING) /\ AliasRefs \in Seq(STRING)
  BY DockerLabelsAssumption
<1>1. DOMAIN al = 1..Len(al) /\ Len(al) \in Nat
  BY <1>0
<1>2. \A j, k \in DOMAIN al : al[j] = al[k] => j = k
  BY NameFacts
<1>3. DOMAIN ix = A /\ \A k \in DOMAIN al : al[k] \in A /\ ix[al[k]] = k - 1
  <2>1. \A k \in DOMAIN al : (CHOOSE j \in DOMAIN al : al[j] = al[k]) = k
    BY <1>2
  <2> QED
    BY <2>1
<1>4. IsFiniteSet(A) /\ Cardinality(A) = Len(al)
  <2> DEFINE f == [k \in 1..Len(al) |-> al[k]]
  <2>1. IsFiniteSet(1..Len(al)) /\ Cardinality(1..Len(al)) = Len(al)
    <3>1. /\ IsFiniteSet(1..Len(al))
          /\ Cardinality(1..Len(al)) = IF 1 > Len(al) THEN 0 ELSE Len(al) - 1 + 1
      BY <1>1, FS_Interval, SMTT(30)
    <3> QED
      BY <1>1, <3>1
  <2>2. f \in Bijection(1..Len(al), A)
    <3>1. f \in [1..Len(al) -> A]
      BY <1>1
    <3>2. \A a, b \in 1..Len(al) : f[a] = f[b] => a = b
      BY <1>1, <1>2
    <3>3. \A t \in A : \E s \in 1..Len(al) : f[s] = t
      BY <1>1
    <3> QED
      BY <3>1, <3>2, <3>3 DEF Bijection, Injection, Surjection, IsInjective
  <2>3. ExistsBijection(1..Len(al), A)
    BY <2>2 DEF ExistsBijection
  <2> QED
    BY <2>1, <2>3, FS_Bijection
<1>5. \A c \in DOMAIN ix : ~(\A k \in DOMAIN al : c # al[k])
  BY <1>3
<1> HIDE DEF ix, A
<1>6. IndexOK(ix, al)
  BY <1>1, <1>3, <1>4, <1>5 DEF IndexOK
<1> QED
  BY <1>3, <1>4, <1>6 DEF ix, A

-----------------------------------------------------------------------------
(* The second pass, for the alias k: labels of its name that are not left  *)
(* have become labels of its number, unless a wildcard overrides them.     *)
Converting(L, left, g, al, w, k) ==
  /\ \A l \in L : l.path[1] = al[k] => l \in g /\ (Suffix(l) = <<>> \/ l \in left)
  /\ \A l \in g : l.path[1] = al[k] /\ (Suffix(l) = <<>> \/ l \in left) => l \in L
  /\ \A l \in L : l.path[1] = AliasRefs[k] =>
       \E m \in g : /\ m.path[1] \in Names(al, k) /\ Suffix(m) = Suffix(l) /\ m.value = l.value
                    /\ Suffix(l) = <<>> => m = l
  /\ \A m \in g : m.path[1] = AliasRefs[k] => \E l \in L : l.path = m.path
  /\ \A m \in g : m.path[1] = al[k] /\ Suffix(m) # <<>> /\ m \notin left /\ Suffix(m) \notin DOMAIN w =>
       \E l \in L : l.path = <<AliasRefs[k]>> \o Suffix(m)
  /\ \A l, m \in L : l.path[1] \in Names(al, k) /\ l.path = m.path => l = m

(* After ExpandWildcard, for the alias k.                                  *)
RefsExpanded(L, g, al, w, k) ==
  /\ \A l \in L : l.path[1] = al[k] => l \in g /\ (Suffix(l) = <<>> \/ DOMAIN w = {})
  /\ \A l \in g : l.path[1] = al[k] /\ (Suffix(l) = <<>> \/ DOMAIN w = {}) => l \in L
  /\ \A l \in L : l.path[1] = AliasRefs[k] =>
       IF Suffix(l) \in DOMAIN w THEN l.value = w[Suffix(l)]
       ELSE \E m \in g : /\ m.path[1] \in Names(al, k) /\ Suffix(m) = Suffix(l) /\ m.value = l.value
                         /\ Suffix(l) = <<>> => m = l
  /\ \A m \in g : m.path[1] = AliasRefs[k] => \E l \in L : l.path = m.path
  /\ \A m \in g : m.path[1] = al[k] /\ Suffix(m) # <<>> /\ DOMAIN w # {} =>
       \E l \in L : l.path = <<AliasRefs[k]>> \o Suffix(m)
  /\ \A s \in DOMAIN w : \E l \in L : l.path = <<AliasRefs[k]>> \o s
  /\ \A l, m \in L : l.path[1] \in Names(al, k) /\ l.path = m.path => l = m

UniquePaths(g) == \A l, m \in g : l.path = m.path => l = m
WellFormed(L) == \A l \in L : l.path \in Paths /\ DOMAIN l.value # {}

LEMMA RefFacts ==
  ASSUME NEW al \in AliasLists, NEW k \in DOMAIN al, NEW ix, IndexOK(ix, al), NEW c \in DOMAIN ix
  PROVE  LET q == AliasRefs[ix[c] + 1] IN
         /\ q \in Parts /\ IsRef(q) /\ q # al[k] /\ (c = al[k] <=> q = AliasRefs[k])
<1> DEFINE i == ix[c] + 1
           q == AliasRefs[i]
<1>1. Len(al) \in Nat /\ Len(AliasRefs) \in Nat /\ k \in 1..Len(al) /\ DOMAIN AliasRefs = 1..Len(AliasRefs)
      /\ Len(al) <= Len(AliasRefs) /\ k \in DOMAIN AliasRefs
      /\ DOMAIN al = 1..Len(al) /\ ~IsRef(al[k]) /\ \A j \in DOMAIN AliasRefs : AliasRefs[j] = AliasRefs[k] => j = k
  <2>1. MaxLabels \in Nat
    BY DockerLabelsAssumption
  <2>2. Len(al) + MaxLabels <= Len(AliasRefs) /\ Len(al) \in Nat /\ Len(AliasRefs) \in Nat
    BY NameFacts
  <2>3. Len(al) <= Len(AliasRefs)
    BY <2>1, <2>2
  <2> QED
    BY <2>2, <2>3, NameFacts
<1>2. CASE \E j \in DOMAIN al : c = al[j]
  <2>1. PICK j \in DOMAIN al : c = al[j]
    BY <1>2
  <2>2. ix[c] = j - 1
    BY <2>1 DEF IndexOK
  <2>3. i = j /\ j \in DOMAIN AliasRefs
    BY <1>1, <2>1, <2>2
  <2>4. c = al[k] <=> j = k
    BY <2>1, NameFacts
  <2> QED
    BY <1>1, <2>3, <2>4, NameFacts DEF IsRef
<1>3. CASE \A j \in DOMAIN al : c # al[j]
  <2>1. ix[c] \in Len(al)..(Len(AliasRefs) - 1)
    BY <1>3 DEF IndexOK
  <2>2. i \in DOMAIN AliasRefs /\ i # k
    BY <1>1, <2>1
  <2>3. IsRef(q) /\ q # AliasRefs[k]
    BY <1>1, <2>2 DEF IsRef
  <2>4. q \in Parts
    <3>1. AliasRefs \in Seq(Parts)
      BY DockerLabelsAssumption DEF Parts
    <3> QED
      BY <2>2, <3>1
  <2> QED
    BY <1>1, <1>3, <2>3, <2>4
<1> QED
  BY <1>2, <1>3

(* A pass that does not touch the labels of an alias.                      *)
LEMMA ConvertOther ==
  ASSUME NEW L, NEW M, NEW left, NEW g, NEW al, NEW w, NEW k, NEW l, Converting(L, left, g, al, w, k),
         \A x \in L \cup M : x.path[1] \in Names(al, k) => (x \in L <=> x \in M),
         l.path[1] = al[k] => Suffix(l) = <<>>
  PROVE  Converting(M, left \ {l}, g, al, w, k)
<1>1. al[k] \in Names(al, k) /\ AliasRefs[k] \in Names(al, k)
  BY DEF Names
<1>2. \A x \in M : x.path[1] = al[k] => x \in g /\ (Suffix(x) = <<>> \/ x \in left \ {l})
  BY <1>1 DEF Converting
<1>3. \A x \in g : x.path[1] = al[k] /\ (Suffix(x) = <<>> \/ x \in left \ {l}) => x \in M
  BY <1>1 DEF Converting
<1>4. \A x \in M : x.path[1] = AliasRefs[k] =>
       \E m \in g : /\ m.path[1] \in Names(al, k) /\ Suffix(m) = Suffix(x) /\ m.value = x.value
                    /\ Suffix(x) = <<>> => m = x
  BY <1>1 DEF Converting
<1>5. \A m \in g : m.path[1] = AliasRefs[k] => \E x \in M : x.path = m.path
  BY <1>1 DEF Converting
<1>6. ASSUME NEW m \in g, m.path[1] = al[k], Suffix(m) # <<>>, m \notin left \ {l}, Suffix(m) \notin DOMAIN w
      PROVE  \E x \in M : x.path = <<AliasRefs[k]>> \o Suffix(m)
  <2>1. m \notin left
    BY <1>6
  <2>2. PICK x \in L : x.path = <<AliasRefs[k]>> \o Suffix(m)
    BY <1>6, <2>1 DEF Converting
  <2>3. x.path[1] = AliasRefs[k]
    BY <2>2
  <2> QED
    BY <1>1, <2>2, <2>3
<1>7. \A x, m \in M : x.path[1] \in Names(al, k) /\ x.path = m.path => x = m
  BY DEF Converting
<1> QED
  BY <1>2, <1>3, <1>4, <1>5, <1>6, <1>7 DEF Converting

(* The labels that a pass leaves after a label of the alias itself.        *)
Renamed(L, l, q) ==
  {m \in L \ {l} : m.path # <<q>> \o Suffix(l)} \cup {[path |-> <<q>> \o Suffix(l), value |-> l.value]}

LEMMA ConvertMine ==
  ASSUME NEW L, NEW left, NEW g \in SUBSET Labels, NEW al \in AliasLists, NEW w, NEW k \in DOMAIN al, NEW l \in g,
         Converting(L, left, g, al, w, k), WellFormed(L), UniquePaths(g),
         l.path[1] = al[k], Suffix(l) # <<>>, Suffix(l) \notin DOMAIN w
  PROVE  Converting(Renamed(L, l, AliasRefs[k]), left \ {l}, g, al, w, k)
<1> DEFINE a == al[k]
           r == AliasRefs[k]
           ref == [path |-> <<r>> \o Suffix(l), value |-> l.value]
           M == Renamed(L, l, r)
<1>1. a # r /\ r \in Parts /\ a \in Names(al, k) /\ r \in Names(al, k) /\ \A h \in Names(al, k) : h = a \/ h = r
  BY NameFacts DEF Names
<1>2. l.path \in Paths /\ Suffix(l) \in Seq(Parts)
  BY LabelFacts, PathFacts DEF Suffix
<1>3. ref.path \in Paths /\ ref.path[1] = r /\ Suffix(ref) = Suffix(l) /\ ref.value = l.value
  BY <1>1, <1>2, JoinFacts DEF Suffix
<1>4. \A x : x \in M <=> (x \in L /\ x # l /\ x.path # ref.path) \/ x = ref
  BY DEF Renamed
<1>5. l.path[1] # r
  BY <1>1
<1> HIDE DEF ref, M, a, r
<1>6. \A x \in M : x.path[1] = a => x \in g /\ (Suffix(x) = <<>> \/ x \in left \ {l})
  BY <1>1, <1>3, <1>4 DEF Converting, a, r
<1>7. \A x \in g : x.path[1] = a /\ (Suffix(x) = <<>> \/ x \in left \ {l}) => x \in M
  BY <1>1, <1>3, <1>4 DEF Converting, a, r
<1>8. \A x \in M : x.path[1] = r =>
       \E m \in g : /\ m.path[1] \in Names(al, k) /\ Suffix(m) = Suffix(x) /\ m.value = x.value
                    /\ Suffix(x) = <<>> => m = x
  <2> SUFFICES ASSUME NEW x \in M, x.path[1] = r
               PROVE  \E m \in g : /\ m.path[1] \in Names(al, k) /\ Suffix(m) = Suffix(x) /\ m.value = x.value
                                   /\ Suffix(x) = <<>> => m = x
    OBVIOUS
  <2>1. CASE x = ref
    <3>1. l.path[1] \in Names(al, k)
      BY <1>1 DEF a
    <3> QED
      BY <1>3, <2>1, <3>1
  <2>2. CASE x # ref
    BY <1>4, <2>2 DEF Converting, r
  <2> QED
    BY <2>1, <2>2
<1>9. ASSUME NEW m \in g, m.path[1] = r PROVE \E x \in M : x.path = m.path
  <2>1. PICK x \in L : x.path = m.path
    BY <1>9 DEF Converting, r
  <2>2. x # l
    BY <1>5, <1>9, <2>1
  <2> QED
    BY <1>4, <2>1, <2>2
<1>10. ASSUME NEW m \in g, m.path[1] = a, Suffix(m) # <<>>, m \notin left \ {l}, Suffix(m) \notin DOMAIN w
      PROVE  \E x \in M : x.path = <<r>> \o Suffix(m)
  <2>1. CASE m = l
    BY <1>4, <2>1 DEF ref
  <2>2. CASE m # l
    <3>1. m \notin left
      BY <1>10, <2>2
    <3>2. PICK x \in L : x.path = <<r>> \o Suffix(m)
      BY <1>10, <3>1 DEF Converting, a, r
    <3>3. Suffix(m) \in Seq(Parts)
      BY LabelFacts, PathFacts DEF Suffix
    <3>4. x.path[1] = r
      BY <1>1, <3>2, <3>3, JoinFacts
    <3>5. x # l
      BY <1>5, <3>4
    <3> QED
      BY <1>4, <3>2, <3>5
  <2> QED
    BY <2>1, <2>2
<1>11. \A x, m \in M : x.path[1] \in Names(al, k) /\ x.path = m.path => x = m
  BY <1>4 DEF Converting
<1> QED
  BY <1>6, <1>7, <1>8, <1>9, <1>10, <1>11 DEF Converting, a, r, M

LEMMA ConvertOverridden ==
  ASSUME NEW L, NEW left, NEW g, NEW al \in AliasLists, NEW w, NEW k \in DOMAIN al, NEW l \in g,
         Converting(L, left, g, al, w, k), l.path[1] = al[k], Suffix(l) # <<>>, Suffix(l) \in DOMAIN w
  PROVE  Converting(L \ {l}, left \ {l}, g, al, w, k)
<1>1. al[k] # AliasRefs[k]
  BY NameFacts
<1>2. \A x \in L \ {l} : x.path[1] = al[k] => x \in g /\ (Suffix(x) = <<>> \/ x \in left \ {l})
  BY DEF Converting
<1>3. \A x \in g : x.path[1] = al[k] /\ (Suffix(x) = <<>> \/ x \in left \ {l}) => x \in L \ {l}
  BY DEF Converting
<1>4. \A x \in L \ {l} : x.path[1] = AliasRefs[k] =>
       \E m \in g : /\ m.path[1] \in Names(al, k) /\ Suffix(m) = Suffix(x) /\ m.value = x.value
                    /\ Suffix(x) = <<>> => m = x
  BY DEF Converting
<1>5. \A m \in g : m.path[1] = AliasRefs[k] => \E x \in L \ {l} : x.path = m.path
  BY <1>1 DEF Converting
<1>6. ASSUME NEW m \in g, m.path[1] = al[k], Suffix(m) # <<>>, m \notin left \ {l}, Suffix(m) \notin DOMAIN w
      PROVE  \E x \in L \ {l} : x.path = <<AliasRefs[k]>> \o Suffix(m)
  <2>1. m \notin left
    BY <1>6
  <2>2. PICK x \in L : x.path = <<AliasRefs[k]>> \o Suffix(m)
    BY <1>6, <2>1 DEF Converting
  <2>3. x.path[1] = AliasRefs[k]
    BY <2>2
  <2> QED
    BY <1>1, <2>2, <2>3
<1>7. \A x, m \in L \ {l} : x.path[1] \in Names(al, k) /\ x.path = m.path => x = m
  BY DEF Converting
<1> QED
  BY <1>2, <1>3, <1>4, <1>5, <1>6, <1>7 DEF Converting

(* Where the passes start, without and with wildcards.                     *)
LEMMA ConvertStarts ==
  ASSUME NEW g \in SUBSET Labels, NEW al \in AliasLists, NEW w, NEW k \in DOMAIN al, UniquePaths(g)
  PROVE  LET L == {l \in g : ~IsWild(l)} IN
         /\ Converting(L, L, g, al, w, k)
         /\ DOMAIN w = {} => RefsExpanded(L, g, al, w, k)
<1> DEFINE L == {l \in g : ~IsWild(l)}
<1>1. al[k] # Wildcard /\ AliasRefs[k] # Wildcard
  BY NameFacts
<1>2. \A l \in g : l.path[1] \in {al[k], AliasRefs[k]} => l \in L
  BY <1>1 DEF IsWild
<1>3. L \subseteq g /\ AliasRefs[k] \in Names(al, k)
  BY DEF Names
<1> HIDE DEF L
<1>4. Converting(L, L, g, al, w, k)
  BY <1>2, <1>3 DEF Converting, UniquePaths
<1>5. DOMAIN w = {} => RefsExpanded(L, g, al, w, k)
  BY <1>2, <1>3 DEF RefsExpanded, UniquePaths
<1> QED
  BY <1>4, <1>5 DEF L

SpreadOf(ix, w) ==
  {[path |-> <<AliasRefs[ix[p[1]] + 1]>> \o p[2], value |-> w[p[2]]] : p \in (DOMAIN ix) \X (DOMAIN w)}
SpreadLabel(ix, w, c, t) == [path |-> <<AliasRefs[ix[c] + 1]>> \o t, value |-> w[t]]

LEMMA SpreadHas ==
  ASSUME NEW ix, NEW w, NEW c \in DOMAIN ix, NEW t \in DOMAIN w
  PROVE  SpreadLabel(ix, w, c, t) \in SpreadOf(ix, w)
<1>1. <<c, t>> \in (DOMAIN ix) \X (DOMAIN w) /\ <<c, t>>[1] = c /\ <<c, t>>[2] = t
  OBVIOUS
<1> QED
  BY <1>1, Zenon DEF SpreadOf, SpreadLabel

LEMMA SpreadOnly ==
  ASSUME NEW ix, NEW w, NEW m \in SpreadOf(ix, w)
  PROVE  \E c \in DOMAIN ix : \E t \in DOMAIN w : m = SpreadLabel(ix, w, c, t)
<1>1. PICK p \in (DOMAIN ix) \X (DOMAIN w) : m = [path |-> <<AliasRefs[ix[p[1]] + 1]>> \o p[2], value |-> w[p[2]]]
  BY Zenon DEF SpreadOf
<1> QED
  BY <1>1 DEF SpreadLabel

LEMMA SpreadFacts ==
  ASSUME NEW al \in AliasLists, NEW k \in DOMAIN al, NEW ix, IndexOK(ix, al), NEW w, DOMAIN w \subseteq Seq(Parts)
  PROVE  /\ \A m \in SpreadOf(ix, w) :
              /\ m.path \in Paths /\ m.path[1] # al[k]
              /\ m.path[1] = AliasRefs[k] => Suffix(m) \in DOMAIN w /\ m.value = w[Suffix(m)]
         /\ \A s \in DOMAIN w : \E m \in SpreadOf(ix, w) : m.path = <<AliasRefs[k]>> \o s
         /\ \A m \in SpreadOf(ix, w) : \E s \in DOMAIN w : m.value = w[s]
<1>1. ASSUME NEW m \in SpreadOf(ix, w)
      PROVE  /\ m.path \in Paths /\ m.path[1] # al[k]
             /\ m.path[1] = AliasRefs[k] => Suffix(m) \in DOMAIN w /\ m.value = w[Suffix(m)]
             /\ \E s \in DOMAIN w : m.value = w[s]
  <2>1. PICK c \in DOMAIN ix : \E t \in DOMAIN w : m = SpreadLabel(ix, w, c, t)
    BY SpreadOnly
  <2>1a. PICK s \in DOMAIN w : m = SpreadLabel(ix, w, c, s)
    BY <2>1
  <2> DEFINE q == AliasRefs[ix[c] + 1]
  <2>2. q \in Parts /\ q # al[k]
    BY RefFacts
  <2> HIDE DEF q
  <2>3. m.path = <<q>> \o s /\ m.value = w[s]
    BY <2>1a DEF q, SpreadLabel
  <2>4. m.path \in Paths /\ m.path[1] = q /\ Suffix(m) = s
    BY <2>2, <2>3, JoinFacts DEF Suffix
  <2> QED
    BY <2>2, <2>3, <2>4
<1>2. ASSUME NEW s \in DOMAIN w PROVE \E m \in SpreadOf(ix, w) : m.path = <<AliasRefs[k]>> \o s
  <2>1. al[k] \in DOMAIN ix /\ AliasRefs[ix[al[k]] + 1] = AliasRefs[k]
    BY RefFacts DEF IndexOK
  <2> DEFINE m == SpreadLabel(ix, w, al[k], s)
  <2>2. m \in SpreadOf(ix, w)
    BY <2>1, SpreadHas
  <2>3. m.path = <<AliasRefs[k]>> \o s
    BY <2>1 DEF SpreadLabel
  <2> QED
    BY <2>2, <2>3
<1> QED
  BY <1>1, <1>2

LEMMA SpreadExpands ==
  ASSUME NEW g \in SUBSET Labels, NEW al \in AliasLists, NEW w, NEW k \in DOMAIN al, NEW ix, IndexOK(ix, al), NEW L,
         Converting(L, {}, g, al, w, k), WellFormed(L), DOMAIN w \subseteq Seq(Parts), <<>> \notin DOMAIN w, DOMAIN w # {}
  PROVE  RefsExpanded(Spread(L, SpreadOf(ix, w)), g, al, w, k)
<1> DEFINE a == al[k]
           r == AliasRefs[k]
           S == SpreadOf(ix, w)
           M == Spread(L, S)
<1>1. a # r /\ r \in Parts /\ a \in Names(al, k) /\ r \in Names(al, k) /\ \A h \in Names(al, k) : h = a \/ h = r
  BY NameFacts DEF Names
<1>0. /\ \A m \in SpreadOf(ix, w) :
           /\ m.path \in Paths /\ m.path[1] # al[k]
           /\ m.path[1] = AliasRefs[k] => Suffix(m) \in DOMAIN w /\ m.value = w[Suffix(m)]
      /\ \A s \in DOMAIN w : \E m \in SpreadOf(ix, w) : m.path = <<AliasRefs[k]>> \o s
  <2>1. al \in AliasLists /\ k \in DOMAIN al /\ IndexOK(ix, al) /\ DOMAIN w \subseteq Seq(Parts)
    OBVIOUS
  <2> QED
    BY ONLY <2>1, SpreadFacts
<1>2. \A m \in S : /\ m.path \in Paths /\ m.path[1] # a
                   /\ m.path[1] = r => Suffix(m) \in DOMAIN w /\ m.value = w[Suffix(m)]
  BY <1>0, Zenon
<1>3. \A s \in DOMAIN w : \E m \in S : m.path = <<r>> \o s
  BY <1>0, Zenon
<1>4. \A x : x \in M <=> x \in S \/ (x \in L /\ \A m \in S : m.path # x.path)
  BY DEF Spread
<1> HIDE DEF S, M, a, r
<1>5. \A x \in M : x.path[1] = a => x \in g /\ (Suffix(x) = <<>> \/ DOMAIN w = {})
  BY <1>2, <1>4 DEF Converting, a
<1>6. \A x \in g : x.path[1] = a /\ (Suffix(x) = <<>> \/ DOMAIN w = {}) => x \in M
  BY <1>2, <1>4 DEF Converting, a
<1>7. ASSUME NEW x \in M, x.path[1] = r
      PROVE  IF Suffix(x) \in DOMAIN w THEN x.value = w[Suffix(x)]
             ELSE \E m \in g : /\ m.path[1] \in Names(al, k) /\ Suffix(m) = Suffix(x) /\ m.value = x.value
                               /\ Suffix(x) = <<>> => m = x
  <2>1. CASE x \in S
    BY <1>2, <1>7, <2>1
  <2>2. CASE x \notin S
    <3>1. x \in L /\ \A m \in S : m.path # x.path
      BY <1>4, <2>2
    <3>2. x.path = <<r>> \o Suffix(x)
      BY <1>7, <3>1, PathFacts DEF WellFormed, Suffix
    <3>3. Suffix(x) \notin DOMAIN w
      BY <1>3, <3>1, <3>2
    <3> QED
      BY <1>7, <3>1, <3>3 DEF Converting, r
  <2> QED
    BY <2>1, <2>2
<1>8. ASSUME NEW x \in L PROVE \E m \in M : m.path = x.path
  BY <1>4
<1>9. \A m \in g : m.path[1] = r => \E x \in M : x.path = m.path
  BY <1>8 DEF Converting, r
<1>10. ASSUME NEW s \in DOMAIN w PROVE \E x \in M : x.path = <<r>> \o s
  BY <1>3, <1>4
<1>11. ASSUME NEW m \in g, m.path[1] = a, Suffix(m) # <<>> PROVE \E x \in M : x.path = <<r>> \o Suffix(m)
  <2>1. CASE Suffix(m) \in DOMAIN w
    BY <1>10, <2>1
  <2>2. CASE Suffix(m) \notin DOMAIN w
    <3>1. \E x \in L : x.path = <<r>> \o Suffix(m)
      BY <1>11, <2>2 DEF Converting, a, r
    <3> QED
      BY <1>8, <3>1
  <2> QED
    BY <2>1, <2>2
<1>12. ASSUME NEW x \in M, NEW m \in M, x.path[1] \in Names(al, k), x.path = m.path PROVE x = m
  <2>1. CASE x \in S /\ m \in S
    <3>1. x.path[1] = r
      BY <1>1, <1>2, <1>12, <2>1
    <3>2. Suffix(x) = Suffix(m)
      BY <1>12 DEF Suffix
    <3>3. x.value = m.value
      BY <1>2, <1>12, <2>1, <3>1, <3>2
    <3>4. \A y \in S : y = [path |-> y.path, value |-> y.value]
      <4> SUFFICES ASSUME NEW y \in S PROVE y = [path |-> y.path, value |-> y.value]
        OBVIOUS
      <4>1. \E c \in DOMAIN ix : \E t \in DOMAIN w : y = SpreadLabel(ix, w, c, t)
        BY SpreadOnly DEF S
      <4> QED
        BY <4>1 DEF SpreadLabel
    <3> QED
      BY <1>12, <2>1, <3>3, <3>4
  <2>2. CASE ~(x \in S /\ m \in S)
    BY <1>4, <1>12, <2>2 DEF Converting
  <2> QED
    BY <2>1, <2>2
<1> QED
  BY <1>5, <1>6, <1>7, <1>9, <1>10, <1>11, <1>12 DEF RefsExpanded, a, r, M, S

-----------------------------------------------------------------------------
(* ParseLabels: the nested map below a name h is the tree of the labels D  *)
(* that are done, and the first parts of the one under way.                *)
ClearOf(g, al) ==
  \A k \in DOMAIN al : \A l, m \in g :
    l.path[1] \in Names(al, k) \cup {Wildcard} /\ m.path[1] \in Names(al, k) \cup {Wildcard} =>
      \A s \in Places(l), t \in Places(m) : ~Below(s, t)

PrefixFree(L, h) == \A l, m \in L : l.path[1] = h /\ m.path[1] = h => ~Below(l.path, m.path)

LEMMA ClearIsPrefixFree ==
  ASSUME NEW g \in SUBSET Labels, NEW al \in AliasLists, NEW w, NEW k \in DOMAIN al, NEW L, NEW h \in Names(al, k),
         WildOK(w, g), RefsExpanded(L, g, al, w, k), WellFormed(L), ClearOf(g, al)
  PROVE  PrefixFree(L, h)
<1>1. Wildcard \notin Names(al, k) /\ \A x \in Names(al, k) : x = al[k] \/ x = AliasRefs[k]
  BY NameFacts DEF Names
<1>2. ASSUME NEW x \in g, x.path[1] \in Names(al, k) PROVE Places(x) = {Suffix(x)}
  BY <1>1, <1>2 DEF Places
<1>3. ASSUME NEW l \in L, l.path[1] \in Names(al, k)
      PROVE  \E x \in g : x.path[1] \in Names(al, k) \cup {Wildcard} /\ Suffix(l) \in Places(x)
  <2>1. CASE l.path[1] = al[k]
    <3>1. l \in g
      BY <2>1 DEF RefsExpanded
    <3> QED
      BY <1>2, <1>3, <3>1
  <2>2. CASE l.path[1] = AliasRefs[k] /\ Suffix(l) \in DOMAIN w
    <3>1. PICK x \in g : IsWild(x) /\ Suffix(l) \in DOMAIN Sets(x)
      BY <2>2 DEF WildOK
    <3> QED
      BY <3>1 DEF IsWild, Places
  <2>3. CASE l.path[1] = AliasRefs[k] /\ Suffix(l) \notin DOMAIN w
    <3>1. PICK m \in g : m.path[1] \in Names(al, k) /\ Suffix(m) = Suffix(l)
      BY <2>3 DEF RefsExpanded
    <3> QED
      BY <1>2, <3>1
  <2> QED
    BY <1>1, <1>3, <2>1, <2>2, <2>3
<1> SUFFICES ASSUME NEW l \in L, NEW m \in L, l.path[1] = h, m.path[1] = h, Below(l.path, m.path) PROVE FALSE
  BY DEF PrefixFree
<1>4. Below(Suffix(l), Suffix(m))
  BY BelowTail DEF WellFormed, Suffix
<1>5. PICK x \in g : x.path[1] \in Names(al, k) \cup {Wildcard} /\ Suffix(l) \in Places(x)
  BY <1>3
<1>6. PICK y \in g : y.path[1] \in Names(al, k) \cup {Wildcard} /\ Suffix(m) \in Places(y)
  BY <1>3
<1> QED
  BY <1>4, <1>5, <1>6 DEF ClearOf

TreeOK(N, h, D, C) ==
  /\ \A l \in D : l.path[1] = h => l.path \in DOMAIN N /\ N[l.path] = l.value /\ <<h>> \in DOMAIN N
  /\ \A n \in DOMAIN N : n[1] = h =>
       \/ \E l \in D : n = l.path /\ N[n] = l.value
       \/ N[n] = Node /\ \E l \in D \cup C : Below(n, l.path)

LEMMA TreeStarts ==
  ASSUME NEW h
  PROVE  TreeOK(<<>>, h, {}, {})
<1>1. DOMAIN <<>> = {}
  OBVIOUS
<1> QED
  BY <1>1 DEF TreeOK

LEMMA TreeBegins ==
  ASSUME NEW N, NEW h, NEW D, NEW l, TreeOK(N, h, D, {})
  PROVE  TreeOK(N, h, D, {l})
BY DEF TreeOK

(* What happens elsewhere.                                                 *)
Elsewhere(N, M, h) ==
  /\ \A n \in DOMAIN N : n[1] = h => n \in DOMAIN M
  /\ \A n \in DOMAIN M : n[1] = h => n \in DOMAIN N /\ M[n] = N[n]

LEMMA TreeElsewhere ==
  ASSUME NEW N, NEW M, NEW h, NEW D, NEW C, TreeOK(N, h, D, C), Elsewhere(N, M, h)
  PROVE  TreeOK(M, h, D, C)
<1>1. <<h>>[1] = h
  OBVIOUS
<1>2. ASSUME NEW l \in D, l.path[1] = h PROVE l.path \in DOMAIN M /\ M[l.path] = l.value /\ <<h>> \in DOMAIN M
  BY <1>1, <1>2 DEF TreeOK, Elsewhere
<1>3. \A n \in DOMAIN M : n[1] = h =>
       \/ \E l \in D : n = l.path /\ M[n] = l.value
       \/ M[n] = Node /\ \E l \in D \cup C : Below(n, l.path)
  BY DEF TreeOK, Elsewhere
<1> QED
  BY <1>2, <1>3 DEF TreeOK

(* A label of another name is done.                                        *)
LEMMA TreeOther ==
  ASSUME NEW N, NEW h, NEW D, NEW l, TreeOK(N, h, D, {l}), l.path[1] # h, l.path \in Paths, DOMAIN N \subseteq Paths
  PROVE  TreeOK(N, h, D \cup {l}, {})
<1>1. \A n \in DOMAIN N : n[1] = h => ~Below(n, l.path)
  BY BelowHead
<1> QED
  BY <1>1 DEF TreeOK

(* A part of the label of this name: it is there already, or is made.      *)
LEMMA TreeWalk ==
  ASSUME NEW N, NEW h, NEW D, NEW l, NEW n, TreeOK(N, h, D, {l}), Below(n, l.path), n \in Paths, l.path \in Paths,
         l.path[1] = h, PrefixFree(D \cup {l}, h)
  PROVE  /\ n \in DOMAIN N => N[n] = Node
         /\ n \notin DOMAIN N => TreeOK(Put(N, n, Node), h, D, {l})
<1>1. n[1] = h
  BY BelowHead
<1>2. ASSUME n \in DOMAIN N PROVE N[n] = Node
  <2>1. ASSUME NEW m \in D, n = m.path PROVE FALSE
    BY <1>1, <2>1 DEF PrefixFree
  <2> QED
    BY <1>1, <1>2, <2>1 DEF TreeOK
<1>3. ASSUME n \notin DOMAIN N PROVE TreeOK(Put(N, n, Node), h, D, {l})
  <2> DEFINE M == Put(N, n, Node)
  <2>1. DOMAIN M = DOMAIN N \cup {n} /\ M[n] = Node /\ \A x \in DOMAIN N : M[x] = N[x]
    BY <1>3 DEF Put
  <2> HIDE DEF M
  <2>2. \A m \in D : m.path[1] = h => m.path \in DOMAIN M /\ M[m.path] = m.value /\ <<h>> \in DOMAIN M
    BY <2>1 DEF TreeOK
  <2>3. ASSUME NEW x \in DOMAIN M, x[1] = h
        PROVE  \/ \E m \in D : x = m.path /\ M[x] = m.value
               \/ M[x] = Node /\ \E m \in D \cup {l} : Below(x, m.path)
    <3>1. CASE x = n
      BY <2>1, <3>1
    <3>2. CASE x \in DOMAIN N
      BY <2>1, <2>3, <3>2 DEF TreeOK
    <3> QED
      BY <2>1, <3>1, <3>2
  <2> QED
    BY <2>2, <2>3 DEF TreeOK, M
<1> QED
  BY <1>2, <1>3

(* The last part of the label: nothing is cut, and nothing overwritten.    *)
Kept(N, n) == [x \in {y \in DOMAIN N : ~Below(n, y)} |-> N[x]]

LEMMA TreeSet ==
  ASSUME NEW N, NEW h, NEW D, NEW l, TreeOK(N, h, D, {l}), l.path \in Paths, DOMAIN N \subseteq Paths,
         l.path[1] = h, PrefixFree(D \cup {l}, h), \A m \in D : m.path \in Paths /\ m.path # l.path,
         Len(l.path) > 1 => <<h>> \in DOMAIN N
  PROVE  TreeOK(Put(Kept(N, l.path), l.path, l.value), h, D \cup {l}, {})
<1> DEFINE p == l.path
           M == Put(Kept(N, p), p, l.value)
<1>1. ASSUME NEW y \in DOMAIN N, y[1] = h PROVE ~Below(p, y)
  <2> SUFFICES ASSUME Below(p, y) PROVE FALSE
    OBVIOUS
  <2>1. y \in Paths
    OBVIOUS
  <2>2. CASE \E m \in D : y = m.path
    BY <1>1, <2>2 DEF PrefixFree
  <2>3. CASE \E m \in D \cup {l} : Below(y, m.path)
    <3>1. PICK m \in D \cup {l} : Below(y, m.path)
      BY <2>3
    <3>2. m.path \in Paths
      OBVIOUS
    <3>3. Below(p, m.path) /\ m.path[1] = h
      BY <1>1, <2>1, <3>1, <3>2, BelowTrans, BelowHead
    <3> QED
      BY <3>3 DEF PrefixFree
  <2> QED
    BY <1>1, <2>2, <2>3 DEF TreeOK
<1>2. DOMAIN M = {y \in DOMAIN N : ~Below(p, y)} \cup {p} /\ M[p] = l.value
      /\ \A x \in DOMAIN M : x # p => M[x] = N[x]
  BY DEF Put, Kept
<1> HIDE DEF M
<1>3. \A y \in DOMAIN N : y[1] = h => y \in DOMAIN M
  BY <1>1, <1>2
<1>4. <<h>> \in DOMAIN M
  <2>1. CASE Len(p) > 1
    <3>1. <<h>>[1] = h
      OBVIOUS
    <3> QED
      BY <1>3, <2>1, <3>1
  <2>2. CASE ~(Len(p) > 1)
    <3>1. Len(p) = 1 /\ p \in Seq(Parts) /\ p[1] = h
      BY <2>2, PathFacts DEF Paths
    <3>2. p = <<h>>
      BY <3>1
    <3> QED
      BY <1>2, <3>2
  <2> QED
    BY <2>1, <2>2
<1>5. ASSUME NEW m \in D \cup {l}, m.path[1] = h PROVE m.path \in DOMAIN M /\ M[m.path] = m.value /\ <<h>> \in DOMAIN M
  <2>1. CASE m = l
    BY <1>2, <1>4, <2>1
  <2>2. CASE m \in D
    <3>1. m.path \in DOMAIN N /\ N[m.path] = m.value /\ m.path # p
      BY <1>5, <2>2 DEF TreeOK
    <3> QED
      BY <1>2, <1>3, <1>4, <1>5, <3>1
  <2> QED
    BY <2>1, <2>2
<1>6. ASSUME NEW x \in DOMAIN M, x[1] = h
      PROVE  \/ \E m \in D \cup {l} : x = m.path /\ M[x] = m.value
             \/ M[x] = Node /\ \E m \in (D \cup {l}) \cup {} : Below(x, m.path)
  <2>1. CASE x = p
    BY <1>2, <2>1
  <2>2. CASE x # p
    <3>1. x \in DOMAIN N /\ M[x] = N[x]
      BY <1>2, <2>2
    <3> QED
      BY <1>6, <3>1 DEF TreeOK
  <2> QED
    BY <2>1, <2>2
<1> QED
  BY <1>5, <1>6 DEF TreeOK, M

-----------------------------------------------------------------------------
(* The routes: the entries below the names of an alias that are not left.  *)
EntryIn(N, h) ==
  IF N[<<h>>] # Node THEN Flatten(N[<<h>>])
  ELSE [s \in {Tail(n) : n \in {x \in DOMAIN N : Below(<<h>>, x) /\ N[x] # Node}} |-> N[<<h>> \o s]]

RoutesOK(R, N, left, al) ==
  /\ \A x \in DOMAIN R : ~IsRef(x)
  /\ \A k \in DOMAIN al : al[k] \in DOMAIN R
  /\ \A k \in DOMAIN al : \A s \in DOMAIN R[al[k]] : \E h \in Names(al, k) :
       <<h>> \in DOMAIN N /\ <<h>> \notin left /\ s \in DOMAIN EntryIn(N, h) /\ R[al[k]][s] = EntryIn(N, h)[s]
  /\ \A k \in DOMAIN al : \A h \in Names(al, k) :
       <<h>> \in DOMAIN N /\ <<h>> \notin left => DOMAIN EntryIn(N, h) \subseteq DOMAIN R[al[k]]

LEMMA RoutesStart ==
  ASSUME NEW N, NEW al \in AliasLists
  PROVE  RoutesOK([a \in {al[k] : k \in DOMAIN al} |-> <<>>], N, {n \in DOMAIN N : Len(n) = 1}, al)
<1> DEFINE R == [a \in {al[k] : k \in DOMAIN al} |-> <<>>]
           left == {n \in DOMAIN N : Len(n) = 1}
<1>1. \A k \in DOMAIN al : al[k] \in DOMAIN R /\ DOMAIN R[al[k]] = {}
  OBVIOUS
<1>2. \A x \in DOMAIN R : ~IsRef(x)
  BY NameFacts
<1>3. \A h : <<h>> \in DOMAIN N => <<h>> \in left
  OBVIOUS
<1> HIDE DEF R, left
<1>4. RoutesOK(R, N, left, al)
  BY <1>1, <1>2, <1>3 DEF RoutesOK
<1> QED
  BY <1>4 DEF R, left

LEMMA RoutesStep ==
  ASSUME NEW R, NEW N, NEW left, NEW al \in AliasLists, NEW name, NEW alias, NEW old, RoutesOK(R, N, left, al),
         <<name>> \in DOMAIN N, ~IsRef(alias), alias \in DOMAIN R => old = R[alias],
         \A k \in DOMAIN al : name \in Names(al, k) <=> alias = al[k]
  PROVE  RoutesOK(Put(R, alias, Over(old, EntryIn(N, name))), N, left \ {<<name>>}, al)
<1> DEFINE E == EntryIn(N, name)
           new == Over(old, E)
           Q == Put(R, alias, new)
           rest == left \ {<<name>>}
<1>1. DOMAIN new = DOMAIN old \cup DOMAIN E /\ \A s \in DOMAIN new : new[s] = IF s \in DOMAIN E THEN E[s] ELSE old[s]
  BY DEF Over
<1>2. DOMAIN Q = DOMAIN R \cup {alias} /\ Q[alias] = new /\ \A x \in DOMAIN R : x # alias => Q[x] = R[x]
  BY DEF Put
<1>3. \A h : <<h>> \in rest <=> <<h>> \in left /\ h # name
  OBVIOUS
<1> HIDE DEF E, new, Q, rest
<1>4. \A x \in DOMAIN Q : ~IsRef(x)
  BY <1>2 DEF RoutesOK
<1>5. \A k \in DOMAIN al : al[k] \in DOMAIN R /\ al[k] \in DOMAIN Q
  BY <1>2 DEF RoutesOK
<1>6. ASSUME NEW k \in DOMAIN al, NEW s \in DOMAIN Q[al[k]]
      PROVE  \E h \in Names(al, k) :
               <<h>> \in DOMAIN N /\ <<h>> \notin rest /\ s \in DOMAIN EntryIn(N, h) /\ Q[al[k]][s] = EntryIn(N, h)[s]
  <2>1. CASE alias = al[k] /\ s \in DOMAIN E
    <3>1. name \in Names(al, k) /\ Q[al[k]][s] = E[s]
      BY <1>1, <1>2, <2>1
    <3> QED
      BY <1>3, <2>1, <3>1 DEF E
  <2>2. CASE ~(alias = al[k] /\ s \in DOMAIN E)
    <3>1. s \in DOMAIN R[al[k]] /\ Q[al[k]][s] = R[al[k]][s]
      BY <1>1, <1>2, <1>5, <1>6, <2>2
    <3>2. PICK h \in Names(al, k) :
            <<h>> \in DOMAIN N /\ <<h>> \notin left /\ s \in DOMAIN EntryIn(N, h) /\ R[al[k]][s] = EntryIn(N, h)[s]
      BY <3>1 DEF RoutesOK
    <3> QED
      BY <1>3, <3>1, <3>2
  <2> QED
    BY <2>1, <2>2
<1>7. ASSUME NEW k \in DOMAIN al, NEW h \in Names(al, k), <<h>> \in DOMAIN N, <<h>> \notin rest
      PROVE  DOMAIN EntryIn(N, h) \subseteq DOMAIN Q[al[k]]
  <2>1. CASE alias = al[k]
    <3>1. DOMAIN Q[al[k]] = DOMAIN R[al[k]] \cup DOMAIN E
      BY <1>1, <1>2, <1>5, <2>1
    <3> QED
      BY <1>3, <1>7, <3>1 DEF RoutesOK, E
  <2>2. CASE alias # al[k]
    <3>1. Q[al[k]] = R[al[k]] /\ h # name
      BY <1>2, <1>5, <1>7, <2>2
    <3> QED
      BY <1>3, <1>7, <3>1 DEF RoutesOK
  <2> QED
    BY <2>1, <2>2
<1> QED
  BY <1>4, <1>5, <1>6, <1>7 DEF RoutesOK, Q, new, E, rest

(* The entry below a name, from the labels of the name.                    *)
LEMMA EntryFacts ==
  ASSUME NEW N, NEW L, NEW h \in Parts, TreeOK(N, h, L, {}), PrefixFree(L, h), WellFormed(L), DOMAIN N \subseteq Paths
  PROVE  /\ <<h>> \in DOMAIN N => \A s \in DOMAIN EntryIn(N, h) : \E l \in L :
              /\ l.path[1] = h
              /\ \/ Suffix(l) = <<>> /\ s \in DOMAIN Flatten(l.value) /\ EntryIn(N, h)[s] = Flatten(l.value)[s]
                 \/ Suffix(l) = s /\ s # <<>> /\ EntryIn(N, h)[s] = l.value
         /\ \A l \in L : l.path[1] = h =>
              /\ <<h>> \in DOMAIN N
              /\ Suffix(l) # <<>> => Suffix(l) \in DOMAIN EntryIn(N, h)
              /\ Suffix(l) = <<>> => DOMAIN Flatten(l.value) \subseteq DOMAIN EntryIn(N, h)
<1>0. <<h>> \in Paths /\ Len(<<h>>) = 1 /\ <<h>>[1] = h /\ Tail(<<h>>) = <<>>
  <2>1. <<>> \in Seq(Parts) /\ <<h>> = <<h>> \o <<>>
    OBVIOUS
  <2> QED
    BY <2>1, JoinFacts
<1>1. \A l \in L : l.path \in Paths /\ DOMAIN l.value # {}
  BY DEF WellFormed
<1>2. \A l \in L : l.value # Node
  <2>1. DOMAIN Node = {}
    BY DEF Node
  <2> QED
    BY <1>1, <2>1
<1>3. ASSUME <<h>> \in DOMAIN N, NEW s \in DOMAIN EntryIn(N, h)
      PROVE  \E l \in L :
              /\ l.path[1] = h
              /\ \/ Suffix(l) = <<>> /\ s \in DOMAIN Flatten(l.value) /\ EntryIn(N, h)[s] = Flatten(l.value)[s]
                 \/ Suffix(l) = s /\ s # <<>> /\ EntryIn(N, h)[s] = l.value
  <2>1. CASE N[<<h>>] # Node
    <3>1. EntryIn(N, h) = Flatten(N[<<h>>])
      BY <2>1 DEF EntryIn
    <3>2. PICK l \in L : <<h>> = l.path /\ N[<<h>>] = l.value
      BY <1>0, <1>3, <2>1 DEF TreeOK
    <3>3. l.path[1] = h /\ Suffix(l) = <<>>
      BY <1>0, <3>2 DEF Suffix
    <3> QED
      BY <1>3, <3>1, <3>2, <3>3
  <2>2. CASE N[<<h>>] = Node
    <3>1. EntryIn(N, h) = [t \in {Tail(n) : n \in {x \in DOMAIN N : Below(<<h>>, x) /\ N[x] # Node}} |-> N[<<h>> \o t]]
      BY <2>2 DEF EntryIn
    <3>2. s \in {Tail(n) : n \in {x \in DOMAIN N : Below(<<h>>, x) /\ N[x] # Node}} /\ EntryIn(N, h)[s] = N[<<h>> \o s]
      BY <1>3, <3>1
    <3>3. PICK x \in DOMAIN N : Below(<<h>>, x) /\ N[x] # Node /\ s = Tail(x)
      BY <3>2
    <3>4. x \in Paths /\ x[1] = h
      BY <1>0, <3>3, BelowHead
    <3>5. x = <<h>> \o s /\ s # <<>>
      <4>1. Len(x) > 1
        BY <1>0, <3>3 DEF Below
      <4> QED
        BY <3>3, <3>4, <4>1, PathFacts
    <3>6. PICK l \in L : x = l.path /\ N[x] = l.value
      BY <3>3, <3>4 DEF TreeOK
    <3>7. l.path[1] = h /\ Suffix(l) = s /\ EntryIn(N, h)[s] = l.value
      BY <3>2, <3>3, <3>4, <3>5, <3>6 DEF Suffix
    <3> QED
      BY <3>5, <3>7
  <2> QED
    BY <2>1, <2>2
<1>4. ASSUME NEW l \in L, l.path[1] = h
      PROVE  /\ <<h>> \in DOMAIN N
             /\ Suffix(l) # <<>> => Suffix(l) \in DOMAIN EntryIn(N, h)
             /\ Suffix(l) = <<>> => DOMAIN Flatten(l.value) \subseteq DOMAIN EntryIn(N, h)
  <2>1. l.path \in DOMAIN N /\ N[l.path] = l.value /\ <<h>> \in DOMAIN N /\ l.path = <<h>> \o Suffix(l)
    BY <1>1, <1>4, PathFacts DEF TreeOK, Suffix
  <2>2. CASE Suffix(l) = <<>>
    <3>1. l.path = <<h>>
      BY <2>1, <2>2
    <3>2. EntryIn(N, h) = Flatten(l.value)
      BY <1>2, <2>1, <3>1 DEF EntryIn
    <3> QED
      BY <2>1, <2>2, <3>2
  <2>3. CASE Suffix(l) # <<>>
    <3>1. Below(<<h>>, l.path)
      <4>1. Len(l.path) > 1 /\ DOMAIN <<h>> = 1..1
        BY <1>1, <2>3, PathFacts DEF Suffix
      <4> QED
        BY <1>0, <1>4, <4>1 DEF Below
    <3>2. N[<<h>>] = Node
      <4>1. ASSUME NEW m \in L, <<h>> = m.path PROVE FALSE
        BY <1>0, <1>4, <3>1, <4>1 DEF PrefixFree
      <4> QED
        BY <1>0, <2>1, <4>1 DEF TreeOK
    <3>3. DOMAIN EntryIn(N, h) = {Tail(n) : n \in {x \in DOMAIN N : Below(<<h>>, x) /\ N[x] # Node}}
      BY <3>2 DEF EntryIn
    <3>4. l.path \in {x \in DOMAIN N : Below(<<h>>, x) /\ N[x] # Node}
      BY <1>2, <2>1, <3>1
    <3>5. Suffix(l) \in DOMAIN EntryIn(N, h)
      BY <3>3, <3>4 DEF Suffix
    <3> QED
      BY <2>1, <2>3, <3>5
  <2> QED
    BY <2>2, <2>3
<1> QED
  BY <1>3, <1>4

(* What the labels give, told from the state.                              *)
GivenOf(g, names, s) == {Sets(l)[s] : l \in {x \in g : x.path[1] \in names /\ s \in DOMAIN Sets(x)}}
WantedOf(g, names, s) == IF GivenOf(g, {Wildcard}, s) # {} THEN GivenOf(g, {Wildcard}, s) ELSE GivenOf(g, names, s)

LEMMA WildGiven ==
  ASSUME NEW g, NEW w, WildOK(w, g), NEW s
  PROVE  /\ s \in DOMAIN w <=> GivenOf(g, {Wildcard}, s) # {}
         /\ s \in DOMAIN w => w[s] \in GivenOf(g, {Wildcard}, s)
<1>1. ASSUME s \in DOMAIN w PROVE w[s] \in GivenOf(g, {Wildcard}, s)
  <2>1. PICK l \in g : IsWild(l) /\ s \in DOMAIN Sets(l) /\ w[s] = Sets(l)[s]
    BY <1>1 DEF WildOK
  <2> QED
    BY <2>1 DEF GivenOf, IsWild
<1>2. ASSUME GivenOf(g, {Wildcard}, s) # {} PROVE s \in DOMAIN w
  <2>1. PICK l \in g : l.path[1] = Wildcard /\ s \in DOMAIN Sets(l)
    BY <1>2 DEF GivenOf
  <2> QED
    BY <2>1 DEF WildOK, IsWild
<1> QED
  BY <1>1, <1>2

LEMMA AliasGetsWanted ==
  ASSUME NEW g \in SUBSET Labels, NEW al \in AliasLists, NEW w, NEW k \in DOMAIN al, NEW L, NEW N, NEW R,
         WildOK(w, g), RefsExpanded(L, g, al, w, k), WellFormed(L), ClearOf(g, al), UniquePaths(g), DOMAIN N \subseteq Paths,
         \A h \in Names(al, k) : TreeOK(N, h, L, {}), RoutesOK(R, N, {}, al)
  PROVE  /\ \A s \in DOMAIN R[al[k]] : R[al[k]][s] \in WantedOf(g, Names(al, k), s)
         /\ \A s : WantedOf(g, Names(al, k), s) # {} => s \in DOMAIN R[al[k]]
<1> DEFINE a == al[k]
           r == AliasRefs[k]
           H == Names(al, k)
<1>0. /\ a # r /\ a \in H /\ r \in H /\ (\A h \in H : h = a \/ h = r) /\ Wildcard \notin H
      /\ \A h \in H : h \in Parts
  BY NameFacts DEF Names
<1> HIDE DEF a, r, H
<1>1. \A h \in H : PrefixFree(L, h)
  BY ClearIsPrefixFree DEF H
<1>2. ASSUME NEW h \in H, <<h>> \in DOMAIN N, NEW s \in DOMAIN EntryIn(N, h)
      PROVE  \E l \in L :
              /\ l.path[1] = h
              /\ \/ Suffix(l) = <<>> /\ s \in DOMAIN Flatten(l.value) /\ EntryIn(N, h)[s] = Flatten(l.value)[s]
                 \/ Suffix(l) = s /\ s # <<>> /\ EntryIn(N, h)[s] = l.value
  <2>1. h \in Parts /\ TreeOK(N, h, L, {}) /\ PrefixFree(L, h)
    BY <1>0, <1>1 DEF H
  <2> QED
    BY <1>2, <2>1, EntryFacts
<1>3. ASSUME NEW l \in L, l.path[1] \in H
      PROVE  /\ Suffix(l) # <<>> => Suffix(l) \in DOMAIN R[a]
             /\ Suffix(l) = <<>> => DOMAIN Flatten(l.value) \subseteq DOMAIN R[a]
  <2> DEFINE h == l.path[1]
  <2>1. h \in Parts /\ TreeOK(N, h, L, {}) /\ PrefixFree(L, h)
    BY <1>0, <1>1, <1>3 DEF H
  <2>2. /\ <<h>> \in DOMAIN N
        /\ Suffix(l) # <<>> => Suffix(l) \in DOMAIN EntryIn(N, h)
        /\ Suffix(l) = <<>> => DOMAIN Flatten(l.value) \subseteq DOMAIN EntryIn(N, h)
    BY <2>1, EntryFacts
  <2>3. DOMAIN EntryIn(N, h) \subseteq DOMAIN R[a]
    BY <1>3, <2>2 DEF RoutesOK, H, a
  <2> QED
    BY <2>2, <2>3
<1>4. \A l \in L : l.path \in Paths
  BY DEF WellFormed
<1>5. ASSUME NEW l \in g
      PROVE  /\ DOMAIN Sets(l) \subseteq Seq(Parts) \ {<<>>}
             /\ Suffix(l) # <<>> /\ ~IsWild(l) => DOMAIN Sets(l) = {Suffix(l)} /\ Sets(l)[Suffix(l)] = l.value
             /\ Suffix(l) = <<>> => Sets(l) = Flatten(l.value)
             /\ Suffix(l) \in Seq(Parts)
             /\ l.path[1] \in H => ~IsWild(l) /\ Places(l) = {Suffix(l)}
  BY <1>0, SetsFacts DEF IsWild, Places
<1>6. ASSUME NEW l \in g, l.path[1] \in H, Suffix(l) = <<>>, NEW s PROVE s \notin DOMAIN w
  <2> SUFFICES ASSUME s \in DOMAIN w PROVE FALSE
    OBVIOUS
  <2>1. PICK x \in g : IsWild(x) /\ s \in DOMAIN Sets(x)
    BY DEF WildOK
  <2>2. s \in Places(x) /\ <<>> \in Places(l) /\ s \in Seq(Parts) /\ s # <<>>
    BY <1>5, <1>6, <2>1 DEF Places, IsWild
  <2>3. Below(<<>>, s)
    <3>1. Len(s) > 0 /\ Len(<<>>) = 0 /\ DOMAIN <<>> = {}
      BY <2>2, EmptySeq
    <3> QED
      BY <3>1 DEF Below
  <2> QED
    BY <1>6, <2>1, <2>2, <2>3 DEF ClearOf, IsWild, H
<1>7. ASSUME NEW l \in L, l.path[1] = r, Suffix(l) = <<>> PROVE l \in g
  <2>1. Suffix(l) \notin DOMAIN w
    <3>1. ASSUME <<>> \in DOMAIN w PROVE FALSE
      <4>1. PICK x \in g : <<>> \in DOMAIN Sets(x)
        BY <3>1 DEF WildOK
      <4> QED
        BY <1>5, <4>1
    <3> QED
      BY <1>7, <3>1
  <2> QED
    BY <1>7, <2>1 DEF RefsExpanded, r
<1>8. ASSUME NEW s \in DOMAIN R[a] PROVE R[a][s] \in WantedOf(g, H, s)
  <2>1. PICK h \in H : <<h>> \in DOMAIN N /\ s \in DOMAIN EntryIn(N, h) /\ R[a][s] = EntryIn(N, h)[s]
    BY <1>8 DEF RoutesOK, H, a
  <2>2. PICK l \in L : /\ l.path[1] = h
              /\ \/ Suffix(l) = <<>> /\ s \in DOMAIN Flatten(l.value) /\ R[a][s] = Flatten(l.value)[s]
                 \/ Suffix(l) = s /\ s # <<>> /\ R[a][s] = l.value
    BY <1>2, <2>1
  <2>3. CASE Suffix(l) = <<>> /\ s \in DOMAIN Flatten(l.value) /\ R[a][s] = Flatten(l.value)[s]
    <3>1. l \in g
      <4>1. CASE h = a
        BY <2>2, <4>1 DEF RefsExpanded, a
      <4>2. CASE h = r
        BY <1>7, <2>2, <2>3, <4>2
      <4> QED
        BY <1>0, <4>1, <4>2
    <3>2. Sets(l) = Flatten(l.value)
      BY <1>5, <2>3, <3>1
    <3>3. R[a][s] \in GivenOf(g, H, s)
      BY <2>2, <2>3, <3>1, <3>2 DEF GivenOf
    <3>4. s \notin DOMAIN w
      BY <1>6, <2>2, <2>3, <3>1
    <3> QED
      BY <3>3, <3>4, WildGiven DEF WantedOf
  <2>4. CASE Suffix(l) = s /\ s # <<>> /\ R[a][s] = l.value
    <3>1. CASE s \in DOMAIN w
      <4>1. h = r
        <5>1. ASSUME h = a PROVE FALSE
          BY <2>2, <2>4, <3>1, <5>1 DEF RefsExpanded, a
        <5> QED
          BY <1>0, <5>1
      <4>2. l.value = w[s]
        BY <2>2, <2>4, <3>1, <4>1 DEF RefsExpanded, r
      <4> QED
        BY <2>4, <3>1, <4>2, WildGiven DEF WantedOf
    <3>2. CASE s \notin DOMAIN w
      <4>1. \E m \in g : m.path[1] \in H /\ Suffix(m) = s /\ m.value = l.value
        <5>1. CASE h = a
          BY <2>2, <2>4, <5>1 DEF RefsExpanded, a
        <5>2. CASE h = r
          BY <2>2, <2>4, <3>2, <5>2 DEF RefsExpanded, r, H
        <5> QED
          BY <1>0, <5>1, <5>2
      <4>2. PICK m \in g : m.path[1] \in H /\ Suffix(m) = s /\ m.value = l.value
        BY <4>1
      <4>3. s \in DOMAIN Sets(m) /\ Sets(m)[s] = R[a][s]
        BY <1>5, <2>4, <4>2
      <4>4. R[a][s] \in GivenOf(g, H, s)
        BY <4>2, <4>3 DEF GivenOf
      <4> QED
        BY <3>2, <4>4, WildGiven DEF WantedOf
    <3> QED
      BY <3>1, <3>2
  <2> QED
    BY <2>2, <2>3, <2>4
<1>9. ASSUME NEW s, NEW l \in L, l.path = <<r>> \o s, s \in Seq(Parts), s # <<>> PROVE s \in DOMAIN R[a]
  <2>1. l.path[1] = r /\ Suffix(l) = s
    BY <1>0, <1>9, JoinFacts DEF Suffix
  <2> QED
    BY <1>0, <1>3, <1>9, <2>1
<1>10. ASSUME NEW s, WantedOf(g, H, s) # {} PROVE s \in DOMAIN R[a]
  <2>1. CASE s \in DOMAIN w
    <3>1. s \in Seq(Parts) /\ s # <<>>
      BY <1>5, <2>1 DEF WildOK
    <3>2. PICK l \in L : l.path = <<r>> \o s
      BY <2>1 DEF RefsExpanded, r
    <3> QED
      BY <1>9, <3>1, <3>2
  <2>2. CASE s \notin DOMAIN w
    <3>1. GivenOf(g, H, s) # {}
      BY <1>10, <2>2, WildGiven DEF WantedOf
    <3>2. PICK m \in g : m.path[1] \in H /\ s \in DOMAIN Sets(m)
      BY <3>1 DEF GivenOf
    <3>3. CASE Suffix(m) = <<>>
      <4>1. m \in L
        <5>1. CASE m.path[1] = a
          BY <3>3, <5>1 DEF RefsExpanded, a
        <5>2. CASE m.path[1] = r
          <6>1. PICK l \in L : l.path = m.path
            BY <5>2 DEF RefsExpanded, r
          <6>2. l \in g
            BY <1>7, <3>3, <5>2, <6>1 DEF Suffix
          <6> QED
            BY <6>1, <6>2 DEF UniquePaths
        <5> QED
          BY <1>0, <3>2, <5>1, <5>2
      <4>2. s \in DOMAIN Flatten(m.value)
        BY <1>5, <3>2, <3>3
      <4> QED
        BY <1>3, <3>2, <3>3, <4>1, <4>2
    <3>4. CASE Suffix(m) # <<>>
      <4>1. s = Suffix(m) /\ s \in Seq(Parts)
        BY <1>5, <3>2, <3>4
      <4>2. CASE m.path[1] = r
        <5>1. PICK l \in L : l.path = m.path
          BY <4>2 DEF RefsExpanded, r
        <5>2. l.path[1] \in H /\ Suffix(l) = s
          BY <3>2, <4>1, <5>1 DEF Suffix
        <5> QED
          BY <1>3, <3>4, <4>1, <5>2
      <4>3. CASE m.path[1] = a /\ DOMAIN w = {}
        <5>1. m \in L
          BY <4>3 DEF RefsExpanded, a
        <5> QED
          BY <1>3, <3>2, <3>4, <4>1, <5>1
      <4>4. CASE m.path[1] = a /\ DOMAIN w # {}
        <5>1. PICK l \in L : l.path = <<r>> \o Suffix(m)
          BY <3>4, <4>4 DEF RefsExpanded, a, r
        <5> QED
          BY <1>9, <3>4, <4>1, <5>1
      <4> QED
        BY <1>0, <3>2, <4>2, <4>3, <4>4
    <3> QED
      BY <3>3, <3>4
  <2> QED
    BY <2>1, <2>2
<1> QED
  BY <1>8, <1>10 DEF a, H

-----------------------------------------------------------------------------
(* The inductive invariant, by phase.                                      *)
LabelsShape(x) ==
  x = [phase |-> x.phase, given |-> x.given, aliases |-> x.aliases, labels |-> x.labels, left |-> x.left,
       wild |-> x.wild, index |-> x.index, nested |-> x.nested, cur |-> x.cur, at |-> x.at, depth |-> x.depth,
       errs |-> x.errs, routes |-> x.routes]

GivenOK(x) ==
  /\ x.given \in SUBSET Labels /\ x.aliases \in AliasLists /\ UniquePaths(x.given)
  /\ x.phase \in {"collect", "convert", "parse", "walk", "routes"}

Seen(x) == IF x.phase = "collect" THEN x.given \ x.left ELSE x.given
NumbersOK(x) ==
  /\ IndexOK(x.index, x.aliases) /\ WildOK(x.wild, Seen(x)) /\ IndexKnown(x.index, Seen(x))

CollectOK(x) ==
  x.phase = "collect" =>
    /\ x.left \subseteq x.given /\ x.nested = <<>>
    /\ x.labels = {l \in x.given : ~IsWild(l) \/ l \in x.left}
    /\ Cardinality(DOMAIN x.index) + Cardinality(x.left) <= Len(x.aliases) + MaxLabels

ConvertOK(x) ==
  x.phase = "convert" =>
    /\ x.left \subseteq {l \in x.given : ~IsWild(l)} /\ x.nested = <<>>
    /\ DOMAIN x.wild # {} /\ WellFormed(x.labels)
    /\ \A k \in DOMAIN x.aliases : Converting(x.labels, x.left, x.given, x.aliases, x.wild, k)

Done(x) == IF x.phase = "routes" THEN x.labels ELSE IF x.phase = "walk" THEN (x.labels \ x.left) \ {x.cur} ELSE x.labels \ x.left
Under(x) == IF x.phase = "walk" THEN {x.cur} ELSE {}
Trees(N, al, D, C) == \A k \in DOMAIN al : \A h \in Names(al, k) : TreeOK(N, h, D, C)
ExpandedOK(x) ==
  x.phase \in {"parse", "walk", "routes"} =>
    /\ WellFormed(x.labels) /\ DOMAIN x.nested \subseteq Paths
    /\ \A k \in DOMAIN x.aliases : RefsExpanded(x.labels, x.given, x.aliases, x.wild, k)
    /\ x.errs = {} /\ ClearOf(x.given, x.aliases) => Trees(x.nested, x.aliases, Done(x), Under(x))

(* The walk is where the parts so far lead, unless one was an error.       *)
WalkAt(p, at, depth, N) ==
  Len(at) = depth /\ (\A i \in 1..depth : at[i] = p[i]) /\ (depth >= 1 => <<p[1]>> \in DOMAIN N)
WalkOK(x) ==
  /\ x.phase \in {"parse", "walk"} => x.left \subseteq x.labels
  /\ x.phase = "walk" =>
       /\ x.cur \in x.labels \ x.left /\ x.at \in Seq(Parts)
       /\ x.depth \in Nat /\ x.depth < Len(x.cur.path)
       /\ x.errs = {} => WalkAt(x.cur.path, x.at, x.depth, x.nested)

RouteOK(x) ==
  x.phase = "routes" =>
    /\ x.left \subseteq {n \in DOMAIN x.nested : Len(n) = 1}
    /\ x.errs = {} => RoutesOK(x.routes, x.nested, x.left, x.aliases)

LabelsOK(x) ==
  /\ LabelsShape(x) /\ GivenOK(x) /\ NumbersOK(x) /\ CollectOK(x) /\ ConvertOK(x)
  /\ ExpandedOK(x) /\ WalkOK(x) /\ RouteOK(x)

-----------------------------------------------------------------------------
(* The steps.                                                              *)
LEMMA RefPart ==
  ASSUME NEW al \in AliasLists, NEW ix, IndexOK(ix, al), NEW c \in DOMAIN ix
  PROVE  AliasRefs[ix[c] + 1] \in Parts
<1>1. al \in Seq(Parts) /\ AliasRefs \in Seq(Parts) /\ Len(al) + MaxLabels <= Len(AliasRefs) /\ MaxLabels \in Nat
  BY DockerLabelsAssumption DEF Parts
<1>2. DOMAIN al = 1..Len(al) /\ DOMAIN AliasRefs = 1..Len(AliasRefs) /\ Len(al) \in Nat /\ Len(AliasRefs) \in Nat
  BY <1>1
<1>3. ix[c] + 1 \in DOMAIN AliasRefs
  <2>1. CASE \E j \in DOMAIN al : c = al[j]
    <3>1. PICK j \in DOMAIN al : c = al[j]
      BY <2>1
    <3>2. ix[c] = j - 1
      BY <3>1 DEF IndexOK
    <3> QED
      BY <1>1, <1>2, <3>1, <3>2
  <2>2. CASE \A j \in DOMAIN al : c # al[j]
    <3>1. ix[c] \in Len(al)..(Len(AliasRefs) - 1)
      BY <2>2 DEF IndexOK
    <3> QED
      BY <1>2, <3>1
  <2> QED
    BY <2>1, <2>2
<1> QED
  BY <1>1, <1>3

LEMMA SpreadFormed ==
  ASSUME NEW al \in AliasLists, NEW ix, IndexOK(ix, al), NEW w, NEW g \in SUBSET Labels, WildOK(w, g)
  PROVE  WellFormed(SpreadOf(ix, w))
<1>1. ASSUME NEW m \in SpreadOf(ix, w) PROVE m.path \in Paths /\ DOMAIN m.value # {}
  <2>1. PICK c \in DOMAIN ix : \E t \in DOMAIN w : m = SpreadLabel(ix, w, c, t)
    BY SpreadOnly
  <2>2. PICK s \in DOMAIN w : m = SpreadLabel(ix, w, c, s)
    BY <2>1
  <2> DEFINE q == AliasRefs[ix[c] + 1]
  <2>3. q \in Parts
    BY RefPart
  <2> HIDE DEF q
  <2>4. m.path = <<q>> \o s /\ m.value = w[s]
    BY <2>2 DEF q, SpreadLabel
  <2>5. PICK l \in g : s \in DOMAIN Sets(l) /\ w[s] = Sets(l)[s]
    BY DEF WildOK
  <2>6. s \in Seq(Parts) /\ DOMAIN (w[s]) # {}
    BY <2>5, SetsFacts
  <2> QED
    BY <2>3, <2>4, <2>6, JoinFacts
<1> QED
  BY <1>1 DEF WellFormed

(* A label is collected: what is recorded of the others stays.             *)
LEMMA CollectStep ==
  ASSUME NEW x, LabelsOK(x), x.phase = "collect", NEW l \in x.left, NEW y, LabelsShape(y),
         y.phase = "collect", y.given = x.given, y.aliases = x.aliases, y.left = x.left \ {l}, y.nested = x.nested,
         NumbersOK(y), y.labels = IF IsWild(l) THEN x.labels \ {l} ELSE x.labels,
         Cardinality(DOMAIN y.index) <= Cardinality(DOMAIN x.index) + 1
  PROVE  LabelsOK(y)
<1>1. x.given \in SUBSET Labels /\ UniquePaths(x.given) /\ x.aliases \in AliasLists
  BY DEF LabelsOK, GivenOK
<1>2. /\ x.left \subseteq x.given /\ x.nested = <<>>
      /\ x.labels = {m \in x.given : ~IsWild(m) \/ m \in x.left}
      /\ Cardinality(DOMAIN x.index) + Cardinality(x.left) <= Len(x.aliases) + MaxLabels
  BY DEF LabelsOK, CollectOK
<1>3. y.labels = {m \in y.given : ~IsWild(m) \/ m \in y.left}
  BY <1>2
<1>4. Cardinality(DOMAIN y.index) + Cardinality(y.left) <= Len(y.aliases) + MaxLabels
  <2>1. IsFiniteSet(x.left)
    <3>1. IsFiniteSet(Labels) /\ x.left \subseteq Labels
      BY <1>1, <1>2, DockerLabelsAssumption
    <3> QED
      BY <3>1, FS_Subset
  <2>2. Cardinality(y.left) = Cardinality(x.left) - 1 /\ Cardinality(x.left) \in Nat
    BY <2>1, FS_RemoveElement, FS_CardinalityType
  <2>3. Cardinality(DOMAIN x.index) \in Nat /\ Cardinality(DOMAIN y.index) \in Nat
    BY FS_CardinalityType DEF LabelsOK, NumbersOK, IndexOK
  <2>4. Len(x.aliases) \in Nat /\ MaxLabels \in Nat
    <3>1. x.aliases \in Seq(STRING) /\ MaxLabels \in Nat
      BY <1>1, DockerLabelsAssumption
    <3> QED
      BY <3>1
  <2> QED
    BY <1>2, <2>2, <2>3, <2>4
<1>5. GivenOK(y)
  BY <1>1 DEF GivenOK
<1>6. CollectOK(y)
  BY <1>2, <1>3, <1>4 DEF CollectOK
<1>7. ConvertOK(y) /\ ExpandedOK(y) /\ WalkOK(y) /\ RouteOK(y)
  BY DEF ConvertOK, ExpandedOK, WalkOK, RouteOK
<1> QED
  BY <1>5, <1>6, <1>7 DEF LabelsOK

CollectTo(x, l) ==
  LET rest == [x EXCEPT !.left = @ \ {l}] IN
  IF l.path[1] = Wildcard THEN [rest EXCEPT !.labels = @ \ {l}, !.wild = Over(@, Sets(l))]
  ELSE IF Suffix(l) = <<>> \/ IsRef(l.path[1]) \/ l.path[1] \in DOMAIN x.index THEN rest
  ELSE [rest EXCEPT !.index = Put(@, l.path[1], Cardinality(DOMAIN @))]

LEMMA LabelsCollect ==
  ASSUME NEW x, LabelsOK(x), x.phase = "collect", NEW l \in x.left, NEW y,
         y = CollectTo(x, l)
  PROVE  LabelsOK(y)
<1>1. LabelsShape(x) /\ x.aliases \in AliasLists /\ x.given \in SUBSET Labels /\ l \in x.given /\ x.left \subseteq x.given
  BY DEF LabelsOK, GivenOK, CollectOK
<1>2. IndexOK(x.index, x.aliases) /\ WildOK(x.wild, x.given \ x.left) /\ IndexKnown(x.index, x.given \ x.left)
  BY DEF LabelsOK, NumbersOK, Seen
<1>3. Cardinality(DOMAIN x.index) \in Nat
  BY <1>2, FS_CardinalityType DEF IndexOK
<1> DEFINE S == x.given \ x.left
<1>4. x.given \ (x.left \ {l}) = S \cup {l}
  BY <1>1
<1>5. CASE IsWild(l)
  <2>1. /\ LabelsShape(y) /\ y.phase = "collect" /\ y.given = x.given /\ y.aliases = x.aliases
        /\ y.left = x.left \ {l} /\ y.nested = x.nested /\ y.labels = x.labels \ {l}
        /\ y.wild = Over(x.wild, Sets(l)) /\ y.index = x.index
    BY <1>1, <1>5 DEF LabelsShape, IsWild, CollectTo
  <2>2. WildOK(y.wild, S \cup {l})
    BY <1>2, <1>5, <2>1, WildOver
  <2>3. IndexKnown(y.index, S \cup {l})
    BY <1>2, <1>5, <2>1 DEF IndexKnown, Dotted
  <2>4. NumbersOK(y)
    BY <1>2, <1>4, <2>1, <2>2, <2>3 DEF NumbersOK, Seen
  <2>5. Cardinality(DOMAIN y.index) <= Cardinality(DOMAIN x.index) + 1
    BY <1>3, <2>1
  <2> QED
    BY <1>5, <2>1, <2>4, <2>5, CollectStep
<1>6. CASE ~IsWild(l) /\ (Suffix(l) = <<>> \/ IsRef(l.path[1]) \/ l.path[1] \in DOMAIN x.index)
  <2>1. /\ LabelsShape(y) /\ y.phase = "collect" /\ y.given = x.given /\ y.aliases = x.aliases
        /\ y.left = x.left \ {l} /\ y.nested = x.nested /\ y.labels = x.labels
        /\ y.wild = x.wild /\ y.index = x.index
    BY <1>1, <1>6 DEF LabelsShape, IsWild, CollectTo
  <2>2. WildOK(y.wild, S \cup {l})
    BY <1>2, <1>6, <2>1, WildSame
  <2>3. IndexKnown(y.index, S \cup {l})
    BY <1>2, <1>6, <2>1 DEF IndexKnown, Dotted
  <2>4. NumbersOK(y)
    BY <1>2, <1>4, <2>1, <2>2, <2>3 DEF NumbersOK, Seen
  <2>5. Cardinality(DOMAIN y.index) <= Cardinality(DOMAIN x.index) + 1
    BY <1>3, <2>1
  <2> QED
    BY <1>6, <2>1, <2>4, <2>5, CollectStep
<1>7. CASE ~IsWild(l) /\ ~(Suffix(l) = <<>> \/ IsRef(l.path[1]) \/ l.path[1] \in DOMAIN x.index)
  <2> DEFINE c == l.path[1]
             iy == Put(x.index, c, Cardinality(DOMAIN x.index))
  <2>1. /\ LabelsShape(y) /\ y.phase = "collect" /\ y.given = x.given /\ y.aliases = x.aliases
        /\ y.left = x.left \ {l} /\ y.nested = x.nested /\ y.labels = x.labels
        /\ y.wild = x.wild /\ y.index = iy
    BY <1>1, <1>7 DEF LabelsShape, IsWild, CollectTo
  <2>2. WildOK(y.wild, S \cup {l})
    BY <1>2, <1>7, <2>1, WildSame
  <2>3. Cardinality(DOMAIN x.index) < Len(AliasRefs)
    <3>1. IsFiniteSet(x.left)
      <4>1. IsFiniteSet(Labels) /\ x.left \subseteq Labels
        BY <1>1, DockerLabelsAssumption
      <4> QED
        BY <4>1, FS_Subset
    <3>2. Cardinality(x.left) \in Nat /\ Cardinality(x.left) # 0
      BY <3>1, FS_CardinalityType, FS_EmptySet
    <3>3. Cardinality(DOMAIN x.index) + Cardinality(x.left) <= Len(x.aliases) + MaxLabels
      BY DEF LabelsOK, CollectOK
    <3>4. x.aliases \in Seq(STRING) /\ AliasRefs \in Seq(STRING) /\ MaxLabels \in Nat /\ Len(x.aliases) + MaxLabels <= Len(AliasRefs)
      BY <1>1, DockerLabelsAssumption
    <3>5. Len(x.aliases) \in Nat /\ Len(AliasRefs) \in Nat
      BY <3>4
    <3> QED
      BY <1>3, <3>2, <3>3, <3>4, <3>5
  <2>4. c \notin DOMAIN x.index
    BY <1>7
  <2>5. /\ IndexOK(iy, x.aliases) /\ DOMAIN iy = DOMAIN x.index \cup {c}
        /\ Cardinality(DOMAIN iy) = Cardinality(DOMAIN x.index) + 1
    BY <1>1, <1>2, <2>3, <2>4, IndexGrows
  <2> HIDE DEF iy
  <2>6. IndexKnown(y.index, S \cup {l})
    BY <1>2, <2>1, <2>5 DEF IndexKnown
  <2>7. NumbersOK(y)
    BY <1>4, <2>1, <2>2, <2>5, <2>6 DEF NumbersOK, Seen
  <2>8. Cardinality(DOMAIN y.index) <= Cardinality(DOMAIN x.index) + 1
    BY <1>3, <2>1, <2>5
  <2> QED
    BY <1>7, <2>1, <2>7, <2>8, CollectStep
<1> QED
  BY <1>5, <1>6, <1>7

LEMMA LabelsCollected ==
  ASSUME NEW x, LabelsOK(x), x.phase = "collect", x.left = {}, NEW y,
         y = [x EXCEPT !.phase = IF DOMAIN x.wild = {} THEN "parse" ELSE "convert", !.labels = x.labels, !.left = x.labels]
  PROVE  LabelsOK(y)
<1>1. /\ LabelsShape(x) /\ x.aliases \in AliasLists /\ x.given \in SUBSET Labels /\ UniquePaths(x.given)
      /\ x.labels = {l \in x.given : ~IsWild(l)} /\ x.nested = <<>>
  BY DEF LabelsOK, GivenOK, CollectOK
<1>2. IndexOK(x.index, x.aliases) /\ WildOK(x.wild, x.given) /\ IndexKnown(x.index, x.given)
  BY DEF LabelsOK, NumbersOK, Seen
<1>3. /\ LabelsShape(y) /\ y.phase = (IF DOMAIN x.wild = {} THEN "parse" ELSE "convert") /\ y.given = x.given
      /\ y.aliases = x.aliases /\ y.labels = x.labels /\ y.left = x.labels /\ y.nested = x.nested
      /\ y.wild = x.wild /\ y.index = x.index /\ y.errs = x.errs
  BY <1>1 DEF LabelsShape
<1>4. GivenOK(y) /\ NumbersOK(y) /\ CollectOK(y) /\ RouteOK(y) /\ WalkOK(y)
  BY <1>1, <1>2, <1>3 DEF GivenOK, NumbersOK, Seen, CollectOK, RouteOK, WalkOK
<1>5. WellFormed(y.labels)
  BY <1>1, <1>3, LabelFacts DEF WellFormed
<1>6. ASSUME NEW k \in DOMAIN y.aliases
      PROVE  /\ Converting(y.labels, y.left, y.given, y.aliases, y.wild, k)
             /\ DOMAIN y.wild = {} => RefsExpanded(y.labels, y.given, y.aliases, y.wild, k)
  <2> DEFINE L == {l \in y.given : ~IsWild(l)}
  <2>1. y.given \in SUBSET Labels /\ y.aliases \in AliasLists /\ k \in DOMAIN y.aliases /\ UniquePaths(y.given)
    BY <1>1, <1>3
  <2>2. /\ Converting(L, L, y.given, y.aliases, y.wild, k)
        /\ DOMAIN y.wild = {} => RefsExpanded(L, y.given, y.aliases, y.wild, k)
    BY ONLY <2>1, ConvertStarts
  <2>3. y.labels = L /\ y.left = L
    BY <1>1, <1>3
  <2> QED
    BY <2>2, <2>3
<1>7. ConvertOK(y)
  BY <1>1, <1>3, <1>5, <1>6 DEF ConvertOK
<1>8. y.phase = "parse" => Trees(y.nested, y.aliases, Done(y), Under(y))
  <2>1. y.phase = "parse" => Done(y) = {} /\ Under(y) = {}
    BY <1>3 DEF Done, Under
  <2> QED
    BY <1>1, <1>3, <2>1, TreeStarts DEF Trees
<1>9. ExpandedOK(y)
  <2>1. DOMAIN y.nested = {}
    BY <1>1, <1>3
  <2> QED
    BY <1>3, <1>5, <1>6, <1>8, <2>1 DEF ExpandedOK
<1> QED
  BY <1>3, <1>4, <1>7, <1>9 DEF LabelsOK

(* A label of another name, for the alias k.                               *)
LEMMA ConvertAlias ==
  ASSUME NEW L, NEW left, NEW g \in SUBSET Labels, NEW al \in AliasLists, NEW w, NEW k \in DOMAIN al, NEW l \in g, NEW ix,
         NEW M, Converting(L, left, g, al, w, k), WellFormed(L), UniquePaths(g), IndexOK(ix, al),
         Dotted(l) => l.path[1] \in DOMAIN ix, ~IsWild(l),
         M = IF IsRef(l.path[1]) \/ Suffix(l) = <<>> THEN L
             ELSE IF Suffix(l) \in DOMAIN w THEN L \ {l}
             ELSE Renamed(L, l, AliasRefs[ix[l.path[1]] + 1])
  PROVE  Converting(M, left \ {l}, g, al, w, k)
<1> DEFINE c == l.path[1]
<1>1. ~IsRef(al[k]) /\ \A h \in Names(al, k) : h = al[k] \/ h = AliasRefs[k]
  BY NameFacts DEF Names
<1>2. CASE IsRef(c) \/ Suffix(l) = <<>>
  <2>1. M = L /\ (c = al[k] => Suffix(l) = <<>>)
    BY <1>1, <1>2
  <2> QED
    BY <2>1, ConvertOther
<1>3. CASE ~(IsRef(c) \/ Suffix(l) = <<>>) /\ c = al[k]
  <2>1. al[k] \in DOMAIN ix
    BY DEF IndexOK
  <2>2. AliasRefs[ix[c] + 1] = AliasRefs[k]
    BY <1>3, <2>1, RefFacts
  <2>3. CASE Suffix(l) \in DOMAIN w
    BY <1>3, <2>3, ConvertOverridden
  <2>4. CASE Suffix(l) \notin DOMAIN w
    BY <1>3, <2>2, <2>4, ConvertMine
  <2> QED
    BY <2>3, <2>4
<1>4. CASE ~(IsRef(c) \/ Suffix(l) = <<>>) /\ c # al[k]
  <2> DEFINE q == AliasRefs[ix[c] + 1]
  <2>1. c \in DOMAIN ix /\ Suffix(l) \in Seq(Parts)
    BY <1>4, SetsFacts DEF Dotted
  <2>2. q \in Parts /\ q # al[k] /\ q # AliasRefs[k]
    BY <1>4, <2>1, RefFacts
  <2>3. c # AliasRefs[k]
    BY <1>4, NameFacts
  <2> HIDE DEF q
  <2> DEFINE ref == [path |-> <<q>> \o Suffix(l), value |-> l.value]
  <2>4. ref.path[1] = q
    BY <2>1, <2>2, JoinFacts
  <2>5. M = L \ {l} \/ \A x : x \in M <=> (x \in L /\ x # l /\ x.path # ref.path) \/ x = ref
    BY <1>4 DEF Renamed, q
  <2> HIDE DEF ref
  <2>6. \A x \in L \cup M : x.path[1] \in Names(al, k) => (x \in L <=> x \in M)
    BY <1>1, <1>4, <2>2, <2>3, <2>4, <2>5
  <2> QED
    BY <1>4, <2>6, ConvertOther
<1> QED
  BY <1>2, <1>3, <1>4

LEMMA LabelsConvert ==
  ASSUME NEW x, LabelsOK(x), x.phase = "convert", NEW l \in x.left, NEW y,
         y = [x EXCEPT !.left = @ \ {l},
              !.labels = IF IsRef(l.path[1]) \/ Suffix(l) = <<>> THEN @
                         ELSE IF Suffix(l) \in DOMAIN x.wild THEN @ \ {l}
                         ELSE Renamed(@, l, AliasRefs[x.index[l.path[1]] + 1])]
  PROVE  LabelsOK(y)
<1> DEFINE M == IF IsRef(l.path[1]) \/ Suffix(l) = <<>> THEN x.labels
                ELSE IF Suffix(l) \in DOMAIN x.wild THEN x.labels \ {l}
                ELSE Renamed(x.labels, l, AliasRefs[x.index[l.path[1]] + 1])
<1>1. /\ LabelsShape(x) /\ x.aliases \in AliasLists /\ x.given \in SUBSET Labels /\ UniquePaths(x.given)
      /\ x.left \subseteq {m \in x.given : ~IsWild(m)} /\ x.nested = <<>> /\ DOMAIN x.wild # {} /\ WellFormed(x.labels)
      /\ \A k \in DOMAIN x.aliases : Converting(x.labels, x.left, x.given, x.aliases, x.wild, k)
  BY DEF LabelsOK, GivenOK, ConvertOK
<1>2. IndexOK(x.index, x.aliases) /\ WildOK(x.wild, x.given) /\ IndexKnown(x.index, x.given)
  BY DEF LabelsOK, NumbersOK, Seen
<1>3. /\ LabelsShape(y) /\ y.phase = "convert" /\ y.given = x.given
      /\ y.aliases = x.aliases /\ y.labels = M /\ y.left = x.left \ {l} /\ y.nested = x.nested
      /\ y.wild = x.wild /\ y.index = x.index
  BY <1>1 DEF LabelsShape
<1>4. l \in x.given /\ ~IsWild(l) /\ (Dotted(l) => l.path[1] \in DOMAIN x.index)
  BY <1>1, <1>2 DEF IndexKnown
<1>5. ASSUME NEW k \in DOMAIN x.aliases PROVE Converting(M, x.left \ {l}, x.given, x.aliases, x.wild, k)
  <2>1. Converting(x.labels, x.left, x.given, x.aliases, x.wild, k)
    BY <1>1
  <2> HIDE DEF M
  <2>2. M = IF IsRef(l.path[1]) \/ Suffix(l) = <<>> THEN x.labels
                ELSE IF Suffix(l) \in DOMAIN x.wild THEN x.labels \ {l}
                ELSE Renamed(x.labels, l, AliasRefs[x.index[l.path[1]] + 1])
    BY DEF M
  <2> QED
    BY ONLY <1>1, <1>2, <1>4, <1>5, <2>1, <2>2, ConvertAlias
<1>6. WellFormed(M)
  <2>1. CASE IsRef(l.path[1]) \/ Suffix(l) = <<>> \/ Suffix(l) \in DOMAIN x.wild
    <3>1. M \subseteq x.labels
      BY <2>1
    <3> QED
      BY <1>1, <3>1 DEF WellFormed
  <2>2. CASE ~(IsRef(l.path[1]) \/ Suffix(l) = <<>> \/ Suffix(l) \in DOMAIN x.wild)
    <3> DEFINE q == AliasRefs[x.index[l.path[1]] + 1]
               ref == [path |-> <<q>> \o Suffix(l), value |-> l.value]
    <3>1. q \in Parts
      BY <1>1, <1>2, <1>4, <2>2, RefPart DEF Dotted
    <3> HIDE DEF q
    <3>2. Suffix(l) \in Seq(Parts) /\ DOMAIN l.value # {}
      BY <1>1, <1>4, SetsFacts, LabelFacts
    <3>3. ref.path \in Paths /\ DOMAIN ref.value # {}
      BY <3>1, <3>2, JoinFacts
    <3>4. M \subseteq x.labels \cup {ref}
      BY <2>2 DEF Renamed, q
    <3> HIDE DEF ref, M
    <3> QED
      BY <1>1, <3>3, <3>4 DEF WellFormed
  <2> QED
    BY <2>1, <2>2
<1> HIDE DEF M
<1>7. GivenOK(y) /\ NumbersOK(y) /\ CollectOK(y) /\ RouteOK(y) /\ WalkOK(y) /\ ExpandedOK(y)
  BY <1>1, <1>2, <1>3 DEF GivenOK, NumbersOK, Seen, CollectOK, RouteOK, WalkOK, ExpandedOK
<1>8. ConvertOK(y)
  BY <1>1, <1>3, <1>5, <1>6 DEF ConvertOK
<1> QED
  BY <1>3, <1>7, <1>8 DEF LabelsOK

LEMMA LabelsConverted ==
  ASSUME NEW x, LabelsOK(x), x.phase = "convert", x.left = {}, NEW y, NEW L, L = Spread(x.labels, SpreadOf(x.index, x.wild)),
         y = [x EXCEPT !.phase = "parse", !.labels = L, !.left = L]
  PROVE  LabelsOK(y)
<1>1. /\ LabelsShape(x) /\ x.aliases \in AliasLists /\ x.given \in SUBSET Labels /\ UniquePaths(x.given)
      /\ x.nested = <<>> /\ DOMAIN x.wild # {} /\ WellFormed(x.labels)
      /\ \A k \in DOMAIN x.aliases : Converting(x.labels, {}, x.given, x.aliases, x.wild, k)
  BY DEF LabelsOK, GivenOK, ConvertOK
<1>2. IndexOK(x.index, x.aliases) /\ WildOK(x.wild, x.given) /\ IndexKnown(x.index, x.given)
  BY DEF LabelsOK, NumbersOK, Seen
<1>3. /\ LabelsShape(y) /\ y.phase = "parse" /\ y.given = x.given
      /\ y.aliases = x.aliases /\ y.labels = L /\ y.left = L /\ y.nested = x.nested
      /\ y.wild = x.wild /\ y.index = x.index /\ y.errs = x.errs
  BY <1>1 DEF LabelsShape
<1>4. DOMAIN x.wild \subseteq Seq(Parts) /\ <<>> \notin DOMAIN x.wild
  <2>1. ASSUME NEW s \in DOMAIN x.wild PROVE s \in Seq(Parts) \ {<<>>}
    <3>1. PICK m \in x.given : s \in DOMAIN Sets(m)
      BY <1>2 DEF WildOK
    <3> QED
      BY <1>1, <3>1, SetsFacts
  <2> QED
    BY <2>1
<1>5. ASSUME NEW k \in DOMAIN x.aliases PROVE RefsExpanded(L, x.given, x.aliases, x.wild, k)
  <2>1. Converting(x.labels, {}, x.given, x.aliases, x.wild, k)
    BY <1>1
  <2>2. RefsExpanded(Spread(x.labels, SpreadOf(x.index, x.wild)), x.given, x.aliases, x.wild, k)
    BY ONLY <1>1, <1>2, <1>4, <1>5, <2>1, SpreadExpands
  <2> QED
    BY <2>2
<1>6. WellFormed(L)
  <2>1. WellFormed(SpreadOf(x.index, x.wild))
    BY ONLY <1>1, <1>2, SpreadFormed
  <2> QED
    BY <1>1, <2>1 DEF WellFormed, Spread
<1>7. GivenOK(y) /\ NumbersOK(y) /\ CollectOK(y) /\ ConvertOK(y) /\ RouteOK(y) /\ WalkOK(y)
  BY <1>1, <1>2, <1>3 DEF GivenOK, NumbersOK, Seen, CollectOK, ConvertOK, RouteOK, WalkOK
<1>8. Trees(y.nested, y.aliases, Done(y), Under(y))
  <2>1. Done(y) = {} /\ Under(y) = {}
    BY <1>3 DEF Done, Under
  <2> QED
    BY <1>1, <1>3, <2>1, TreeStarts DEF Trees
<1>9. ExpandedOK(y)
  <2>1. DOMAIN y.nested = {}
    BY <1>1, <1>3
  <2> QED
    BY <1>3, <1>5, <1>6, <1>8, <2>1 DEF ExpandedOK
<1> QED
  BY <1>3, <1>7, <1>9 DEF LabelsOK

LEMMA LabelsParse ==
  ASSUME NEW x, LabelsOK(x), x.phase = "parse", NEW l \in x.left, NEW y,
         y = [x EXCEPT !.phase = "walk", !.left = @ \ {l}, !.cur = l, !.at = <<>>, !.depth = 0]
  PROVE  LabelsOK(y)
<1>1. /\ LabelsShape(x) /\ x.left \subseteq x.labels /\ WellFormed(x.labels) /\ DOMAIN x.nested \subseteq Paths
      /\ \A k \in DOMAIN x.aliases : RefsExpanded(x.labels, x.given, x.aliases, x.wild, k)
      /\ x.errs = {} /\ ClearOf(x.given, x.aliases) => Trees(x.nested, x.aliases, Done(x), Under(x))
  BY DEF LabelsOK, ExpandedOK, WalkOK
<1>2. /\ LabelsShape(y) /\ y.phase = "walk" /\ y.given = x.given /\ y.aliases = x.aliases /\ y.labels = x.labels
      /\ y.left = x.left \ {l} /\ y.nested = x.nested /\ y.wild = x.wild /\ y.index = x.index /\ y.errs = x.errs
      /\ y.cur = l /\ y.at = <<>> /\ y.depth = 0
  BY <1>1 DEF LabelsShape
<1>3. GivenOK(y) /\ NumbersOK(y) /\ CollectOK(y) /\ ConvertOK(y) /\ RouteOK(y)
  BY <1>2 DEF LabelsOK, GivenOK, NumbersOK, Seen, CollectOK, ConvertOK, RouteOK
<1>4. WalkOK(y)
  <2>1. Len(l.path) \in Nat \ {0}
    BY <1>1, PathFacts DEF WellFormed
  <2>2. WalkAt(y.cur.path, y.at, y.depth, y.nested)
    BY <1>2 DEF WalkAt
  <2>3. y.at \in Seq(Parts) /\ y.depth \in Nat /\ y.depth < Len(y.cur.path)
    BY <1>2, <2>1
  <2>4. y.left \subseteq y.labels /\ y.cur \in y.labels \ y.left
    BY <1>1, <1>2
  <2> QED
    BY <2>2, <2>3, <2>4 DEF WalkOK
<1>5. Done(y) = Done(x) /\ Under(y) = {l} /\ Under(x) = {}
  BY <1>1, <1>2 DEF Done, Under
<1>6. Trees(x.nested, x.aliases, Done(x), Under(x)) => Trees(y.nested, y.aliases, Done(y), Under(y))
  <2>1. ASSUME NEW N, NEW al, NEW D, Trees(N, al, D, {}) PROVE Trees(N, al, D, {l})
    BY <2>1, TreeBegins DEF Trees
  <2> QED
    BY <1>2, <1>5, <2>1
<1>7. ExpandedOK(y)
  BY <1>1, <1>2, <1>6 DEF ExpandedOK
<1> QED
  BY <1>2, <1>3, <1>4, <1>7 DEF LabelsOK

(* The trees while a label is under way: its parts, then its value.        *)
LEMMA NodeFacts ==
  ASSUME NEW p \in Paths, NEW at \in Seq(Parts), NEW d \in Nat, d < Len(p), NEW N
  PROVE  LET n == Append(at, p[d + 1]) IN
         /\ n \in Paths
         /\ WalkAt(p, at, d, N) => /\ Len(n) = d + 1 /\ (\A i \in 1..(d + 1) : n[i] = p[i]) /\ n[1] = p[1]
                                   /\ d + 1 < Len(p) => Below(n, p)
                                   /\ d + 1 = Len(p) => n = p
                                   /\ d = 0 => n = <<p[1]>>
<1> DEFINE n == Append(at, p[d + 1])
<1>1. p \in Seq(Parts) /\ Len(p) \in Nat /\ d + 1 \in 1..Len(p)
  BY DEF Paths
<1>2. p[d + 1] \in Parts
  BY <1>1
<1>3. n \in Seq(Parts) /\ Len(n) = Len(at) + 1 /\ Len(at) \in Nat /\ n[Len(at) + 1] = p[d + 1] /\ \A i \in 1..Len(at) : n[i] = at[i]
  BY <1>2
<1> HIDE DEF n
<1>4. n \in Paths
  <2>1. n # <<>>
    BY <1>3
  <2> QED
    BY <1>3, <2>1 DEF Paths
<1>5. ASSUME WalkAt(p, at, d, N)
      PROVE  /\ Len(n) = d + 1 /\ (\A i \in 1..(d + 1) : n[i] = p[i]) /\ n[1] = p[1]
             /\ d + 1 < Len(p) => Below(n, p)
             /\ d + 1 = Len(p) => n = p
             /\ d = 0 => n = <<p[1]>>
  <2>1. Len(at) = d /\ \A i \in 1..d : at[i] = p[i]
    BY <1>5 DEF WalkAt
  <2>2. Len(n) = d + 1 /\ \A i \in 1..(d + 1) : n[i] = p[i]
    BY <1>3, <2>1
  <2>3. n[1] = p[1] /\ DOMAIN n = 1..(d + 1)
    BY <1>3, <2>2
  <2>4. d + 1 < Len(p) => Below(n, p)
    BY <1>1, <2>2, <2>3 DEF Below
  <2>5. d + 1 = Len(p) => n = p
    BY <1>1, <1>3, <2>2, SeqEqual
  <2>6. d = 0 => n = <<p[1]>>
    <3>1. <<p[1]>> \in Seq(Parts) /\ Len(<<p[1]>>) = 1 /\ <<p[1]>>[1] = p[1]
      BY <1>1
    <3> QED
      BY <1>3, <2>2, <3>1, SeqEqual
  <2> QED
    BY <2>2, <2>3, <2>4, <2>5, <2>6
<1> QED
  BY <1>4, <1>5 DEF n

LEMMA TreesWalk ==
  ASSUME NEW g \in SUBSET Labels, NEW al \in AliasLists, NEW w, NEW L, NEW N, NEW D, NEW l \in L, NEW n \in Paths,
         \A k \in DOMAIN al : RefsExpanded(L, g, al, w, k), WellFormed(L), ClearOf(g, al), WildOK(w, g),
         D \subseteq L, Trees(N, al, D, {l}), Below(n, l.path), n[1] = l.path[1]
  PROVE  /\ n \notin DOMAIN N => Trees(Put(N, n, Node), al, D, {l})
         /\ n \in DOMAIN N /\ N[n] = EmptyText => Trees(Put(N, n, Node), al, D, {l})
<1> DEFINE M == Put(N, n, Node)
<1>1. DOMAIN M = DOMAIN N \cup {n} /\ M[n] = Node /\ \A y \in DOMAIN N : y # n => M[y] = N[y]
  BY DEF Put
<1> HIDE DEF M
<1>2. Node # EmptyText
  <2>1. DOMAIN Node = {} /\ DOMAIN EmptyText = {<<>>}
    BY DEF Node, EmptyText
  <2> QED
    BY <2>1
<1> SUFFICES ASSUME n \in DOMAIN N => N[n] = EmptyText, NEW k \in DOMAIN al, NEW h \in Names(al, k)
             PROVE  TreeOK(M, h, D, {l})
  BY DEF Trees, M
<1>3. TreeOK(N, h, D, {l})
  BY DEF Trees
<1>4. CASE h # l.path[1]
  <2>1. Elsewhere(N, M, h)
    BY <1>1, <1>4 DEF Elsewhere
  <2> QED
    BY <1>3, <2>1, TreeElsewhere
<1>5. CASE h = l.path[1]
  <2>1. PrefixFree(L, h)
    BY ClearIsPrefixFree
  <2>2. PrefixFree(D \cup {l}, h) /\ l.path \in Paths
    BY <2>1 DEF PrefixFree, WellFormed
  <2>3. n \notin DOMAIN N
    BY <1>2, <1>3, <1>5, <2>2, TreeWalk
  <2> QED
    BY <1>3, <1>5, <2>2, <2>3, TreeWalk DEF M
<1> QED
  BY <1>4, <1>5

LEMMA TreesSet ==
  ASSUME NEW g \in SUBSET Labels, NEW al \in AliasLists, NEW w, NEW L, NEW N, NEW D, NEW l \in L,
         \A k \in DOMAIN al : RefsExpanded(L, g, al, w, k), WellFormed(L), ClearOf(g, al), WildOK(w, g),
         D \subseteq L, l \notin D, Trees(N, al, D, {l}), DOMAIN N \subseteq Paths,
         Len(l.path) > 1 => <<l.path[1]>> \in DOMAIN N
  PROVE  Trees(Put(Kept(N, l.path), l.path, l.value), al, D \cup {l}, {})
<1> DEFINE p == l.path
           M == Put(Kept(N, p), p, l.value)
<1> SUFFICES ASSUME NEW k \in DOMAIN al, NEW h \in Names(al, k)
             PROVE  TreeOK(M, h, D \cup {l}, {})
  BY DEF Trees
<1>1. TreeOK(N, h, D, {l}) /\ p \in Paths
  BY DEF Trees, WellFormed
<1>2. CASE h # p[1]
  <2>1. DOMAIN M = {y \in DOMAIN N : ~Below(p, y)} \cup {p} /\ \A y \in DOMAIN M : y # p => M[y] = N[y]
    BY DEF Put, Kept
  <2>2. DOMAIN M \subseteq Paths
    BY <1>1, <2>1
  <2> HIDE DEF M
  <2>3. \A y \in DOMAIN N : y[1] = h => ~Below(p, y) /\ y # p
    BY <1>1, <1>2, BelowHead
  <2>4. Elsewhere(N, M, h)
    BY <1>2, <2>1, <2>3 DEF Elsewhere
  <2>5. TreeOK(M, h, D, {l})
    BY <1>1, <2>4, TreeElsewhere
  <2> QED
    BY <1>1, <1>2, <2>2, <2>5, TreeOther
<1>3. CASE h = p[1]
  <2>1. PrefixFree(L, h)
    BY ClearIsPrefixFree
  <2>2. PrefixFree(D \cup {l}, h)
    BY <2>1 DEF PrefixFree
  <2>3. \A m \in D : m.path \in Paths /\ m.path # l.path
    <3>1. \A m \in L : l.path[1] \in Names(al, k) /\ l.path = m.path => l = m
      BY DEF RefsExpanded
    <3> QED
      BY <1>3, <3>1 DEF WellFormed
  <2> QED
    BY <1>1, <1>3, <2>2, <2>3, TreeSet
<1> QED
  BY <1>2, <1>3

LEMMA LabelsWalk ==
  ASSUME NEW x, LabelsOK(x), x.phase = "walk", x.depth + 1 < Len(x.cur.path), NEW y, NEW n, n = Append(x.at, x.cur.path[x.depth + 1]),
         y = IF n \notin DOMAIN x.nested \/ x.nested[n] = EmptyText
             THEN [x EXCEPT !.depth = @ + 1, !.at = n, !.nested = Put(@, n, Node)]
             ELSE IF x.nested[n] = Node THEN [x EXCEPT !.depth = @ + 1, !.at = n]
             ELSE [x EXCEPT !.depth = @ + 1, !.errs = @ \cup {"expect mapping"}]
  PROVE  LabelsOK(y)
<1> DEFINE p == x.cur.path
           d == x.depth
           D == (x.labels \ x.left) \ {x.cur}
<1>1. /\ LabelsShape(x) /\ x.left \subseteq x.labels /\ WellFormed(x.labels) /\ DOMAIN x.nested \subseteq Paths
      /\ \A k \in DOMAIN x.aliases : RefsExpanded(x.labels, x.given, x.aliases, x.wild, k)
      /\ x.cur \in x.labels \ x.left /\ x.at \in Seq(Parts) /\ d \in Nat /\ d < Len(p)
      /\ x.errs = {} => WalkAt(p, x.at, d, x.nested)
  BY DEF LabelsOK, ExpandedOK, WalkOK
<1>2. /\ x.errs = {} /\ ClearOf(x.given, x.aliases) => Trees(x.nested, x.aliases, D, {x.cur})
      /\ x.given \in SUBSET Labels /\ x.aliases \in AliasLists /\ WildOK(x.wild, x.given)
  BY DEF LabelsOK, ExpandedOK, Done, Under, GivenOK, NumbersOK, Seen
<1>3. p \in Paths
  BY <1>1 DEF WellFormed
<1>4. /\ n \in Paths
      /\ WalkAt(p, x.at, d, x.nested) => /\ Len(n) = d + 1 /\ (\A i \in 1..(d + 1) : n[i] = p[i]) /\ n[1] = p[1]
                                         /\ d + 1 < Len(p) => Below(n, p)
                                         /\ d = 0 => n = <<p[1]>>
  <2>1. p \in Paths /\ x.at \in Seq(Parts) /\ d \in Nat /\ d < Len(p)
    BY <1>1, <1>3
  <2>2. n = Append(x.at, p[d + 1])
    OBVIOUS
  <2> HIDE DEF p, d
  <2> QED
    BY ONLY <2>1, <2>2, NodeFacts
<1>5. d + 1 \in Nat /\ d + 1 < Len(p)
  BY <1>1
<1>6. CASE n \notin DOMAIN x.nested \/ x.nested[n] = EmptyText
  <2>1. /\ LabelsShape(y) /\ y.phase = "walk" /\ y.given = x.given /\ y.aliases = x.aliases /\ y.labels = x.labels
        /\ y.left = x.left /\ y.nested = Put(x.nested, n, Node) /\ y.wild = x.wild /\ y.index = x.index /\ y.errs = x.errs
        /\ y.cur = x.cur /\ y.at = n /\ y.depth = d + 1
    BY <1>1, <1>6 DEF LabelsShape
  <2>2. DOMAIN y.nested = DOMAIN x.nested \cup {n}
    BY <2>1 DEF Put
  <2>3. GivenOK(y) /\ NumbersOK(y) /\ CollectOK(y) /\ ConvertOK(y) /\ RouteOK(y)
    BY <2>1 DEF LabelsOK, GivenOK, NumbersOK, Seen, CollectOK, ConvertOK, RouteOK
  <2>4. y.errs = {} => WalkAt(p, n, d + 1, y.nested)
    <3>1. SUFFICES ASSUME y.errs = {} PROVE WalkAt(p, n, d + 1, y.nested)
      OBVIOUS
    <3>2. WalkAt(p, x.at, d, x.nested)
      BY <1>1, <2>1, <3>1
    <3>3. <<p[1]>> \in DOMAIN y.nested
      <4>1. CASE d = 0
        BY <1>4, <2>1, <2>2, <3>2, <4>1
      <4>2. CASE d # 0
        <5>1. d >= 1
          BY <1>1, <4>2
        <5>2. <<p[1]>> \in DOMAIN x.nested
          BY <3>2, <5>1 DEF WalkAt
        <5> QED
          BY <2>1, <2>2, <5>2
      <4> QED
        BY <4>1, <4>2
    <3>4. Len(n) = d + 1 /\ \A i \in 1..(d + 1) : n[i] = p[i]
      BY <1>4, <3>2
    <3> HIDE DEF p, d
    <3> QED
      BY <3>3, <3>4 DEF WalkAt
  <2>5. n \in Seq(Parts)
    BY <1>4 DEF Paths
  <2>6. WalkOK(y)
    BY <1>1, <1>5, <2>1, <2>4, <2>5 DEF WalkOK
  <2>7. ASSUME y.errs = {}, ClearOf(y.given, y.aliases) PROVE Trees(y.nested, y.aliases, D, {y.cur})
    <3>1. WalkAt(p, x.at, d, x.nested) /\ Trees(x.nested, x.aliases, D, {x.cur}) /\ ClearOf(x.given, x.aliases)
      BY <1>1, <1>2, <2>1, <2>7
    <3>2. Below(n, p) /\ n[1] = p[1]
      BY <1>4, <1>5, <3>1
    <3>3. D \subseteq x.labels /\ x.cur \in x.labels
      BY <1>1
    <3>4. /\ n \notin DOMAIN x.nested => Trees(Put(x.nested, n, Node), x.aliases, D, {x.cur})
          /\ n \in DOMAIN x.nested /\ x.nested[n] = EmptyText => Trees(Put(x.nested, n, Node), x.aliases, D, {x.cur})
      <4> HIDE DEF D
      <4> QED
        BY ONLY <1>1, <1>2, <1>4, <3>1, <3>2, <3>3, TreesWalk DEF p
    <3> QED
      BY <1>6, <2>1, <3>4
  <2>8. Done(y) = D /\ Under(y) = {y.cur}
    BY <2>1 DEF Done, Under
  <2>9. ExpandedOK(y)
    BY <1>1, <1>4, <2>1, <2>2, <2>7, <2>8 DEF ExpandedOK
  <2> QED
    BY <2>1, <2>3, <2>6, <2>9 DEF LabelsOK
<1>7. CASE ~(n \notin DOMAIN x.nested \/ x.nested[n] = EmptyText) /\ x.nested[n] = Node
  <2>1. /\ LabelsShape(y) /\ y.phase = "walk" /\ y.given = x.given /\ y.aliases = x.aliases /\ y.labels = x.labels
        /\ y.left = x.left /\ y.nested = x.nested /\ y.wild = x.wild /\ y.index = x.index /\ y.errs = x.errs
        /\ y.cur = x.cur /\ y.at = n /\ y.depth = d + 1
    BY <1>1, <1>7 DEF LabelsShape
  <2>3. GivenOK(y) /\ NumbersOK(y) /\ CollectOK(y) /\ ConvertOK(y) /\ RouteOK(y)
    BY <2>1 DEF LabelsOK, GivenOK, NumbersOK, Seen, CollectOK, ConvertOK, RouteOK
  <2>4. y.errs = {} => WalkAt(p, n, d + 1, y.nested)
    <3>1. SUFFICES ASSUME y.errs = {} PROVE WalkAt(p, n, d + 1, y.nested)
      OBVIOUS
    <3>2. WalkAt(p, x.at, d, x.nested)
      BY <1>1, <2>1, <3>1
    <3>3. <<p[1]>> \in DOMAIN y.nested
      <4>1. CASE d = 0
        BY <1>4, <2>1, <1>7, <3>2, <4>1
      <4>2. CASE d # 0
        <5>1. d >= 1
          BY <1>1, <4>2
        <5>2. <<p[1]>> \in DOMAIN x.nested
          BY <3>2, <5>1 DEF WalkAt
        <5> QED
          BY <2>1, <1>7, <5>2
      <4> QED
        BY <4>1, <4>2
    <3>4. Len(n) = d + 1 /\ \A i \in 1..(d + 1) : n[i] = p[i]
      BY <1>4, <3>2
    <3> HIDE DEF p, d
    <3> QED
      BY <3>3, <3>4 DEF WalkAt
  <2>5. n \in Seq(Parts)
    BY <1>4 DEF Paths
  <2>6. WalkOK(y)
    BY <1>1, <1>5, <2>1, <2>4, <2>5 DEF WalkOK
  <2>7. Done(y) = D /\ Under(y) = {y.cur}
    BY <2>1 DEF Done, Under
  <2>8. ExpandedOK(y)
    BY <1>1, <1>2, <2>1, <2>7 DEF ExpandedOK
  <2> QED
    BY <2>1, <2>3, <2>6, <2>8 DEF LabelsOK
<1>8. CASE ~(n \notin DOMAIN x.nested \/ x.nested[n] = EmptyText) /\ x.nested[n] # Node
  <2>1. /\ LabelsShape(y) /\ y.phase = "walk" /\ y.given = x.given /\ y.aliases = x.aliases /\ y.labels = x.labels
        /\ y.left = x.left /\ y.nested = x.nested /\ y.wild = x.wild /\ y.index = x.index
        /\ y.errs = x.errs \cup {"expect mapping"} /\ y.cur = x.cur /\ y.at = x.at /\ y.depth = d + 1
    BY <1>1, <1>8 DEF LabelsShape
  <2>2. y.errs # {}
    BY <2>1
  <2>3. GivenOK(y) /\ NumbersOK(y) /\ CollectOK(y) /\ ConvertOK(y) /\ RouteOK(y)
    BY <2>1 DEF LabelsOK, GivenOK, NumbersOK, Seen, CollectOK, ConvertOK, RouteOK
  <2>4. WalkOK(y)
    BY <1>1, <1>5, <2>1, <2>2 DEF WalkOK
  <2>5. ExpandedOK(y)
    BY <1>1, <2>1, <2>2 DEF ExpandedOK
  <2> QED
    BY <2>1, <2>3, <2>4, <2>5 DEF LabelsOK
<1> QED
  BY <1>6, <1>7, <1>8

LEMMA LabelsSet ==
  ASSUME NEW x, LabelsOK(x), x.phase = "walk", x.depth + 1 = Len(x.cur.path), NEW y, NEW n, n = Append(x.at, x.cur.path[x.depth + 1]),
         y = [x EXCEPT !.phase = "parse", !.nested = Put(Kept(x.nested, n), n, x.cur.value)]
  PROVE  LabelsOK(y)
<1> DEFINE p == x.cur.path
           d == x.depth
           D == (x.labels \ x.left) \ {x.cur}
<1>1. /\ LabelsShape(x) /\ x.left \subseteq x.labels /\ WellFormed(x.labels) /\ DOMAIN x.nested \subseteq Paths
      /\ \A k \in DOMAIN x.aliases : RefsExpanded(x.labels, x.given, x.aliases, x.wild, k)
      /\ x.cur \in x.labels \ x.left /\ x.at \in Seq(Parts) /\ d \in Nat /\ d < Len(p)
      /\ x.errs = {} => WalkAt(p, x.at, d, x.nested)
  BY DEF LabelsOK, ExpandedOK, WalkOK
<1>2. /\ x.errs = {} /\ ClearOf(x.given, x.aliases) => Trees(x.nested, x.aliases, D, {x.cur})
      /\ x.given \in SUBSET Labels /\ x.aliases \in AliasLists /\ WildOK(x.wild, x.given)
  BY DEF LabelsOK, ExpandedOK, Done, Under, GivenOK, NumbersOK, Seen
<1>3. p \in Paths
  BY <1>1 DEF WellFormed
<1>4. n \in Paths /\ (WalkAt(p, x.at, d, x.nested) => n = p)
  BY <1>1, <1>3, NodeFacts
<1>5. /\ LabelsShape(y) /\ y.phase = "parse" /\ y.given = x.given /\ y.aliases = x.aliases /\ y.labels = x.labels
      /\ y.left = x.left /\ y.nested = Put(Kept(x.nested, n), n, x.cur.value) /\ y.wild = x.wild /\ y.index = x.index
      /\ y.errs = x.errs
  BY <1>1 DEF LabelsShape
<1>6. DOMAIN y.nested \subseteq Paths
  <2>1. DOMAIN y.nested \subseteq DOMAIN x.nested \cup {n}
    BY <1>5 DEF Put, Kept
  <2> QED
    BY <1>1, <1>4, <2>1
<1>7. GivenOK(y) /\ NumbersOK(y) /\ CollectOK(y) /\ ConvertOK(y) /\ RouteOK(y) /\ WalkOK(y)
  BY <1>1, <1>5 DEF LabelsOK, GivenOK, NumbersOK, Seen, CollectOK, ConvertOK, RouteOK, WalkOK
<1>8. ASSUME y.errs = {}, ClearOf(y.given, y.aliases) PROVE Trees(y.nested, y.aliases, x.labels \ x.left, {})
  <2>1. WalkAt(p, x.at, d, x.nested) /\ Trees(x.nested, x.aliases, D, {x.cur}) /\ ClearOf(x.given, x.aliases) /\ n = p
    BY <1>1, <1>2, <1>4, <1>5, <1>8
  <2>2. Len(p) > 1 => <<p[1]>> \in DOMAIN x.nested
    BY <1>1, <2>1 DEF WalkAt
  <2>3. D \subseteq x.labels /\ x.cur \in x.labels /\ x.cur \notin D /\ D \cup {x.cur} = x.labels \ x.left
    BY <1>1
  <2> HIDE DEF D
  <2>4. Trees(Put(Kept(x.nested, p), p, x.cur.value), x.aliases, D \cup {x.cur}, {})
    BY ONLY <1>1, <1>2, <2>1, <2>2, <2>3, TreesSet DEF p
  <2> QED
    BY <1>5, <2>1, <2>3, <2>4
<1>9. Done(y) = x.labels \ x.left /\ Under(y) = {}
  BY <1>5 DEF Done, Under
<1>10. ExpandedOK(y)
  BY <1>1, <1>5, <1>6, <1>8, <1>9 DEF ExpandedOK
<1> QED
  BY <1>5, <1>7, <1>10 DEF LabelsOK

LEMMA LabelsParsed ==
  ASSUME NEW x, LabelsOK(x), x.phase = "parse", x.left = {}, NEW y,
         y = [x EXCEPT !.phase = "routes", !.left = {n \in DOMAIN x.nested : Len(n) = 1},
                       !.routes = [a \in {x.aliases[k] : k \in DOMAIN x.aliases} |-> <<>>]]
  PROVE  LabelsOK(y)
<1>1. /\ LabelsShape(x) /\ WellFormed(x.labels) /\ DOMAIN x.nested \subseteq Paths
      /\ \A k \in DOMAIN x.aliases : RefsExpanded(x.labels, x.given, x.aliases, x.wild, k)
      /\ x.errs = {} /\ ClearOf(x.given, x.aliases) => Trees(x.nested, x.aliases, x.labels, {})
      /\ x.aliases \in AliasLists
  BY DEF LabelsOK, ExpandedOK, Done, Under, GivenOK
<1>2. /\ LabelsShape(y) /\ y.phase = "routes" /\ y.given = x.given /\ y.aliases = x.aliases /\ y.labels = x.labels
      /\ y.left = {n \in DOMAIN x.nested : Len(n) = 1} /\ y.nested = x.nested /\ y.wild = x.wild /\ y.index = x.index
      /\ y.errs = x.errs /\ y.routes = [a \in {x.aliases[k] : k \in DOMAIN x.aliases} |-> <<>>]
  BY <1>1 DEF LabelsShape
<1>3. GivenOK(y) /\ NumbersOK(y) /\ CollectOK(y) /\ ConvertOK(y) /\ WalkOK(y)
  BY <1>1, <1>2 DEF LabelsOK, GivenOK, NumbersOK, Seen, CollectOK, ConvertOK, WalkOK
<1>4. RouteOK(y)
  BY <1>1, <1>2, RoutesStart DEF RouteOK
<1>5. Done(y) = x.labels /\ Under(y) = {}
  BY <1>2 DEF Done, Under
<1>6. ExpandedOK(y)
  BY <1>1, <1>2, <1>5 DEF ExpandedOK
<1> QED
  BY <1>2, <1>3, <1>4, <1>6 DEF LabelsOK

RouteTo(x, n, pos, alias, old) ==
  IF <<>> \in DOMAIN x.nested[n] /\ x.nested[n] # EmptyText
  THEN [x EXCEPT !.left = @ \ {n}, !.errs = @ \cup {"not a mapping"}]
  ELSE [x EXCEPT !.left = @ \ {n},
                 !.errs = @ \cup IF pos # 0 /\ pos \notin DOMAIN x.aliases THEN {"out of range"} ELSE {},
                 !.routes = Put(@, alias, Over(old, EntryIn(x.nested, n[1])))]

RouteVals(x, n, pos, alias, old) ==
  /\ pos = IF IsRef(n[1]) THEN CHOOSE k \in DOMAIN AliasRefs : AliasRefs[k] = n[1] ELSE 0
  /\ alias = IF pos \in DOMAIN x.aliases THEN x.aliases[pos] ELSE n[1]
  /\ old = IF alias \in DOMAIN x.routes THEN x.routes[alias] ELSE <<>>

LEMMA LabelsRoute ==
  ASSUME NEW x, LabelsOK(x), x.phase = "routes", NEW n \in x.left, NEW y, NEW pos, NEW alias, NEW old,
         RouteVals(x, n, pos, alias, old), y = RouteTo(x, n, pos, alias, old)
  PROVE  LabelsOK(y)
<1> USE DEF RouteVals
<1> DEFINE name == n[1]
<1>1. /\ LabelsShape(x) /\ WellFormed(x.labels) /\ DOMAIN x.nested \subseteq Paths
      /\ \A k \in DOMAIN x.aliases : RefsExpanded(x.labels, x.given, x.aliases, x.wild, k)
      /\ x.errs = {} /\ ClearOf(x.given, x.aliases) => Trees(x.nested, x.aliases, x.labels, {})
      /\ x.aliases \in AliasLists /\ x.left \subseteq {m \in DOMAIN x.nested : Len(m) = 1}
      /\ x.errs = {} => RoutesOK(x.routes, x.nested, x.left, x.aliases)
  BY DEF LabelsOK, ExpandedOK, Done, Under, GivenOK, RouteOK
<1>2. n = <<name>> /\ n \in DOMAIN x.nested
  <2>1. n \in Seq(Parts) /\ Len(n) = 1
    BY <1>1 DEF Paths
  <2> QED
    BY <1>1, <2>1
<1>3. ASSUME LabelsShape(y), y.phase = "routes", y.given = x.given, y.aliases = x.aliases, y.labels = x.labels,
             y.left = x.left \ {n}, y.nested = x.nested, y.wild = x.wild, y.index = x.index, y.errs = {} => x.errs = {},
             y.errs = {} => RoutesOK(y.routes, y.nested, y.left, y.aliases)
      PROVE  LabelsOK(y)
  <2>1. GivenOK(y) /\ NumbersOK(y) /\ CollectOK(y) /\ ConvertOK(y) /\ WalkOK(y)
    BY <1>1, <1>3 DEF LabelsOK, GivenOK, NumbersOK, Seen, CollectOK, ConvertOK, WalkOK
  <2>2. RouteOK(y)
    BY <1>1, <1>3 DEF RouteOK
  <2>3. Done(y) = x.labels /\ Under(y) = {}
    BY <1>3 DEF Done, Under
  <2>4. ExpandedOK(y)
    BY <1>1, <1>3, <2>3 DEF ExpandedOK
  <2> QED
    BY <1>3, <2>1, <2>2, <2>4 DEF LabelsOK
<1>4. CASE <<>> \in DOMAIN x.nested[n] /\ x.nested[n] # EmptyText
  <2>1. /\ LabelsShape(y) /\ y.phase = "routes" /\ y.given = x.given /\ y.aliases = x.aliases /\ y.labels = x.labels
        /\ y.left = x.left \ {n} /\ y.nested = x.nested /\ y.wild = x.wild /\ y.index = x.index
        /\ y.errs = x.errs \cup {"not a mapping"}
    BY <1>1, <1>4 DEF LabelsShape, RouteTo
  <2>2. y.errs # {}
    BY <2>1
  <2> QED
    BY <1>3, <2>1, <2>2
<1>5. CASE ~(<<>> \in DOMAIN x.nested[n] /\ x.nested[n] # EmptyText)
  <2> DEFINE lost == pos # 0 /\ pos \notin DOMAIN x.aliases
  <2>1. /\ LabelsShape(y) /\ y.phase = "routes" /\ y.given = x.given /\ y.aliases = x.aliases /\ y.labels = x.labels
        /\ y.left = x.left \ {n} /\ y.nested = x.nested /\ y.wild = x.wild /\ y.index = x.index
        /\ y.errs = x.errs \cup (IF lost THEN {"out of range"} ELSE {})
        /\ y.routes = Put(x.routes, alias, Over(old, EntryIn(x.nested, name)))
    BY <1>1, <1>5 DEF LabelsShape, RouteTo
  <2>2. ASSUME y.errs = {} PROVE x.errs = {} /\ ~lost
    BY <2>1, <2>2
  <2>3. ASSUME ~lost PROVE ~IsRef(alias) /\ \A k \in DOMAIN x.aliases : name \in Names(x.aliases, k) <=> alias = x.aliases[k]
    <3>1. \A k \in DOMAIN x.aliases : /\ ~IsRef(x.aliases[k]) /\ IsRef(AliasRefs[k]) /\ Names(x.aliases, k) = {x.aliases[k], AliasRefs[k]}
                                      /\ k \in DOMAIN AliasRefs /\ (\A j \in DOMAIN x.aliases : x.aliases[j] = x.aliases[k] => j = k)
                                      /\ \A j \in DOMAIN AliasRefs : AliasRefs[j] = AliasRefs[k] => j = k
      BY <1>1, NameFacts DEF Names
    <3>2. CASE IsRef(name)
      <4>1. pos \in DOMAIN AliasRefs /\ AliasRefs[pos] = name
        BY <3>2 DEF IsRef
      <4>2. pos # 0
        <5>1. AliasRefs \in Seq(STRING)
          BY DockerLabelsAssumption
        <5> QED
          BY <4>1, <5>1
      <4>3. pos \in DOMAIN x.aliases /\ alias = x.aliases[pos]
        BY <2>3, <4>2
      <4> QED
        BY <3>1, <3>2, <4>1, <4>3
    <3>3. CASE ~IsRef(name)
      <4>1. pos = 0 /\ pos \notin DOMAIN x.aliases
        <5>1. x.aliases \in Seq(STRING)
          BY <1>1, DockerLabelsAssumption
        <5> QED
          BY <3>3, <5>1
      <4> QED
        BY <3>1, <3>3, <4>1
    <3> QED
      BY <3>2, <3>3
  <2>4. ASSUME y.errs = {} PROVE RoutesOK(y.routes, y.nested, y.left, y.aliases)
    <3>1. ~IsRef(alias) /\ (\A k \in DOMAIN x.aliases : name \in Names(x.aliases, k) <=> alias = x.aliases[k]) /\ x.errs = {}
      BY <2>2, <2>3, <2>4
    <3>2. RoutesOK(x.routes, x.nested, x.left, x.aliases) /\ <<name>> \in DOMAIN x.nested /\ x.aliases \in AliasLists
          /\ (alias \in DOMAIN x.routes => old = x.routes[alias])
      BY <1>1, <1>2, <3>1
    <3> HIDE DEF name
    <3>3. RoutesOK(Put(x.routes, alias, Over(old, EntryIn(x.nested, name))), x.nested, x.left \ {<<name>>}, x.aliases)
      BY ONLY <3>1, <3>2, RoutesStep
    <3> QED
      BY <1>2, <2>1, <3>3
  <2> QED
    BY <1>3, <2>1, <2>2, <2>4
<1> QED
  BY <1>4, <1>5

(* The address: what a step of FromDocker finds.                           *)
AddressOK(n) ==
  n.phase = "got" =>
    /\ n.host # "" => \E x \in n.on : x.address = n.host
                        /\ (n.wanted # "" => x.name \in {n.wanted, ComposeOf[n.wanted]})
    /\ n.local /\ n.wanted = "" /\ (\E x \in n.on : x.address # "") => n.host # ""
    /\ n.running /\ n.errs = {} => n.host # "" \/ n.public # ""

LEMMA AddressFound ==
  ASSUME NEW on, NEW n, HasIP(on, n)
  PROVE  \E x \in on : x.name = n /\ x.address = AddressOn(on, n)
<1>1. \E x \in on : x.name = n
  BY DEF HasIP
<1> QED
  BY <1>1, Zenon DEF AddressOn

HostOK(host, local, wanted, on) ==
  /\ host # "" => \E x \in on : x.address = host
                    /\ (wanted # "" => x.name \in {wanted, ComposeOf[wanted]})
  /\ local /\ wanted = "" /\ (\E x \in on : x.address # "") => host # ""

LEMMA HostFound ==
  ASSUME NEW local \in BOOLEAN, NEW wanted, NEW on, NEW got \in setPrivateHostname(local, wanted, on)
  PROVE  HostOK(got[1], local, wanted, on)
<1> USE DEF HostOK
<1> DEFINE c == ComposeOf[wanted]
           some == {x \in on : x.address # ""}
<1>1. CASE ~local
  <2>1. got = <<"", {}>>
    BY <1>1, Zenon DEF setPrivateHostname
  <2>2. got[1] = ""
    BY <2>1
  <2> QED
    BY <1>1, <2>2, Zenon
<1>2. CASE local /\ wanted = ""
  <2>1. got \in IF some = {} THEN {<<"", {}>>} ELSE {<<x.address, {}>> : x \in some}
    BY <1>2, Zenon DEF setPrivateHostname
  <2>2. CASE some = {}
    <3>1. got = <<"", {}>>
      BY <2>1, <2>2, Zenon
    <3>2. got[1] = ""
      BY <3>1
    <3> QED
      BY <1>2, <2>2, <3>2, Zenon
  <2>3. CASE some # {}
    <3>1. PICK x \in some : got = <<x.address, {}>>
      BY <2>1, <2>3, Zenon
    <3>2. got[1] = x.address
      BY <3>1
    <3>3. x \in on /\ x.address # ""
      BY Zenon
    <3> QED
      BY <1>2, <3>2, <3>3, Zenon
  <2> QED
    BY <2>2, <2>3, Zenon
<1>3. CASE local /\ wanted # ""
  <2>1. got \in IF HasIP(on, wanted) THEN {<<AddressOn(on, wanted), {}>>}
                ELSE IF HasIP(on, c) THEN {<<AddressOn(on, c), {}>>}
                ELSE IF IsOn(on, wanted) \/ IsOn(on, c) THEN {<<"", {}>>}
                ELSE {<<"", {"network not found"}>>}
    BY <1>3, Zenon DEF setPrivateHostname
  <2>2. CASE HasIP(on, wanted)
    <3>1. got = <<AddressOn(on, wanted), {}>>
      BY <2>1, <2>2, Zenon
    <3>2. got[1] = AddressOn(on, wanted)
      BY <3>1
    <3> QED
      <4>1. HasIP(on, wanted)
        BY <2>2, Zenon
      <4>2. PICK x \in on : x.name = wanted /\ x.address = AddressOn(on, wanted)
        BY <4>1, AddressFound, Zenon
      <4> QED
        BY <1>3, <3>2, <4>2, Zenon
  <2>3. CASE ~HasIP(on, wanted) /\ HasIP(on, c)
    <3>1. got = <<AddressOn(on, c), {}>>
      BY <2>1, <2>3, Zenon
    <3>2. got[1] = AddressOn(on, c)
      BY <3>1
    <3> QED
      <4>1. HasIP(on, c)
        BY <2>3, Zenon
      <4>2. PICK x \in on : x.name = c /\ x.address = AddressOn(on, c)
        BY <4>1, AddressFound, Zenon
      <4> QED
        BY <1>3, <3>2, <4>2, Zenon
  <2>4. CASE ~HasIP(on, wanted) /\ ~HasIP(on, c)
    <3>1. got = <<"", {}>> \/ got = <<"", {"network not found"}>>
      BY <2>1, <2>4, Zenon
    <3>2. CASE got = <<"", {}>>
      <4>1. got[1] = ""
        BY <3>2
      <4> QED
        BY <1>3, <4>1, Zenon
    <3>3. CASE got = <<"", {"network not found"}>>
      <4>1. got[1] = ""
        BY <3>3
      <4> QED
        BY <1>3, <4>1, Zenon
    <3> QED
      BY <3>1, <3>2, <3>3, Zenon
  <2> QED
    BY <2>2, <2>3, <2>4, Zenon
<1> QED
  BY <1>1, <1>2, <1>3, Zenon

GotTo(local, running, wanted, on, got, public) ==
  [phase |-> "got", local |-> local, running |-> running, wanted |-> wanted, on |-> on, host |-> got[1],
   public |-> public, errs |-> got[2] \cup IF got[1] = "" /\ public = "" /\ running THEN {"no network"} ELSE {}]

LEMMA AddressStep ==
  ASSUME NEW local \in BOOLEAN, NEW running \in BOOLEAN, NEW wanted, NEW on, NEW got \in setPrivateHostname(local, wanted, on), NEW n,
         NEW public, n = GotTo(local, running, wanted, on, got, public)
  PROVE  AddressOK(n)
<1> DEFINE more == IF got[1] = "" /\ public = "" /\ running THEN {"no network"} ELSE {}
<1>1. n.local = local /\ n.running = running /\ n.wanted = wanted /\ n.on = on /\ n.host = got[1] /\ n.public = public
      /\ n.errs = got[2] \cup more
  BY Zenon DEF GotTo
<1>2. n.running /\ n.errs = {} => n.host # "" \/ n.public # ""
  <2>1. SUFFICES ASSUME n.running, n.errs = {}, n.host = "", n.public = "" PROVE FALSE
    BY Zenon
  <2>2. more = {"no network"}
    BY <1>1, <2>1, Zenon
  <2>3. "no network" \in n.errs
    BY <1>1, <2>2
  <2> QED
    BY <2>1, <2>3
<1> HIDE DEF more
<1> QED
  <2>1. HostOK(got[1], local, wanted, on)
    <3>1. local \in BOOLEAN /\ got \in setPrivateHostname(local, wanted, on)
      OBVIOUS
    <3> QED
      BY ONLY <3>1, HostFound
  <2> QED
    BY <1>1, <1>2, <2>1, Zenon DEF AddressOK, HostOK

-----------------------------------------------------------------------------
LabelsInv == LabelsOK(dl) /\ AddressOK(net)

LEMMA LabelsStart == DockerLabelsInit => LabelsInv
<1> SUFFICES ASSUME DockerLabelsInit PROVE LabelsInv
  OBVIOUS
<1>1. PICK given \in SUBSET Labels, aliases \in AliasLists :
       /\ Cardinality(given) <= MaxLabels
       /\ \A l, m \in given : l.path = m.path => l = m
       /\ dl = [phase |-> "collect", given |-> given, aliases |-> aliases, labels |-> given, left |-> given,
                wild |-> <<>>, index |-> [a \in {aliases[k] : k \in DOMAIN aliases} |->
                                            (CHOOSE k \in DOMAIN aliases : aliases[k] = a) - 1],
                nested |-> <<>>, cur |-> <<>>, at |-> <<>>, depth |-> 0, errs |-> {}, routes |-> <<>>]
  BY DEF DockerLabelsInit
<1> DEFINE ix == [a \in {aliases[k] : k \in DOMAIN aliases} |-> (CHOOSE k \in DOMAIN aliases : aliases[k] = a) - 1]
<1>2. IndexOK(ix, aliases) /\ Cardinality(DOMAIN ix) = Len(aliases)
  BY IndexStarts
<1> HIDE DEF ix
<1>3. /\ LabelsShape(dl) /\ dl.phase = "collect" /\ dl.given = given /\ dl.aliases = aliases /\ dl.labels = given
      /\ dl.left = given /\ dl.wild = <<>> /\ dl.index = ix /\ dl.nested = <<>>
  BY <1>1 DEF LabelsShape, ix
<1>4. GivenOK(dl)
  BY <1>1, <1>3 DEF GivenOK, UniquePaths
<1>5. NumbersOK(dl)
  <2>1. Seen(dl) = {} /\ DOMAIN dl.wild = {}
    BY <1>3 DEF Seen
  <2> QED
    BY <1>2, <1>3, <2>1 DEF NumbersOK, WildOK, IndexKnown
<1>6. CollectOK(dl)
  <2>1. Cardinality(given) <= MaxLabels /\ MaxLabels \in Nat /\ Len(aliases) \in Nat /\ Cardinality(given) \in Nat
    <3>1. aliases \in Seq(STRING) /\ MaxLabels \in Nat /\ IsFiniteSet(Labels)
      BY DockerLabelsAssumption
    <3>2. IsFiniteSet(given)
      BY <3>1, FS_Subset
    <3> QED
      BY <1>1, <3>1, <3>2, FS_CardinalityType
  <2>2. Cardinality(DOMAIN dl.index) + Cardinality(dl.left) <= Len(dl.aliases) + MaxLabels
    BY <1>2, <1>3, <2>1
  <2> QED
    BY <1>3, <2>2 DEF CollectOK
<1>7. ConvertOK(dl) /\ ExpandedOK(dl) /\ WalkOK(dl) /\ RouteOK(dl)
  BY <1>3 DEF ConvertOK, ExpandedOK, WalkOK, RouteOK
<1>8. AddressOK(net)
  <2>1. net.phase = "list"
    BY DEF DockerLabelsInit
  <2> QED
    BY <2>1 DEF AddressOK
<1> QED
  BY <1>3, <1>4, <1>5, <1>6, <1>7, <1>8 DEF LabelsInv, LabelsOK

LEMMA LabelsStep == LabelsInv /\ [DockerLabelsNext]_dlVars => LabelsInv'
<1> SUFFICES ASSUME LabelsInv, [DockerLabelsNext]_dlVars PROVE LabelsInv'
  OBVIOUS
<1>0. LabelsOK(dl) /\ AddressOK(net)
  BY DEF LabelsInv
<1>1. ASSUME NEW l \in dl.left, Collect(l) PROVE LabelsInv'
  <2>1. LabelsOK(dl')
    <3>1. dl' = CollectTo(dl, l)
      BY <1>1, Zenon DEF Collect, CollectTo
    <3>2. dl.phase = "collect"
      BY <1>1 DEF Collect
    <3> QED
      BY <1>0, <3>1, <3>2, LabelsCollect
  <2> QED
    BY <1>0, <1>1, <2>1 DEF Collect, LabelsInv
<1>2. ASSUME NEW l \in dl.left, ConvertLabel(l) PROVE LabelsInv'
  <2>1. LabelsOK(dl')
    <3>1. dl.phase = "convert"
      BY <1>2 DEF ConvertLabel
    <3>2. dl' = [dl EXCEPT !.left = @ \ {l},
              !.labels = IF IsRef(l.path[1]) \/ Suffix(l) = <<>> THEN @
                         ELSE IF Suffix(l) \in DOMAIN dl.wild THEN @ \ {l}
                         ELSE Renamed(@, l, AliasRefs[dl.index[l.path[1]] + 1])]
      BY <1>2, Zenon DEF ConvertLabel, Renamed, Overridden, RefOf
    <3> QED
      BY <1>0, <3>1, <3>2, LabelsConvert
  <2> QED
    BY <1>0, <1>2, <2>1 DEF ConvertLabel, LabelsInv
<1>3. ASSUME NEW l \in dl.left, ParseLabel(l) PROVE LabelsInv'
  <2>1. LabelsOK(dl')
    BY <1>0, <1>3, LabelsParse DEF ParseLabel
  <2> QED
    BY <1>0, <1>3, <2>1 DEF ParseLabel, LabelsInv
<1>4. ASSUME NEW n \in dl.left, RouteFromLabels(n) PROVE LabelsInv'
  <2> DEFINE pos == IF IsRef(n[1]) THEN CHOOSE k \in DOMAIN AliasRefs : AliasRefs[k] = n[1] ELSE 0
             alias == IF pos \in DOMAIN dl.aliases THEN dl.aliases[pos] ELSE n[1]
             old == IF alias \in DOMAIN dl.routes THEN dl.routes[alias] ELSE <<>>
  <2>1. dl' = RouteTo(dl, n, pos, alias, old)
    BY <1>4, Zenon DEF RouteFromLabels, EntryOf, EntryIn, RouteTo
  <2>2. dl.phase = "routes"
    BY <1>4 DEF RouteFromLabels
  <2>3. RouteVals(dl, n, pos, alias, old)
    BY Zenon DEF RouteVals
  <2>4. LabelsOK(dl')
    <3> HIDE DEF pos, alias, old
    <3> QED
      BY ONLY <1>0, <1>4, <2>1, <2>2, <2>3, LabelsRoute
  <2> QED
    BY <1>0, <1>4, <2>4 DEF RouteFromLabels, LabelsInv
<1>5. CASE Collected
  <2>1. LabelsOK(dl')
    BY <1>0, <1>5, LabelsCollected DEF Collected, Pass
  <2> QED
    BY <1>0, <1>5, <2>1 DEF Collected, LabelsInv
<1>6. CASE Converted
  <2> DEFINE L == Spread(dl.labels, SpreadOf(dl.index, dl.wild))
  <2>1. dl' = [dl EXCEPT !.phase = "parse", !.labels = L, !.left = L]
    BY <1>6, Zenon DEF Converted, Pass, SpreadOf, RefOf
  <2>2. dl.phase = "convert" /\ dl.left = {}
    BY <1>6 DEF Converted
  <2>3. LabelsOK(dl')
    <3> HIDE DEF L
    <3>1. L = Spread(dl.labels, SpreadOf(dl.index, dl.wild))
      BY DEF L
    <3> QED
      BY <1>0, <2>1, <2>2, <3>1, LabelsConverted
  <2> QED
    BY <1>0, <1>6, <2>3 DEF Converted, LabelsInv
<1>7. CASE WalkPart
  <2> DEFINE n == Append(dl.at, dl.cur.path[dl.depth + 1])
  <2>1. dl' = IF n \notin DOMAIN dl.nested \/ dl.nested[n] = EmptyText
             THEN [dl EXCEPT !.depth = @ + 1, !.at = n, !.nested = Put(@, n, Node)]
             ELSE IF dl.nested[n] = Node THEN [dl EXCEPT !.depth = @ + 1, !.at = n]
             ELSE [dl EXCEPT !.depth = @ + 1, !.errs = @ \cup {"expect mapping"}]
    BY <1>7, Zenon DEF WalkPart
  <2>2. dl.phase = "walk" /\ dl.depth + 1 < Len(dl.cur.path)
    BY <1>7 DEF WalkPart
  <2>3. LabelsOK(dl')
    <3> HIDE DEF n
    <3>1. n = Append(dl.at, dl.cur.path[dl.depth + 1])
      BY DEF n
    <3> QED
      BY <1>0, <2>1, <2>2, <3>1, LabelsWalk
  <2> QED
    BY <1>0, <1>7, <2>3 DEF WalkPart, LabelsInv
<1>8. CASE SetValue
  <2> DEFINE n == Append(dl.at, dl.cur.path[dl.depth + 1])
  <2>1. dl' = [dl EXCEPT !.phase = "parse", !.nested = Put(Kept(dl.nested, n), n, dl.cur.value)]
    BY <1>8, Zenon DEF SetValue, Kept
  <2>2. dl.phase = "walk" /\ dl.depth + 1 = Len(dl.cur.path)
    BY <1>8 DEF SetValue
  <2>3. LabelsOK(dl')
    <3> HIDE DEF n
    <3>1. n = Append(dl.at, dl.cur.path[dl.depth + 1])
      BY DEF n
    <3> QED
      BY <1>0, <2>1, <2>2, <3>1, LabelsSet
  <2> QED
    BY <1>0, <1>8, <2>3 DEF SetValue, LabelsInv
<1>9. CASE Parsed
  <2>1. LabelsOK(dl')
    BY <1>0, <1>9, LabelsParsed DEF Parsed
  <2> QED
    BY <1>0, <1>9, <2>1 DEF Parsed, LabelsInv
<1>10. ASSUME NEW local \in BOOLEAN, NEW running \in BOOLEAN, NEW wanted \in {""} \cup DOMAIN ComposeOf,
              NEW on \in SUBSET Networks, FromDocker(local, running, wanted, on)
       PROVE  LabelsInv'
  <2> DEFINE public == setPublicHostname(local, running)
  <2>1. PICK got \in setPrivateHostname(local, wanted, on) :
         net' = GotTo(local, running, wanted, on, got, public)
    BY <1>10, Zenon DEF FromDocker, GotTo
  <2>2. AddressOK(net')
    <3> HIDE DEF public
    <3> QED
      BY ONLY <1>10, <2>1, AddressStep
  <2>3. dl' = dl
    BY <1>10 DEF FromDocker
  <2> QED
    BY <1>0, <2>2, <2>3 DEF LabelsInv
<1>11. CASE UNCHANGED dlVars
  BY <1>0, <1>11 DEF dlVars, LabelsInv
<1> QED
  BY <1>1, <1>2, <1>3, <1>4, <1>5, <1>6, <1>7, <1>8, <1>9, <1>10, <1>11 DEF DockerLabelsNext

LEMMA LabelsFollow == LabelsInv => LabelsSound
<1> SUFFICES ASSUME LabelsInv PROVE LabelsSound
  OBVIOUS
<1>1. AddressHasIt
  BY DEF LabelsInv, AddressOK, AddressHasIt
<1>2. LabelsApplied
  <2> SUFFICES ASSUME dl.phase = "routes", dl.left = {}, dl.errs = {}, Clear
               PROVE  /\ \A a \in DOMAIN dl.routes : ~IsRef(a)
                      /\ \A a \in AliasesOf :
                           /\ \A s \in DOMAIN dl.routes[a] : dl.routes[a][s] \in Wanted(a, s)
                           /\ \A s \in UNION {DOMAIN Sets(l) : l \in dl.given} : Wanted(a, s) # {} => s \in DOMAIN dl.routes[a]
    BY DEF LabelsApplied
  <2>1. /\ dl.given \in SUBSET Labels /\ dl.aliases \in AliasLists /\ UniquePaths(dl.given) /\ WildOK(dl.wild, dl.given)
        /\ WellFormed(dl.labels) /\ DOMAIN dl.nested \subseteq Paths
        /\ \A k \in DOMAIN dl.aliases : RefsExpanded(dl.labels, dl.given, dl.aliases, dl.wild, k)
        /\ RoutesOK(dl.routes, dl.nested, {}, dl.aliases)
        /\ ClearOf(dl.given, dl.aliases) => Trees(dl.nested, dl.aliases, dl.labels, {})
    BY DEF LabelsInv, LabelsOK, GivenOK, NumbersOK, Seen, ExpandedOK, RouteOK, Done, Under
  <2>2. ASSUME NEW k \in DOMAIN dl.aliases PROVE ByName(dl.aliases[k]) = Names(dl.aliases, k)
    <3>1. \A j \in DOMAIN dl.aliases : dl.aliases[j] = dl.aliases[k] <=> j = k
      BY <2>1, NameFacts
    <3> QED
      BY <3>1 DEF ByName, Names
  <2>3. ClearOf(dl.given, dl.aliases)
    <3> SUFFICES ASSUME NEW k \in DOMAIN dl.aliases, NEW l \in dl.given, NEW m \in dl.given,
                        l.path[1] \in Names(dl.aliases, k) \cup {Wildcard}, m.path[1] \in Names(dl.aliases, k) \cup {Wildcard},
                        NEW s \in Places(l), NEW t \in Places(m)
                 PROVE  ~Below(s, t)
      BY DEF ClearOf
    <3> DEFINE a == dl.aliases[k]
               X == {x \in dl.given : x.path[1] \in ByName(a) \cup {Wildcard}}
    <3>1. a \in AliasesOf
      BY DEF AliasesOf
    <3>2. l \in X /\ m \in X
      BY <2>2
    <3> QED
      BY <3>1, <3>2 DEF Clear
  <2>4. ASSUME NEW k \in DOMAIN dl.aliases, NEW s
        PROVE  Wanted(dl.aliases[k], s) = WantedOf(dl.given, Names(dl.aliases, k), s)
    BY <2>2 DEF Wanted, WantedOf, GivenBy, GivenOf
  <2>5. ASSUME NEW k \in DOMAIN dl.aliases
        PROVE  LET a == dl.aliases[k] IN
               /\ \A s \in DOMAIN dl.routes[a] : dl.routes[a][s] \in Wanted(a, s)
               /\ \A s : Wanted(a, s) # {} => s \in DOMAIN dl.routes[a]
    <3>1. RefsExpanded(dl.labels, dl.given, dl.aliases, dl.wild, k) /\ \A h \in Names(dl.aliases, k) : TreeOK(dl.nested, h, dl.labels, {})
      BY <2>1, <2>3 DEF Trees
    <3> DEFINE a == dl.aliases[k]
    <3>2. /\ \A s \in DOMAIN dl.routes[dl.aliases[k]] : dl.routes[dl.aliases[k]][s] \in WantedOf(dl.given, Names(dl.aliases, k), s)
          /\ \A s : WantedOf(dl.given, Names(dl.aliases, k), s) # {} => s \in DOMAIN dl.routes[dl.aliases[k]]
      BY ONLY <2>1, <2>3, <2>5, <3>1, AliasGetsWanted
    <3> QED
      BY <2>4, <3>2
  <2> QED
    BY <2>1, <2>5 DEF AliasesOf, RoutesOK
<1> QED
  BY <1>1, <1>2 DEF LabelsSound

(* Whatever the labels, the aliases and the orders of the passes: with     *)
(* nothing reported and nothing ambiguous, every alias has just the values *)
(* that its labels, its number and the wildcards give it; and a container  *)
(* is reached at an address that it has.                                   *)
THEOREM LabelsAreSound == DockerLabelsSpec => []LabelsSound
<1> QED
  BY LabelsStart, LabelsStep, LabelsFollow, PTL DEF DockerLabelsSpec
=============================================================================
