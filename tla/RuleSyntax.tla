----------------------------- MODULE RuleSyntax -----------------------------
(***************************************************************************)
(* The text of rules: the two scanners that must agree on quotes and       *)
(* brackets (parse for words, splitPipe for alternatives), splitAnd, the   *)
(* expression of a matcher, and the expansion of variables in templates.   *)
(* A text is a sequence of characters: q and p are the quote characters, e *)
(* the escape, s and d the names of a static variable and of a variable    *)
(* with arguments; the other letters stand for themselves.                 *)
(***************************************************************************)
EXTENDS Integers, Sequences, SequencesExt, FiniteSets

CONSTANTS Alphabet,   \* characters
          MaxText,    \* bound: length of a text
          EnvNames    \* environment variables that are set, as texts

VARIABLE rxText       \* the text typed so far

Quotes == {"q", "p"}
NoQuote == "none"

-----------------------------------------------------------------------------
(* parse.  A word ends at a space outside quotes and at a quote; leading   *)
(* spaces go, and a word of spaces only is not flushed.                    *)
TrimLeft(w) ==
  LET solid == {i \in DOMAIN w : w[i] # " "} IN
  IF solid = {} THEN <<>> ELSE SubSeq(w, CHOOSE i \in solid : \A j \in solid : i <= j, Len(w))

flush(s, quoted) ==
  IF ~quoted /\ TrimLeft(s.buf) = <<>> THEN s
  ELSE [s EXCEPT !.words = Append(@, IF quoted THEN s.buf ELSE TrimLeft(s.buf)), !.buf = <<>>]

Write(s, r) == [s EXCEPT !.buf = Append(@, r)]

ParseQuote(s, r) ==
  CASE s.quote = NoQuote /\ s.brackets = 0 -> flush([s EXCEPT !.quote = r], FALSE)
    [] s.quote = r -> flush([s EXCEPT !.quote = NoQuote], TRUE)
    [] OTHER -> Write(s, r)

ParseEnvEnd(s) ==
  [IF s.env \in EnvNames THEN Write(s, "v") ELSE [s EXCEPT !.missing = TRUE] EXCEPT !.inEnv = FALSE]

ParseChar(s, r) ==
  IF s.err # "" THEN s
  ELSE IF s.esc THEN [IF r = "a" THEN Write(Write(s, "e"), r) ELSE Write(s, r) EXCEPT !.esc = FALSE]
  ELSE LET t == IF s.brace /\ r \notin {"{", "$"} THEN [Write(s, "$") EXCEPT !.brace = FALSE] ELSE s IN
       CASE r \in Quotes -> ParseQuote(t, r)
         [] r = "e" -> [t EXCEPT !.esc = TRUE]
         [] r = "$" -> IF t.brace THEN [Write(t, "$") EXCEPT !.brace = FALSE] ELSE [t EXCEPT !.brace = TRUE]
         [] r = "{" -> IF t.brace THEN [t EXCEPT !.inEnv = TRUE, !.brace = FALSE, !.env = <<>>] ELSE Write(t, r)
         [] r = "}" -> IF t.inEnv THEN ParseEnvEnd(t) ELSE Write(t, r)
         [] r = "(" -> [Write(t, r) EXCEPT !.brackets = @ + 1]
         [] r = ")" -> IF t.brackets = 0 THEN [t EXCEPT !.err = "brackets"]
                       ELSE [Write(t, r) EXCEPT !.brackets = @ - 1]
         [] r = " " -> IF t.quote = NoQuote THEN flush(t, FALSE) ELSE Write(t, r)
         [] OTHER -> IF t.inEnv THEN [t EXCEPT !.env = Append(@, r)] ELSE Write(t, r)

ParseScan(text) ==
  FoldLeft(ParseChar, [esc |-> FALSE, quote |-> NoQuote, brackets |-> 0, brace |-> FALSE, inEnv |-> FALSE,
                       env |-> <<>>, missing |-> FALSE, buf |-> <<>>, words |-> <<>>, err |-> ""], text)

(* The subject is the first word, the arguments are the others.            *)
parse(text) ==
  LET s == ParseScan(text)
      t == IF s.brace THEN Write(s, "$") ELSE s
      e == IF s.err # "" THEN s.err
           ELSE IF s.quote # NoQuote THEN "quotes"
           ELSE IF s.brackets # 0 THEN "brackets"
           ELSE IF s.inEnv THEN "env" ELSE ""
  IN IF e # "" THEN [err |-> e, words |-> s.words]
     ELSE [err |-> IF s.missing THEN "missing" ELSE "", words |-> flush(t, FALSE).words]

-----------------------------------------------------------------------------
TrimBoth(w) == Reverse(TrimLeft(Reverse(TrimLeft(w))))

(* Mutant: a quote within brackets opens a quotation.                      *)
OpensQuoteMutant(s) == s.quote = NoQuote

OpensQuote(s) == s.quote = NoQuote /\ s.brackets = 0

(* splitPipe: the alternatives of a line, cut at bars outside quotes and   *)
(* brackets.                                                               *)
PipeChar(s, r) ==
  LET keep == [s EXCEPT !.cur = Append(@, r)] IN
  IF s.esc THEN [keep EXCEPT !.esc = FALSE]
  ELSE
  CASE r = "e" -> [keep EXCEPT !.esc = TRUE]
    [] r \in Quotes -> CASE OpensQuote(s) -> [keep EXCEPT !.quote = r]
                         [] s.quote = r -> [keep EXCEPT !.quote = NoQuote]
                         [] OTHER -> keep
    [] r = "(" -> [keep EXCEPT !.brackets = @ + 1]
    [] r = ")" -> IF s.brackets > 0 THEN [keep EXCEPT !.brackets = @ - 1] ELSE keep
    [] r = "|" /\ s.quote = NoQuote /\ s.brackets = 0 ->
         [s EXCEPT !.parts = Append(@, TrimBoth(s.cur)), !.cur = <<>>]
    [] OTHER -> keep

PipeScan(text) ==
  FoldLeft(PipeChar, [esc |-> FALSE, quote |-> NoQuote, brackets |-> 0, cur |-> <<>>, parts |-> <<>>], text)

splitPipe(text) ==
  LET s == PipeScan(text) IN IF s.cur = <<>> THEN s.parts ELSE Append(s.parts, TrimBoth(s.cur))

(* splitAnd: the lines of a condition, cut at every "&" (and newline),     *)
(* quoted or not; empty ones go.                                           *)
splitAnd(text) ==
  LET cut == FoldLeft(LAMBDA s, r : IF r = "&" THEN Append(s, <<>>)
                                    ELSE [s EXCEPT ![Len(s)] = Append(@, r)], <<<<>>>>, text)
  IN SelectSeq([i \in DOMAIN cut |-> TrimBoth(cut[i])], LAMBDA w : w # <<>>)

(* ExtractExpr and unquoteExpr: kind(expr), the expression perhaps quoted. *)
Indices(w, r) == {i \in DOMAIN w : w[i] = r}

ExtractExpr(w) ==
  LET open == Indices(w, "(")  close == Indices(w, ")") IN
  IF open = {} THEN [err |-> "", kind |-> <<>>, expr |-> w]
  ELSE IF close = {} THEN [err |-> "brackets", kind |-> <<>>, expr |-> <<>>]
  ELSE LET beg  == CHOOSE i \in open : \A j \in open : i <= j
           end  == CHOOSE i \in close : \A j \in close : i >= j
           in   == SubSeq(w, beg + 1, end - 1)
       IN IF in # <<>> /\ in[1] \in Quotes
            THEN IF Last(in) # in[1] THEN [err |-> "quotes", kind |-> <<>>, expr |-> <<>>]
                 ELSE [err |-> "", kind |-> SubSeq(w, 1, beg - 1), expr |-> SubSeq(in, 2, Len(in) - 1)]
            ELSE [err |-> "", kind |-> SubSeq(w, 1, beg - 1), expr |-> in]

-----------------------------------------------------------------------------
(* Templates.  A name is the longest run of letters.                       *)
NameChars == {"a", "s", "d", "e", "p", "q"} \ Quotes
NeedExpandVars(text) == \E i \in 1..Len(text)-1 : text[i] = "$" /\ text[i+1] \in NameChars

NameEnd(text, j) ==
  LET ends == {k \in j..Len(text)+1 : k = Len(text)+1 \/ text[k] \notin NameChars}
  IN CHOOSE k \in ends : \A l \in ends : k <= l

(* extractArgs: from the next opening bracket, however far, to the first   *)
(* closing one outside quotes.                                             *)
ArgChar(s, r) ==
  IF s.done THEN s
  ELSE IF s.quote # NoQuote
    THEN IF r = s.quote THEN [s EXCEPT !.quote = NoQuote, !.n = @ + 1, !.arg = 0, !.used = @ + 1]
         ELSE [s EXCEPT !.arg = @ + 1, !.used = @ + 1]
  ELSE
  CASE r \in Quotes -> [s EXCEPT !.quote = r, !.used = @ + 1]
    [] r = ")" -> [s EXCEPT !.done = TRUE, !.n = IF s.arg > 0 THEN @ + 1 ELSE @, !.used = @ + 1]
    [] r = "," -> [s EXCEPT !.n = IF s.arg > 0 THEN @ + 1 ELSE @, !.arg = 0, !.used = @ + 1]
    [] r = " " -> [s EXCEPT !.used = @ + 1]
    [] OTHER -> [s EXCEPT !.arg = @ + 1, !.used = @ + 1]

ArgScan(text) ==
  FoldLeft(ArgChar, [done |-> FALSE, quote |-> NoQuote, arg |-> 0, n |-> 0, used |-> 0], text)

extractArgs(text, j) ==
  LET open == {i \in Indices(text, "(") : i >= j}
      beg  == CHOOSE i \in open : \A k \in open : i <= k
      scan == ArgScan(SubSeq(text, beg + 1, Len(text)))
  IN IF open = {} \/ ~scan.done THEN [ok |-> FALSE, n |-> 0, next |-> 0]
     ELSE [ok |-> TRUE, n |-> scan.n, next |-> beg + scan.used]

(* The piece at position i: what is written for it and where the next one  *)
(* starts, 0 for a failure.  A value is written as v; the second argument  *)
(* of a variable is the index.                                             *)
ExpandVar(text, i) ==
  LET k == NameEnd(text, i + 1)  name == SubSeq(text, i + 1, k - 1)
      args == extractArgs(text, i + 1) IN
  CASE name = <<"d">> -> [out |-> <<"v">>, next |-> IF args.ok /\ args.n \in 1..2 THEN args.next + 1 ELSE 0]
    [] name = <<"s">> -> [out |-> <<"v">>, next |-> k]
    [] OTHER -> [out |-> <<>>, next |-> 0]

Piece(text, i) ==
  IF text[i] # "$" THEN [out |-> <<text[i]>>, next |-> i + 1]
  ELSE IF i = Len(text) THEN [out |-> <<>>, next |-> 0]
  ELSE
  CASE text[i+1] = "$" -> [out |-> <<"$">>, next |-> i + 2]
    [] text[i+1] = "{" -> [out |-> <<"$", "{">>, next |-> i + 2]
    [] text[i+1] \in NameChars -> ExpandVar(text, i)
    [] OTHER -> [out |-> <<>>, next |-> 0]

(* ExpandVars from position i: what is written, and whether it failed.     *)
ExpandVars(text) ==
  LET from[i \in 1..Len(text)+1] ==
        IF i > Len(text) THEN [out |-> <<>>, ok |-> TRUE]
        ELSE IF Piece(text, i).next = 0 THEN [out |-> <<>>, ok |-> FALSE]
        ELSE [out |-> Piece(text, i).out \o from[Piece(text, i).next].out,
              ok  |-> from[Piece(text, i).next].ok]
  IN from[1]

-----------------------------------------------------------------------------
SyntaxInit == rxText = <<>>
Type(r) == Len(rxText) < MaxText /\ rxText' = Append(rxText, r)
SyntaxNext == \E r \in Alphabet : Type(r)
SyntaxSpec == SyntaxInit /\ [][SyntaxNext]_rxText

(* The two scanners agree on what is quoted: after any text that parse has *)
(* not refused, both are inside the same quote, at the same depth of       *)
(* brackets (a bar is cut out of a line by one, and read as part of an     *)
(* argument by the other, otherwise).                                      *)
ScannersAgree ==
  LET w == ParseScan(rxText)  a == PipeScan(rxText) IN
  w.err = "" => w.quote = a.quote /\ w.brackets = a.brackets /\ w.esc = a.esc

(* The alternatives of a line that parse accepts as a whole are texts that *)
(* parse accepts: cutting leaves no open quote or bracket (parseOn calls   *)
(* itself on them).                                                        *)
PartsBalanced ==
  parse(rxText).err = "" =>
    \A i \in DOMAIN splitPipe(rxText) : parse(splitPipe(rxText)[i]).err \notin {"quotes", "brackets"}

(* An argument in quotes is one word, unchanged, whatever bars, spaces and *)
(* other quotes it has, provided that its brackets match and it has no     *)
(* escape, no "$" and not the quote itself; and splitPipe leaves it alone. *)
QuotesKeep ==
  LET line == <<"a", " ", "q">> \o rxText \o <<"q">> IN
  (ToSet(rxText) \intersect {"q", "e", "$", "}"} = {} /\ rxText # <<>>
     /\ ParseScan(line).err = "" /\ ParseScan(line).brackets = 0) =>
      /\ parse(line) = [err |-> "", words |-> <<<<"a">>, rxText>>]
      /\ splitPipe(line) = <<line>>

(* A template is expanded without loss: text without variables stays as it *)
(* is, and in an expanded text "$" is left only before "{" or where it was *)
(* doubled.                                                                *)
ExpandsAll ==
  LET e == ExpandVars(rxText) IN
  e.ok => /\ "$" \notin ToSet(rxText) => e.out = rxText
          /\ Cardinality(Indices(e.out, "$")) <= Cardinality(Indices(rxText, "$"))
          /\ \A i \in Indices(e.out, "$") :
               \E k \in 1..Len(rxText)-1 : rxText[k] = "$" /\ rxText[k+1] \in {"$", "{"}

(* The syntax of conditions, commands and templates.                       *)
SyntaxSound == ScannersAgree /\ PartsBalanced /\ QuotesKeep /\ ExpandsAll
=============================================================================
