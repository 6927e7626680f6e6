----------------------------- MODULE EnvReader -----------------------------
(***************************************************************************)
(* Substitution of ${NAME} by environment variables while a configuration  *)
(* is read in chunks (internal/serialization/reader.go), against the       *)
(* substitution in the whole text (substituteEnv).                         *)
(*                                                                         *)
(* A text is a sequence of characters; a quoted value stands in the output *)
(* as one token, Value. The underlying reader is a file: a read is short   *)
(* only at the end.                                                        *)
(***************************************************************************)
EXTENDS Integers, Sequences, SequencesExt

CONSTANTS EnvTexts,           \* the texts that are read
          EnvSet,             \* the names that are set
          PeekSize, MaxVarNameLength,
          ReadSizes           \* how much the caller asks for at a time

Value == "value"
LeftBrace == "{"
RightBrace == "}"

\* A text has characters only, and a reference fits in what is peeked at.
ASSUME EnvReaderAssumption ==
  /\ \A text \in EnvTexts : text \in Seq(Range(text)) /\ Value \notin Range(text)
  /\ MaxVarNameLength \in Nat /\ PeekSize \in Nat /\ PeekSize >= MaxVarNameLength + 3
  /\ ReadSizes \subseteq Nat

VARIABLE er    \* [text, pos, out, buf, err]: err "none", "unset" or "eof"

HasClosing(s) == \E k \in DOMAIN s : s[k] = RightBrace

(***************************************************************************)
(* substituteEnv: the leftmost matches of ${ then at least one character   *)
(* that is no closing brace, then a closing brace.                         *)
(***************************************************************************)
Candidates(data) ==
  {m \in (1..Len(data)) \X (1..Len(data)) :
     /\ m[2] > m[1] + 2 /\ data[m[1]] = "$" /\ data[m[1] + 1] = LeftBrace /\ data[m[2]] = RightBrace
     /\ \A k \in (m[1] + 2)..(m[2] - 1) : data[k] # RightBrace}
Matches(data) == {m \in Candidates(data) : \A c \in Candidates(data) : c[2] = m[2] => m[1] <= c[1]}
Name(data, m) == SubSeq(data, m[1] + 2, m[2] - 1)

AllSet(data) == \A m \in Matches(data) : Name(data, m) \in EnvSet
Piecewise(data) ==
  [k \in DOMAIN data |->
    IF \E m \in Matches(data) : m[1] = k THEN <<Value>>
    ELSE IF \E m \in Matches(data) : m[1] < k /\ k <= m[2] THEN <<>> ELSE <<data[k]>>]
substituteEnv(data) == FlattenSeq(Piecewise(data))

(***************************************************************************)
(* Read.                                                                   *)
(***************************************************************************)
(* Mutant: a "$" at the end is not seen as the start of one.               *)
findIncompletePatternStartMutant(data) ==
  LET open == {i \in DOMAIN data : i < Len(data) /\ data[i] = "$" /\ data[i + 1] = LeftBrace /\ ~HasClosing(SubSeq(data, i, Len(data)))}
  IN  IF open = {} THEN 0 ELSE CHOOSE i \in open : \A j \in open : j <= i

\* Where a reference that the chunk cuts starts, 0 if there is none: a "$"
\* at the end, or "${" with no closing brace after it. The last such one.
findIncompletePatternStart(data) ==
  LET open == {i \in DOMAIN data :
                 /\ i > Len(data) - MaxVarNameLength /\ data[i] = "$"
                 /\ i = Len(data) \/ (data[i + 1] = LeftBrace /\ ~HasClosing(SubSeq(data, i, Len(data))))}
  IN  IF open = {} THEN 0 ELSE CHOOSE i \in open : \A j \in open : j <= i

Rest == SubSeq(er.text, er.pos + 1, Len(er.text))
Upto(s, n) == SubSeq(s, 1, IF n < Len(s) THEN n ELSE Len(s))

\* A reference that is cut makes the reader read on once: by PeekSize
\* characters, whatever they end in.
Chunk ==
  LET chunk == Upto(Rest, PeekSize)
      start == findIncompletePatternStart(chunk)
  IN  IF start # 0 /\ Len(chunk) - start + 1 <= MaxVarNameLength + 3
      THEN Upto(Rest, Len(chunk) + PeekSize) ELSE chunk

Deliver(s, n) == er' = [er EXCEPT !.out = @ \o Upto(s, n), !.buf = SubSeq(s, n + 1, Len(s))]

ReadBuffered(n) == er.err = "none" /\ er.buf # <<>> /\ Deliver(er.buf, n)

ReadChunk(n) ==
  /\ er.err = "none" /\ er.buf = <<>> /\ Rest # <<>> /\ AllSet(Chunk)
  /\ LET s == substituteEnv(Chunk) IN
     er' = [er EXCEPT !.pos = @ + Len(Chunk), !.out = @ \o Upto(s, n), !.buf = SubSeq(s, n + 1, Len(s))]

ReadUnset ==
  /\ er.err = "none" /\ er.buf = <<>> /\ Rest # <<>> /\ ~AllSet(Chunk)
  /\ er' = [er EXCEPT !.err = "unset"]

ReadEOF == er.err = "none" /\ er.buf = <<>> /\ Rest = <<>> /\ er' = [er EXCEPT !.err = "eof"]

EnvReaderInit == \E t \in EnvTexts : er = [text |-> t, pos |-> 0, out |-> <<>>, buf |-> <<>>, err |-> "none"]
EnvReaderNext == ReadUnset \/ ReadEOF \/ \E n \in ReadSizes : ReadBuffered(n) \/ ReadChunk(n)
EnvReaderSpec == EnvReaderInit /\ [][EnvReaderNext]_er

(***************************************************************************)
(* Properties.                                                             *)
(***************************************************************************)
\* Nothing is lost, doubled or reordered at a chunk's end or in the buffer:
\* what was delivered, with each value taken back to a reference to a name
\* that is set, is the text up to the position.
WithNames(got, name) ==
  [k \in DOMAIN got |-> IF got[k] = Value THEN <<"$", LeftBrace>> \o name[k] \o <<RightBrace>> ELSE <<got[k]>>]
Restores(got, text) ==
  \E name \in [{k \in DOMAIN got : got[k] = Value} -> EnvSet] : text = FlattenSeq(WithNames(got, name))
NothingLost == er.err # "unset" => Restores(er.out \o er.buf, SubSeq(er.text, 1, er.pos))

\* Read to the end, a text in which no reference is cut by the end of the
\* characters read on (one of at most two chunks) and no name is too long
\* has the substitution of the whole text; and it fails just when that does.
SubstitutesAll ==
  LET short == /\ Len(er.text) <= 2 * PeekSize
               /\ \A m \in Candidates(er.text) : m[2] - m[1] <= MaxVarNameLength
  IN  /\ short /\ er.err = "eof" => er.out = substituteEnv(er.text)
      /\ short /\ er.err = "unset" => ~AllSet(er.text)

\* The reader as a whole.
EnvReaderSound == NothingLost /\ SubstitutesAll
=============================================================================
