------------------------------ MODULE LogRotate ------------------------------
(***************************************************************************)
(* Rotation of an access log file: the retention policy as it is parsed,   *)
(* the scanner that reads the file backward chunk by chunk, the choice of  *)
(* the lines to keep, and their move to the front of the file.  A line is  *)
(* [len, fmt, t]: len characters without the newline, the format it was    *)
(* written in, the time it was written at.  A byte is <<line, newline?>>.  *)
(***************************************************************************)
EXTENDS Integers, Sequences, SequencesExt, FiniteSets

CONSTANTS LogLines,      \* lines a file may hold
          MaxLogLines,   \* bound: lines of a file
          Retentions,    \* words of a retention: [n, unit]
          ChunkSize,     \* bytes per read of the scanner
          Now,           \* the time of the rotation, in days
          SizeOf         \* bytes of one "kb" and of one "KB"

(* A line that was written is not empty; time 0 is none.                   *)
ASSUME LogRotateAssumption ==
  /\ \A line \in LogLines : line.len \in Nat \ {0} /\ line.t \in Nat
  /\ MaxLogLines \in Nat /\ ChunkSize \in Nat \ {0} /\ Now \in Int
  /\ \A r \in Retentions : r.n \in Nat
  /\ \A unit \in DOMAIN SizeOf : SizeOf[unit] \in Nat

VARIABLE lr

(* Parse: "last N", "N days|weeks|months" or a size, and IsValid.          *)
ParseRetention(r) ==
  [last |-> IF r.unit = "last" THEN r.n ELSE 0,
   days |-> CASE r.unit = "days" -> r.n [] r.unit = "weeks" -> 7 * r.n
              [] r.unit = "months" -> 30 * r.n [] OTHER -> 0,
   keep |-> IF r.unit \in DOMAIN SizeOf THEN r.n * SizeOf[r.unit] ELSE 0]

IsValid(p) == p.days > 0 \/ p.last > 0 \/ p.keep > 0

(* The bytes of a file whose lines all end with a newline.                 *)
LineBytes(lines, i) == [k \in 1..lines[i].len+1 |-> <<i, k = lines[i].len + 1>>]
BytesOf(lines) == FlattenSeq([i \in 1..Len(lines) |-> LineBytes(lines, i)])

(* ParseLogTime, ExtractTime: the time follows the first bracket, which in *)
(* the common format is not the one of the time if the host has one.       *)
ParseLogTime(line) == IF line.fmt \in {"json", "common"} THEN line.t ELSE 0

RotateInit == lr = [pc |-> "idle"]

(* rotateLogFileBySize: a file that is too long is cut off at the size.    *)
BySize(state) ==
  IF state.p.keep >= Len(state.file) THEN state
  ELSE [state EXCEPT !.file = SubSeq(@, 1, state.p.keep)]

(* Rotate and rotateLogFile: by size at once, by policy after a scan.      *)
StartRotate ==
  /\ lr.pc = "idle"
  /\ \E lines \in UNION {[1..n -> LogLines] : n \in 0..MaxLogLines}, r \in Retentions :
       LET p == ParseRetention(r)
           bytes == BytesOf(lines)
           state == [pc |-> "done", p |-> p, lines |-> lines, file |-> bytes, orig |-> bytes,
                     offset |-> Len(bytes), chunk |-> << >>, keep |-> << >>, lastValid |-> FALSE,
                     nread |-> 0, nkeep |-> 0, nlines |-> 0, ninvalid |-> 0, wpos |-> 0] IN
       lr' = IF ~IsValid(p) \/ bytes = << >> THEN state
             ELSE IF p.keep > 0 THEN BySize(state)
             ELSE [state EXCEPT !.pc = "scan"]

LastNewline(c) == SelectLastInSeq(c, LAMBDA b : b[2])

(* shouldStop: as many valid lines as asked for, or a line before the      *)
(* cutoff.                                                                 *)
ShouldStop(t) ==
  IF lr.p.last > 0 THEN lr.nlines - lr.ninvalid = lr.p.last
                   ELSE t < Now - lr.p.days + 1

(* Mutant: the block moves and does not grow.                              *)
MergeMutant(size, pos) == [lr.keep EXCEPT ![Len(lr.keep)] = [pos |-> @.pos - size, size |-> @.size]]

(* A kept line in front of a kept line makes one block with it.            *)
Merge(size, pos) ==
  [lr.keep EXCEPT ![Len(lr.keep)] = [pos |-> @.pos - size, size |-> @.size + size]]

(* The body of the loop over the lines, from the last one to the first.    *)
TakeLine(line, chunk) ==
  LET size == Len(line) + 1
      pos == Len(lr.orig) - lr.nread - size
      t == ParseLogTime(lr.lines[line[1][1]])
      seen == [lr EXCEPT !.nread = @ + size, !.chunk = chunk] IN
  lr' = CASE t = 0 -> [seen EXCEPT !.ninvalid = @ + 1, !.lastValid = FALSE]
          [] t # 0 /\ ShouldStop(t) -> [seen EXCEPT !.pc = "chosen"]
          [] OTHER -> [seen EXCEPT !.keep = IF lr.lastValid THEN Merge(size, pos)
                                            ELSE Append(@, [pos |-> pos, size |-> size]),
                                   !.nkeep = @ + size, !.nlines = @ + 1, !.lastValid = TRUE]

(* Scan: the part after the last newline of the chunk is the next line,    *)
(* unless it is empty; without a newline the chunk in front is read.       *)
ScanInChunk ==
  /\ lr.pc = "scan"
  /\ LET i == LastNewline(lr.chunk)
         line == SubSeq(lr.chunk, i + 1, Len(lr.chunk))
         rest == SubSeq(lr.chunk, 1, i - 1) IN
     /\ i > 0
     /\ IF line = << >> THEN lr' = [lr EXCEPT !.chunk = rest] ELSE TakeLine(line, rest)

ScanReads ==
  /\ lr.pc = "scan" /\ LastNewline(lr.chunk) = 0 /\ lr.offset > 0
  /\ LET from == IF lr.offset > ChunkSize THEN lr.offset - ChunkSize ELSE 0 IN
     lr' = [lr EXCEPT !.offset = from, !.chunk = SubSeq(lr.file, from + 1, lr.offset) \o @]

ScanEnds ==
  /\ lr.pc = "scan" /\ LastNewline(lr.chunk) = 0 /\ lr.offset = 0
  /\ IF lr.chunk # << >> THEN TakeLine(lr.chunk, << >>) ELSE lr' = [lr EXCEPT !.pc = "chosen"]

(* Nothing to keep: an empty file.  Everything kept: the file as it is.    *)
Chosen ==
  /\ lr.pc = "chosen"
  /\ lr' = IF lr.keep = << >> THEN [lr EXCEPT !.pc = "done", !.file = << >>]
           ELSE [lr EXCEPT !.pc = IF lr.nkeep = Len(lr.orig) THEN "done" ELSE "move"]

(* fileContentMove for one block, the oldest first; after the newest the   *)
(* file is truncated.                                                      *)
MoveBlock ==
  /\ lr.pc = "move"
  /\ IF lr.keep = << >>
       THEN lr' = [lr EXCEPT !.pc = "done", !.file = SubSeq(@, 1, lr.wpos)]
       ELSE LET b == Last(lr.keep) IN
            lr' = [lr EXCEPT !.keep = Front(@), !.wpos = @ + b.size,
                     !.file = [i \in 1..Len(@) |-> IF i \in lr.wpos+1..lr.wpos+b.size
                                 THEN @[i - lr.wpos + b.pos] ELSE @[i]]]

RotateNext == StartRotate \/ ScanInChunk \/ ScanReads \/ ScanEnds \/ Chosen \/ MoveBlock
RotateSpec == RotateInit /\ [][RotateNext]_lr

-----------------------------------------------------------------------------
Valid(i) == ParseLogTime(lr.lines[i]) # 0
ValidFrom(k) == {i \in k..Len(lr.lines) : Valid(i)}
Recent(i) == ParseLogTime(lr.lines[i]) >= Now - lr.p.days + 1

(* What a policy leaves of a file: the valid lines from one on, whole and  *)
(* in order; with "last N" not fewer than N if there are as many, and not  *)
(* more than one in excess per invalid line; with days, all back to the    *)
(* last one before the cutoff.                                             *)
RotateKeepsSuffix ==
  lr.pc = "done" /\ IsValid(lr.p) /\ lr.p.keep = 0 =>
    \E k \in 1..Len(lr.lines)+1 :
      /\ lr.file = FlattenSeq([i \in 1..Len(lr.lines) |-> IF i \in ValidFrom(k) THEN LineBytes(lr.lines, i) ELSE <<>>])
      /\ IF lr.p.last > 0
           THEN /\ k > 1 => Cardinality(ValidFrom(k)) >= lr.p.last
                /\ Cardinality(ValidFrom(k)) <= lr.p.last + Cardinality((1..Len(lr.lines)) \ ValidFrom(1))
           ELSE /\ \A i \in ValidFrom(k) : Recent(i)
                /\ k > 1 => Valid(k - 1) /\ ~Recent(k - 1)

(* A move never overwrites a block that is still to be moved, and the      *)
(* block to move lies in front of nothing that was written.                *)
MovesForward ==
  lr.pc = "move" => \A i \in 1..Len(lr.keep) :
    LET b == lr.keep[i] IN
    /\ lr.wpos <= b.pos
    /\ SubSeq(lr.file, b.pos + 1, b.pos + b.size) = SubSeq(lr.orig, b.pos + 1, b.pos + b.size)

(* The rotated file is what the retention asks for (rotateLogFileByPolicy) *)
(* although it is rewritten in place.                                      *)
RotateSound == RotateKeepsSuffix /\ MovesForward
=============================================================================
