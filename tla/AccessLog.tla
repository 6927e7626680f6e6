------------------------------ MODULE AccessLog ------------------------------
(***************************************************************************)
(* The file access loggers of one path: the shared file handle with its    *)
(* reference count, the buffered writers, and the goroutine of each logger *)
(* that rotates, resizes the buffer and closes.  The loggers share the     *)
(* lock of the path, so that everything done under it is one step; Rotate  *)
(* flushes and locks again, and the handle is closed by a goroutine of its *)
(* own once its count has reached zero.                                    *)
(***************************************************************************)
EXTENDS Integers, Sequences, FiniteSets

CONSTANTS Loggers,      \* access loggers configured with the same path
          MaxLines,     \* bound: lines logged
          MaxBuffer,    \* MaxBufferSize, in lines; InitialBufferSize is 1
          KeepLast      \* retention "last N"

ASSUME AccessAssumption ==
  /\ IsFiniteSet(Loggers) /\ MaxLines \in Nat /\ MaxBuffer \in Nat \ {0} /\ KeepLast \in Nat

InitialBuffer == 1

VARIABLES
  alOpened,   \* openedFiles[path]: a handle or 0
  alHandle,   \* each handle: "none", "open", "zero", "deleted" or "closed"
  alRef,      \* refCount of each handle
  alPos,      \* file offset of each handle, in lines
  alFile,     \* lines in the file, each <<logger, number>>
  alUse,      \* the handle each logger writes to, 0 before it is created
  alBuf,      \* buffered lines of each logger
  alSize,     \* bufSize of each logger
  alCount,    \* writeCount of each logger
  alPc,       \* goroutine of each logger: "none", "loop", "rotate", "closing", "ended"
  alDone,     \* loggers whose task is cancelled
  alClosed,   \* loggers with closed = TRUE
  alTotal,    \* lines accepted so far
  alRotated,  \* lines dropped by a rotation
  alRaced     \* loggers that were handed a handle whose count had reached zero

alVars == <<alOpened, alHandle, alRef, alPos, alFile, alUse, alBuf, alSize, alCount,
            alPc, alDone, alClosed, alTotal, alRotated, alRaced>>

Handles == 1..Cardinality(Loggers)

AccessInit ==
  /\ alOpened = 0
  /\ alHandle = [h \in Handles |-> "none"]
  /\ alRef = [h \in Handles |-> 0]
  /\ alPos = [h \in Handles |-> 0]
  /\ alFile = << >>
  /\ alUse = [l \in Loggers |-> 0]
  /\ alBuf = [l \in Loggers |-> << >>]
  /\ alSize = [l \in Loggers |-> InitialBuffer]
  /\ alCount = [l \in Loggers |-> 0]
  /\ alPc = [l \in Loggers |-> "none"]
  /\ alDone = {} /\ alClosed = {} /\ alTotal = 0 /\ alRotated = {} /\ alRaced = {}

-----------------------------------------------------------------------------

(* The reference a logger takes with the handle.                           *)
AddRef(h) == [alRef EXCEPT ![h] = @ + 1]

(* OpenFile and NewFileAccessLogger: the handle of the path is shared as   *)
(* long as openedFiles holds it, whatever its count.                       *)
OpenFile(l) ==
  /\ alUse[l] = 0
  /\ \E h \in Handles :
       /\ IF alOpened # 0
          THEN h = alOpened /\ UNCHANGED <<alOpened, alHandle, alPos>>
          ELSE /\ alHandle[h] = "none" /\ \A k \in 1..h-1 : alHandle[k] # "none"
               /\ alOpened' = h
               /\ alHandle' = [alHandle EXCEPT ![h] = "open"]
               /\ alPos' = [alPos EXCEPT ![h] = Len(alFile)]
       /\ alRef' = AddRef(h)
       /\ alUse' = [alUse EXCEPT ![l] = h]
       /\ alRaced' = IF alHandle[h] = "zero" THEN alRaced \union {l} ELSE alRaced
  /\ alPc' = [alPc EXCEPT ![l] = "loop"]
  /\ UNCHANGED <<alFile, alBuf, alSize, alCount, alDone, alClosed, alTotal, alRotated>>

(* The buffered writer hands the lines to the file, at the offset of the   *)
(* handle; a closed handle takes none of them, and they are gone.          *)
Written(f, p, lines) ==
  [i \in 1..(IF p + Len(lines) > Len(f) THEN p + Len(lines) ELSE Len(f)) |->
     IF i \in p+1..p+Len(lines) THEN lines[i-p]
     ELSE IF i <= Len(f) THEN f[i] ELSE <<"hole", 0>>]

WritesOut(l, lines) ==
  LET h == alUse[l] IN
  IF alHandle[h] = "closed"
    THEN UNCHANGED <<alFile, alPos>>
    ELSE /\ alFile' = Written(alFile, alPos[h], lines)
         /\ alPos' = [alPos EXCEPT ![h] = @ + Len(lines)]

(* handleErr ends the logger when errors come faster than the limiter lets *)
(* through.                                                                *)
HandleErr(l, failed) ==
  \/ UNCHANGED alDone
  \/ failed /\ alDone' = alDone \union {l}

(* LogRequest, LogACL: write under the lock; a full buffer goes to the     *)
(* file first, a closed logger drops the line.                             *)
LogRequest(l) ==
  /\ alUse[l] # 0 /\ l \notin alClosed /\ alTotal < MaxLines
  /\ LET full == Len(alBuf[l]) = alSize[l]
         line == <<l, alTotal + 1>> IN
     /\ IF full THEN WritesOut(l, alBuf[l]) ELSE UNCHANGED <<alFile, alPos>>
     /\ alBuf' = [alBuf EXCEPT ![l] = IF full THEN <<line>> ELSE Append(@, line)]
     /\ HandleErr(l, full /\ alHandle[alUse[l]] = "closed")
  /\ alTotal' = alTotal + 1
  /\ alCount' = [alCount EXCEPT ![l] = @ + 1]
  /\ UNCHANGED <<alOpened, alHandle, alRef, alUse, alSize, alPc, alClosed,
                 alRotated, alRaced>>

CancelLogger(l) ==
  /\ alUse[l] # 0 /\ l \notin alDone
  /\ alDone' = alDone \union {l}
  /\ UNCHANGED <<alOpened, alHandle, alRef, alPos, alFile, alUse, alBuf, alSize, alCount,
                 alPc, alClosed, alTotal, alRotated, alRaced>>

-----------------------------------------------------------------------------
(* The rotate ticker: Rotate flushes the own buffer and releases the lock. *)

FlushBuffer(l) ==
  /\ WritesOut(l, alBuf[l])
  /\ alBuf' = [alBuf EXCEPT ![l] = << >>]

RotateFlush(l) ==
  /\ alPc[l] = "loop" /\ l \notin alDone
  /\ FlushBuffer(l)
  /\ alPc' = [alPc EXCEPT ![l] = "rotate"]
  /\ UNCHANGED <<alOpened, alHandle, alRef, alUse, alSize, alCount, alDone, alClosed,
                 alTotal, alRotated, alRaced>>

(* Lines in front of the ones the policy keeps.                            *)
NumCut == IF Len(alFile) > KeepLast THEN Len(alFile) - KeepLast ELSE 0

(* Mutant: the position stays where it was before the file shrank.         *)
SeekEndMutant(h) == alPos

SeekEnd(h) == [alPos EXCEPT ![h] = Len(alFile')]

(* rotateLogFile under the lock: the newest lines move to the front, the   *)
(* rest is truncated, and the handle seeks to the new end.                 *)
RotateFile(l) ==
  /\ alPc[l] = "rotate"
  /\ LET h == alUse[l]
         cut == NumCut IN
     IF alHandle[h] = "closed"
       THEN HandleErr(l, TRUE) /\ UNCHANGED <<alFile, alPos, alRotated>>
       ELSE /\ alFile' = SubSeq(alFile, cut + 1, Len(alFile))
            /\ alRotated' = alRotated \union {alFile[i] : i \in 1..cut}
            /\ alPos' = SeekEnd(h)
            /\ UNCHANGED alDone
  /\ alPc' = [alPc EXCEPT ![l] = "loop"]
  /\ UNCHANGED <<alOpened, alHandle, alRef, alUse, alBuf, alSize, alCount, alClosed,
                 alTotal, alRaced>>

(* adjustBuffer: half the distance to the rate, or half the rate if that   *)
(* is more, within the limits; Resize flushes what is buffered.            *)
NewBufSize(size, wps) ==
  LET diff == IF wps > size THEN (wps - size) \div 2 ELSE (size - wps) \div 2
      step == IF diff > wps \div 2 THEN diff ELSE wps \div 2 IN
  CASE size < wps -> IF size + step > MaxBuffer THEN MaxBuffer ELSE size + step
    [] size > wps -> IF size - step < InitialBuffer THEN InitialBuffer ELSE size - step
    [] OTHER      -> size

AdjustBuffer(l) ==
  /\ alPc[l] = "loop" /\ l \notin alDone
  /\ alCount[l] > 0 \/ alSize[l] > InitialBuffer
  /\ alCount' = [alCount EXCEPT ![l] = 0]
  /\ LET size == NewBufSize(alSize[l], alCount[l]) IN
     IF size = alSize[l]
       THEN UNCHANGED <<alSize, alBuf, alFile, alPos, alDone>>
       ELSE /\ FlushBuffer(l)
            /\ LET failed == alHandle[alUse[l]] = "closed" /\ alBuf[l] # << >> IN
               /\ HandleErr(l, failed)
               /\ alSize' = IF failed THEN alSize ELSE [alSize EXCEPT ![l] = size]
  /\ UNCHANGED <<alOpened, alHandle, alRef, alUse, alPc, alClosed, alTotal, alRotated,
                 alRaced>>

-----------------------------------------------------------------------------
(* The deferred end of start: Flush, then Close, each under the lock.      *)
EndFlush(l) ==
  /\ alPc[l] = "loop" /\ l \in alDone
  /\ FlushBuffer(l)
  /\ alPc' = [alPc EXCEPT ![l] = "closing"]
  /\ UNCHANGED <<alOpened, alHandle, alRef, alUse, alSize, alCount, alDone, alClosed,
                 alTotal, alRotated, alRaced>>

(* Mutant: the count is looked at before it is decremented.                *)
SubRefMutant(h) == IF alRef[h] = 0 THEN [alHandle EXCEPT ![h] = "zero"] ELSE alHandle

(* refCount.Sub: the count that reaches zero is signalled, once.           *)
SubRef(h) ==
  IF alRef[h] = 1 /\ alHandle[h] = "open" THEN [alHandle EXCEPT ![h] = "zero"] ELSE alHandle

(* Close flushes again, since lines may have come after EndFlush, marks    *)
(* the logger closed and gives its reference back.                         *)
Close(l) ==
  /\ alPc[l] = "closing"
  /\ FlushBuffer(l)
  /\ alClosed' = alClosed \union {l}
  /\ LET h == alUse[l] IN
     /\ alRef' = [alRef EXCEPT ![h] = @ - 1]
     /\ alHandle' = SubRef(h)
  /\ alPc' = [alPc EXCEPT ![l] = "ended"]
  /\ UNCHANGED <<alOpened, alUse, alSize, alCount, alDone, alTotal, alRotated, alRaced>>

(* closeOnZero: the handle leaves the map under the lock, then is closed.  *)
DeleteHandle(h) ==
  /\ alHandle[h] = "zero"
  /\ alHandle' = [alHandle EXCEPT ![h] = "deleted"]
  /\ alOpened' = 0
  /\ UNCHANGED <<alRef, alPos, alFile, alUse, alBuf, alSize, alCount, alPc, alDone,
                 alClosed, alTotal, alRotated, alRaced>>

CloseHandle(h) ==
  /\ alHandle[h] = "deleted"
  /\ alHandle' = [alHandle EXCEPT ![h] = "closed"]
  /\ UNCHANGED <<alOpened, alRef, alPos, alFile, alUse, alBuf, alSize, alCount, alPc,
                 alDone, alClosed, alTotal, alRotated, alRaced>>

AccessNext ==
  \/ \E l \in Loggers : \/ OpenFile(l) \/ LogRequest(l) \/ CancelLogger(l) \/ RotateFlush(l)
                        \/ RotateFile(l) \/ AdjustBuffer(l) \/ EndFlush(l) \/ Close(l)
  \/ \E h \in Handles : DeleteHandle(h) \/ CloseHandle(h)

AccessSpec == AccessInit /\ [][AccessNext]_alVars

(* Goroutines of the loggers and of the handles run on once they can.      *)
AccessFairness ==
  /\ \A l \in Loggers : WF_alVars(RotateFile(l)) /\ WF_alVars(EndFlush(l) \/ Close(l))
  /\ \A h \in Handles : WF_alVars(DeleteHandle(h)) /\ WF_alVars(CloseHandle(h))

-----------------------------------------------------------------------------
LinesIn(s) == {s[i] : i \in 1..Len(s)}

(* The count of a handle is the number of loggers that opened it and have  *)
(* not closed, so that the file under a logger that still writes is never  *)
(* closed by the end of another one; the only exception is a logger that   *)
(* was handed a handle on its way out (closeOnZero, OpenFile).             *)
AccessHandlesCounted ==
  /\ \A h \in Handles : alRef[h] = Cardinality({l \in Loggers \ alClosed : alUse[l] = h})
  /\ \A l \in Loggers \ (alClosed \union alRaced) : alUse[l] # 0 => alHandle[alUse[l]] = "open"

Buffered == UNION {LinesIn(alBuf[l]) : l \in Loggers}

(* Without that race every accepted line is in the file, in a buffer, or   *)
(* was dropped by a rotation: two loggers on one file overwrite nothing of *)
(* each other, whatever rotates, resizes or closes in between.             *)
AccessNothingLost ==
  alRaced = {} => alTotal = Cardinality(LinesIn(alFile) \union alRotated \union Buffered)

Older(x, y) == x[1] = y[1] => x[2] < y[2]
Ordered(s)  == \A i, j \in 1..Len(s) : i < j => Older(s[i], s[j])

(* Lines of one logger are in the file in the order they were logged, the  *)
(* buffered ones are newer than these, and rotation takes the oldest.      *)
AccessInOrder ==
  alRaced = {} =>
    /\ Ordered(alFile) /\ \A l \in Loggers : Ordered(alBuf[l])
    /\ \A x \in LinesIn(alFile), y \in Buffered : Older(x, y)
    /\ \A x \in alRotated, y \in LinesIn(alFile) \union Buffered : Older(x, y)

AccessSound == AccessHandlesCounted /\ AccessNothingLost /\ AccessInOrder

(* Once every logger has been cancelled the file is closed and forgotten   *)
(* (the goroutine of each logger ends, closeOnZero follows).               *)
AccessFileCloses ==
  (\A l \in Loggers : alUse[l] # 0 /\ l \in alDone)
    ~> (alOpened = 0 /\ \A h \in Handles : alHandle[h] \in {"none", "closed"})
=============================================================================
