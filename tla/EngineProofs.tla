----------------------------- MODULE EngineProofs -----------------------------
(***************************************************************************)
(* Proofs about Engine, for any set of paths, writers and streams and any  *)
(* bounds.                                                                 *)
(***************************************************************************)
EXTENDS Engine, TLAPS

USE NoPathAssumption, BoundsAssumption, DelayAssumption

\* The states a task starts and ends in are stream states.
LEMMA NewStreamType == NewStream \in StreamState /\ NoStream \in StreamState
<1>1. /\ 1 \in 1..MaxCounter + 1
      /\ 0 \in 0..MaxCounter
      /\ 0 \in Time
      /\ {} \in SUBSET Counter
  BY DEF Time
<1>2. NewStream \in StreamState
  BY <1>1 DEF NewStream, StreamState, PC
<1>3. NoStream \in StreamState
  BY <1>2 DEF NoStream, StreamState, PC
<1>4. QED
  BY <1>2, <1>3

\* ForgetAll keeps the types of the tables.
LEMMA ForgetAllType ==
  ASSUME TypeOK, NEW cs \in SUBSET Counter, ForgetAll(cs)
  PROVE  /\ dirtyTable' \in [Path -> 0..MaxCounter]
         /\ dirtyLog' \in [Counter -> Path \cup {NoPath}]
         /\ dirtyCounter' \in 0..MaxCounter
         /\ failedJob' \in [Counter -> [count : 0..MaxFailures, until : Time]]
  BY DEF TypeOK, ForgetAll, NoFailure, Time, IsLogged

\* Assigning fields of a stream's state, in the combinations build_jobs uses.
LEMMA StreamUpdate ==
  ASSUME NEW st \in StreamState
  PROVE  /\ \A pc \in PC : [st EXCEPT !.pc = pc] \in StreamState
         /\ \A chan \in 0..MaxCounter : [st EXCEPT !.chan = chan] \in StreamState
         /\ \A chan \in 0..MaxCounter, pc \in PC :
              [st EXCEPT !.chan = chan, !.pc = pc] \in StreamState
         /\ \A pc \in PC, job, last \in 0..MaxCounter :
              [st EXCEPT !.pc = pc, !.job = job, !.last = last] \in StreamState
         /\ \A start \in 1..MaxCounter + 1, job, last \in 0..MaxCounter, pc \in PC :
              [st EXCEPT !.start = start, !.last = last, !.job = job, !.pc = pc] \in StreamState
         /\ \A pc \in PC, due \in SUBSET Counter, until \in Time :
              [st EXCEPT !.pc = pc, !.due = due, !.until = until] \in StreamState
         /\ \A retry \in SUBSET Counter, lower \in Time :
              [st EXCEPT !.retry = retry, !.lower = lower] \in StreamState
         /\ \A retry \in SUBSET Counter, job \in 0..MaxCounter, pc \in PC :
              [st EXCEPT !.retry = retry, !.job = job, !.pc = pc] \in StreamState
  BY DEF StreamState

\* What TypeOK says of a stream's fields.
LEMMA StreamFields ==
  ASSUME TypeOK, NEW s \in Stream
  PROVE  /\ stream[s] \in StreamState
         /\ stream[s].pc \in PC
         /\ stream[s].start \in 1..MaxCounter + 1
         /\ stream[s].last \in 0..MaxCounter
         /\ stream[s].job \in 0..MaxCounter
         /\ stream[s].lower \in Time
         /\ stream[s].until \in Time
         /\ stream[s].due \in SUBSET Counter
         /\ stream[s].retry \in SUBSET Counter
         /\ stream[s].chan \in 0..MaxCounter
  BY DEF TypeOK, StreamState

\* The state Scanned computes is a stream state.
LEMMA ScannedType ==
  ASSUME TypeOK, NEW s \in Stream, NEW job \in 0..MaxCounter, NEW last \in 0..MaxCounter
  PROVE  Scanned(s, job, last) \in StreamState
<1> DEFINE start == IF last = 0 THEN stream[s].start ELSE last + 1
           pc == IF job = 0 THEN "evaluate" ELSE "check"
<1>1. start \in 1..MaxCounter + 1
  BY StreamFields
<1>2. pc \in PC
  BY DEF PC
<1>3. Scanned(s, job, last)
        = [stream[s] EXCEPT !.start = start, !.last = last, !.job = job, !.pc = pc]
  BY DEF Scanned
<1> HIDE DEF start, pc
<1>4. QED
  BY <1>1, <1>2, <1>3, StreamFields DEF StreamState

\* A task that stops waiting is left in a stream state.
LEMMA WaitOverType ==
  ASSUME TypeOK, NEW s \in Stream, NEW pc \in PC
  PROVE  WaitOver(s, pc) \in StreamState
<1>1. WaitOver(s, pc) = [stream[s] EXCEPT !.pc = pc, !.due = {}, !.until = 0]
  BY StreamFields DEF WaitOver, StreamState
<1>2. 0 \in Time /\ {} \in SUBSET Counter
  BY DEF Time
<1>3. QED
  BY <1>1, <1>2, StreamFields DEF StreamState

\* Each action keeps the types.
LEMMA TypeStep == ASSUME TypeOK, [Next]_vars PROVE TypeOK'
<1>1. ASSUME NEW w \in Writer, NEW p \in Path, Change(w, p) PROVE TypeOK'
  BY <1>1, SMTT(40) DEF Change, MarkDirty, TypeOK, NoFailure, Superseded, Counter, Time
<1>2. ASSUME NEW p \in Path, Satisfy(p) PROVE TypeOK'
  BY <1>2 DEF Satisfy, TypeOK, tables, history
<1>3. ASSUME NEW w \in Writer, AfterCommit(w) PROVE TypeOK'
  BY <1>3 DEF AfterCommit, TypeOK, tables, history
<1>4. ASSUME NEW s \in Stream, NEW c \in Counter, JobDone(s, c) PROVE TypeOK'
  <2>1. CASE IsLogged(c)
    <3>1. ForgetAll({c}) /\ settled' = settled \cup {dirtyLog[c]}
      BY <1>4, <2>1 DEF JobDone
    <3>2. dirtyLog[c] \in Path
      BY <2>1 DEF TypeOK, IsLogged
    <3>3. QED
      BY <1>4, <3>1, <3>2, ForgetAllType DEF JobDone, TypeOK
  <2>2. CASE ~IsLogged(c)
    BY <1>4, <2>2 DEF JobDone, TypeOK, tables
  <2>3. QED
    BY <2>1, <2>2
<1>5. NotifyFailedJob => stream' \in [Stream -> StreamState]
  <2>1. \A s \in Stream : [stream[s] EXCEPT !.pc = "evaluate"] \in StreamState
    BY StreamFields, StreamUpdate DEF PC
  <2>2. QED
    BY <2>1, StreamFields DEF NotifyFailedJob
<1>6. ASSUME NEW s \in Stream, NEW c \in Counter, JobFailed(s, c) PROVE TypeOK'
  <2>1. CASE ~IsLogged(c)
    BY <1>6, <2>1 DEF JobFailed, TypeOK, tables
  <2>2. CASE IsLogged(c) /\ Delay[failedJob[c].count + 1] = 0
    <3>1. ForgetAll({c}) /\ settled' = settled \cup {dirtyLog[c]} /\ NotifyFailedJob
      BY <1>6, <2>2 DEF JobFailed
    <3>2. dirtyLog[c] \in Path
      BY <2>2 DEF TypeOK, IsLogged
    <3>3. QED
      BY <1>5, <1>6, <3>1, <3>2, ForgetAllType DEF JobFailed, TypeOK
  <2>3. CASE IsLogged(c) /\ Delay[failedJob[c].count + 1] > 0
    BY <1>5, <1>6, <2>3 DEF JobFailed, TypeOK, Time
  <2>4. QED
    BY <1>6, <2>1, <2>2, <2>3 DEF JobFailed
<1>7. ASSUME NEW s \in Stream, NextJob(s) PROVE TypeOK'
  <2>1. PICK job \in 0..MaxCounter, last \in 0..MaxCounter :
          stream' = [stream EXCEPT ![s] =
            IF last > stream[s].start
            THEN [@ EXCEPT !.pc = "delete", !.job = job, !.last = last]
            ELSE Scanned(s, job, last)]
    BY <1>7 DEF NextJob
  <2>2. [stream[s] EXCEPT !.pc = "delete", !.job = job, !.last = last] \in StreamState
    BY StreamFields, StreamUpdate DEF PC
  <2>3. stream' \in [Stream -> StreamState]
    BY <2>1, <2>2, ScannedType DEF TypeOK
  <2>4. QED
    BY <1>7, <2>3 DEF NextJob, TypeOK, tables, history
<1>8. ASSUME NEW s \in Stream, DeleteRange(s) PROVE TypeOK'
  <2>1. RangeToDelete(stream[s].start, stream[s].last) \in SUBSET Counter
    BY DEF RangeToDelete
  <2>2. stream[s].job \in 0..MaxCounter /\ stream[s].last \in 0..MaxCounter
    BY DEF TypeOK, StreamState
  <2>3. stream' \in [Stream -> StreamState]
    BY <1>8, <2>2, ScannedType DEF DeleteRange, TypeOK
  <2>4. QED
    BY <1>8, <2>1, <2>3, ForgetAllType DEF DeleteRange, TypeOK, history
<1>9. ASSUME NEW s \in Stream, CheckFailed(s) PROVE TypeOK'
  <2>1. stream' \in [Stream -> StreamState]
    BY <1>9, StreamFields, StreamUpdate DEF CheckFailed, TypeOK, PC
  <2>2. QED
    BY <1>9, <2>1 DEF CheckFailed, TypeOK, tables, history
<1>10. ASSUME NEW s \in Stream, SendJob(s) PROVE TypeOK'
  <2> DEFINE pc == IF stream[s].pc = "send" THEN "next" ELSE AfterRetry(stream[s].retry)
  <2>1. pc \in PC
    BY DEF AfterRetry, PC
  <2>2. CASE s \in open
    <3>1. stream' = [stream EXCEPT ![s] = [@ EXCEPT !.chan = stream[s].job, !.pc = pc]]
      BY <1>10, <2>2 DEF SendJob
    <3> HIDE DEF pc
    <3>2. [stream[s] EXCEPT !.chan = stream[s].job, !.pc = pc] \in StreamState
      BY <2>1, StreamFields, StreamUpdate
    <3>3. stream' \in [Stream -> StreamState]
      BY <3>1, <3>2 DEF TypeOK
    <3>4. QED
      BY <1>10, <2>2, <3>3, StreamFields DEF SendJob, TypeOK, tables
  <2>3. CASE s \notin open
    BY <1>10, <2>3, NewStreamType DEF SendJob, TypeOK, tables
  <2>4. QED
    BY <2>2, <2>3
<1>11. ASSUME NEW s \in Stream, EvaluateBackoff(s) PROVE TypeOK'
  <2> DEFINE later == {c \in Counter : IsFailed(c) /\ failedJob[c].until > stream[s].lower}
             first == {c \in later : \A d \in later : failedJob[c].until <= failedJob[d].until}
             until == IF first = {} THEN 0 ELSE failedJob[CHOOSE c \in first : TRUE].until
  <2>1. until \in Time
    <3>1. CASE first = {}
      BY <3>1 DEF Time
    <3>2. CASE first # {}
      <4>1. (CHOOSE c \in first : TRUE) \in Counter
        BY <3>2
      <4>2. QED
        BY <3>2, <4>1 DEF TypeOK
    <3>3. QED
      BY <3>1, <3>2
  <2>2. first \in SUBSET Counter
    OBVIOUS
  <2>3. stream' = [stream EXCEPT ![s] = [@ EXCEPT !.pc = "sleep", !.due = first, !.until = until]]
    BY <1>11 DEF EvaluateBackoff
  <2> HIDE DEF first, until
  <2>4. stream' \in [Stream -> StreamState]
    BY <2>1, <2>2, <2>3, StreamFields, StreamUpdate DEF TypeOK, PC
  <2>5. QED
    BY <1>11, <2>4 DEF EvaluateBackoff, TypeOK, tables, history
<1>12. ASSUME NEW s \in Stream, BackoffElapsed(s) PROVE TypeOK'
  <2>1. stream' \in [Stream -> StreamState]
    <3>1. WaitOver(s, "retry") \in StreamState
      BY WaitOverType DEF PC
    <3>2. QED
      BY <1>12, <3>1, StreamFields, StreamUpdate DEF BackoffElapsed, TypeOK
  <2>2. QED
    BY <1>12, <2>1 DEF BackoffElapsed, TypeOK, tables, history
<1>13. ASSUME NEW s \in Stream, BuildRetry(s) PROVE TypeOK'
  <2>1. PICK c \in stream[s].retry :
          stream' = [stream EXCEPT ![s] = [@ EXCEPT
            !.retry = stream[s].retry \ {c},
            !.job = c,
            !.pc = IF IsLogged(c) /\ dirtyLog[c] \in wanted
                   THEN "resend"
                   ELSE AfterRetry(stream[s].retry \ {c})]]
    BY <1>13 DEF BuildRetry
  <2> DEFINE rest == stream[s].retry \ {c}
             pc == IF IsLogged(c) /\ dirtyLog[c] \in wanted THEN "resend" ELSE AfterRetry(rest)
  <2>2. pc \in PC
    BY DEF AfterRetry, PC
  <2>3. rest \in SUBSET Counter /\ c \in 0..MaxCounter
    BY StreamFields DEF Counter
  <2>4. stream' = [stream EXCEPT ![s] = [@ EXCEPT !.retry = rest, !.job = c, !.pc = pc]]
    BY <2>1
  <2> HIDE DEF rest, pc
  <2>5. [stream[s] EXCEPT !.retry = rest, !.job = c, !.pc = pc] \in StreamState
    BY <2>2, <2>3, StreamFields, StreamUpdate
  <2>6. stream' \in [Stream -> StreamState]
    BY <2>4, <2>5 DEF TypeOK
  <2>7. QED
    BY <1>13, <2>6 DEF BuildRetry, TypeOK, tables, history
<1>14. ASSUME NEW s \in Stream, WakeUp(s) PROVE TypeOK'
  <2>1. stream' \in [Stream -> StreamState]
    BY <1>14, WaitOverType DEF WakeUp, TypeOK, PC
  <2>2. QED
    BY <1>14, <2>1 DEF WakeUp, TypeOK, tables, history
<1>15. ASSUME NEW s \in Stream, NoticeClosed(s) PROVE TypeOK'
  BY <1>15, NewStreamType DEF NoticeClosed, TypeOK, tables, history
<1>16. ASSUME NEW s \in Stream, TakeJob(s) PROVE TypeOK'
  <2>1. stream' \in [Stream -> StreamState]
    <3>1. 0 \in 0..MaxCounter
      OBVIOUS
    <3>2. [stream[s] EXCEPT !.chan = 0] \in StreamState
      BY <3>1, StreamFields DEF StreamState
    <3>3. QED
      BY <1>16, <3>2 DEF TakeJob, TypeOK
  <2>2. stream[s].chan \in Counter
    BY <1>16, StreamFields DEF TakeJob, Counter
  <2>3. QED
    BY <1>16, <2>1, <2>2 DEF TakeJob, TypeOK, tables, history
<1>17. ASSUME NEW s \in Stream, CloseStream(s) PROVE TypeOK'
  <2>1. stream' \in [Stream -> StreamState]
    <3>1. 0 \in 0..MaxCounter
      OBVIOUS
    <3>2. [stream[s] EXCEPT !.chan = 0] \in StreamState
      BY <3>1, StreamFields DEF StreamState
    <3>3. QED
      BY <1>17, <3>2 DEF CloseStream, TypeOK
  <2>2. QED
    BY <1>17, <2>1 DEF CloseStream, TypeOK, tables, history
<1>18. ASSUME NEW s \in Stream, OpenStream(s) PROVE TypeOK'
  BY <1>18, NewStreamType DEF OpenStream, TypeOK, tables
<1>19. ASSUME Restart PROVE TypeOK'
  BY <1>19, NewStreamType DEF Restart, TypeOK, tables
<1>20. ASSUME Tick PROVE TypeOK'
  BY <1>20 DEF Tick, TypeOK, Time, tables, history
<1>21. ASSUME UNCHANGED vars PROVE TypeOK'
  BY <1>21 DEF vars, TypeOK, tables, history
<1>22. QED
  BY <1>1, <1>2, <1>3, <1>4, <1>6, <1>7, <1>8, <1>9, <1>10, <1>11, <1>12, <1>13,
     <1>14, <1>15, <1>16, <1>17, <1>18, <1>19, <1>20, <1>21 DEF Next, BuildJobs

\* The initial state has the types.
LEMMA TypeInit == Init => TypeOK
  BY NewStreamType DEF Init, TypeOK, NoFailure, Counter, Time

\* TypeOK is an invariant: counters, log entries and the tasks' local state
\* stay in range whatever the interleaving of writers, streams and reports.
THEOREM TypeCorrect == Spec => []TypeOK
<1>1. TypeOK /\ [Next]_vars => TypeOK'
  BY TypeStep
<1>2. QED
  BY TypeInit, <1>1, PTL DEF Spec

-----------------------------------------------------------------------------
(* TablesAgree, LogBelowCounter, ScanStillValid and NoLostWork.            *)

\* The actions that leave the tables alone.
LEMMA ReadOnlyAgree ==
  ASSUME TablesAgree, LogBelowCounter, UNCHANGED tables
  PROVE  TablesAgree' /\ LogBelowCounter'
  BY DEF TablesAgree, LogBelowCounter, tables, IsLogged, IsFailed

\* Removing log entries together with the marks of their paths keeps the two
\* tables inverse of each other.
LEMMA ForgetAllAgree ==
  ASSUME TypeOK, TablesAgree, LogBelowCounter, NEW cs \in SUBSET Counter, ForgetAll(cs)
  PROVE  TablesAgree' /\ LogBelowCounter'
<1>1. \A p \in Path : dirtyTable'[p] # 0 => dirtyTable'[p] = dirtyTable[p] /\ dirtyTable[p] \notin cs
  BY DEF ForgetAll, TypeOK, TablesAgree, IsLogged, Counter
<1>2. \A c \in Counter : dirtyLog'[c] # NoPath => c \notin cs /\ dirtyLog'[c] = dirtyLog[c]
  BY DEF ForgetAll
<1>3. \A p \in Path : dirtyTable'[p] # 0 => dirtyLog'[dirtyTable'[p]] = p
  BY <1>1 DEF ForgetAll, TypeOK, TablesAgree, Counter
<1>4. \A c \in Counter : dirtyLog'[c] # NoPath => dirtyTable'[dirtyLog'[c]] = c
  <2> SUFFICES ASSUME NEW c \in Counter, dirtyLog'[c] # NoPath
               PROVE  dirtyTable'[dirtyLog[c]] = c
    BY <1>2
  <2>1. c \notin cs /\ dirtyLog[c] \in Path /\ dirtyTable[dirtyLog[c]] = c
    BY <1>2 DEF TypeOK, TablesAgree, IsLogged
  <2>2. \A d \in cs : IsLogged(d) => dirtyLog[d] # dirtyLog[c]
    BY <2>1 DEF TablesAgree
  <2>3. QED
    BY <2>1, <2>2 DEF ForgetAll
<1>5. \A c \in Counter : failedJob'[c].count > 0 => dirtyLog'[c] # NoPath
  BY DEF ForgetAll, TablesAgree, IsFailed, IsLogged, NoFailure
<1>6. LogBelowCounter'
  BY <1>2 DEF LogBelowCounter, IsLogged, ForgetAll
<1>7. QED
  BY <1>3, <1>4, <1>5, <1>6 DEF TablesAgree, IsLogged, IsFailed

\* mark_dirty keeps the two tables inverse of each other.
LEMMA MarkDirtyAgree ==
  ASSUME TypeOK, TablesAgree, LogBelowCounter, NEW w \in Writer, NEW p \in Path,
         MarkDirty(w, p)
  PROVE  TablesAgree' /\ LogBelowCounter'
<1> DEFINE new == dirtyCounter + 1
<1>1. new \in Counter /\ dirtyLog[new] = NoPath /\ new # 0
  BY DEF MarkDirty, TypeOK, LogBelowCounter, IsLogged, Counter
<1>2. \A q \in Path : dirtyTable[q] # new
  BY <1>1 DEF TablesAgree, TypeOK
<1>3. dirtyTable'[p] = new /\ dirtyLog'[new] = p
  BY <1>1 DEF MarkDirty, TypeOK
<1>4. \A q \in Path \ {p} : dirtyTable'[q] = dirtyTable[q]
  BY DEF MarkDirty, TypeOK
<1>5. \A c \in Counter \ {new} :
        dirtyLog'[c] = IF c = dirtyTable[p] THEN NoPath ELSE dirtyLog[c]
  BY DEF MarkDirty, Superseded, Counter
<1>6. \A c \in Counter \ {new} : dirtyLog'[c] # NoPath =>
        dirtyLog'[c] \in Path \ {p} /\ dirtyLog'[c] = dirtyLog[c]
  BY <1>5 DEF TablesAgree, TypeOK, IsLogged
<1>7. \A q \in Path : dirtyTable'[q] # 0 => dirtyLog'[dirtyTable'[q]] = q
  <2> SUFFICES ASSUME NEW q \in Path \ {p}, dirtyTable[q] # 0
               PROVE  dirtyLog'[dirtyTable[q]] = q
    BY <1>3, <1>4
  <2>1. dirtyTable[q] \in Counter \ {new} /\ dirtyLog[dirtyTable[q]] = q
    BY <1>2 DEF TablesAgree, TypeOK, Counter
  <2>2. dirtyTable[q] # dirtyTable[p]
    BY <2>1 DEF TablesAgree, TypeOK
  <2>3. QED
    BY <1>5, <2>1, <2>2
<1>8. \A c \in Counter : dirtyLog'[c] # NoPath => dirtyTable'[dirtyLog'[c]] = c
  <2> SUFFICES ASSUME NEW c \in Counter \ {new}, dirtyLog'[c] # NoPath
               PROVE  dirtyTable'[dirtyLog'[c]] = c
    BY <1>3
  <2>1. dirtyTable[dirtyLog[c]] = c
    BY <1>6 DEF TablesAgree, IsLogged
  <2>2. QED
    BY <1>4, <1>6, <2>1
<1>9. \A c \in Counter : failedJob'[c].count > 0 => dirtyLog'[c] # NoPath
  <2> SUFFICES ASSUME NEW c \in Counter, failedJob'[c].count > 0, c # new
               PROVE  dirtyLog'[c] # NoPath
    BY <1>3
  <2>1. failedJob[c].count > 0 /\ c # dirtyTable[p]
    BY DEF MarkDirty, Superseded, NoFailure, Counter
  <2>2. QED
    BY <1>5, <2>1 DEF TablesAgree, IsFailed, IsLogged
<1>10. LogBelowCounter'
  <2>1. dirtyCounter' = new
    BY DEF MarkDirty
  <2>2. QED
    BY <1>6, <2>1 DEF LogBelowCounter, IsLogged, TypeOK, Counter
<1>11. QED
  BY <1>7, <1>8, <1>9, <1>10 DEF TablesAgree, IsLogged, IsFailed

\* A step that neither touches the tables nor adds a wanted path, nor puts a
\* task between next_job and delete_range, keeps the invariant.
LEMMA QuietStep ==
  ASSUME EngineInv, TypeOK', UNCHANGED <<tables, settled>>, wanted' \subseteq wanted,
         \A s \in Stream : stream'[s].pc = "delete" =>
           /\ stream[s].pc = "delete"
           /\ stream'[s].start = stream[s].start
           /\ stream'[s].last = stream[s].last
  PROVE  EngineInv'
<1>1. TablesAgree' /\ LogBelowCounter'
  BY ReadOnlyAgree DEF EngineInv
<1>2. ScanStillValid'
  BY DEF EngineInv, ScanStillValid, RangeToDelete, IsLogged, tables
<1>3. NoLostWork'
  BY DEF EngineInv, NoLostWork, tables
<1>4. QED
  BY <1>1, <1>2, <1>3 DEF EngineInv

\* Log entries that are removed by ForgetAll stay removed for the scans in
\* progress.
LEMMA ForgetAllScan ==
  ASSUME EngineInv, NEW cs \in SUBSET Counter, ForgetAll(cs), UNCHANGED wanted,
         \A s \in Stream : stream'[s].pc = "delete" =>
           /\ stream[s].pc = "delete"
           /\ stream'[s].start = stream[s].start
           /\ stream'[s].last = stream[s].last
  PROVE  ScanStillValid'
  BY DEF EngineInv, ScanStillValid, RangeToDelete, IsLogged, ForgetAll

\* The transactions that mark a path dirty.
LEMMA ChangeStep ==
  ASSUME EngineInv, TypeOK', NEW w \in Writer, NEW p \in Path, Change(w, p)
  PROVE  EngineInv'
<1>1. TablesAgree' /\ LogBelowCounter'
  BY MarkDirtyAgree DEF EngineInv, Change
<1>2. ScanStillValid'
  <2> SUFFICES ASSUME NEW s \in Stream, stream[s].pc = "delete",
                      NEW c \in RangeToDelete(stream[s].start, stream[s].last),
                      dirtyLog'[c] # NoPath
               PROVE  stream[s].last <= dirtyCounter' /\ dirtyLog'[c] \notin wanted'
    <3>1. \A s \in Stream : stream[s].pc = "delete" => stream[s].last <= dirtyCounter'
      BY StreamFields DEF EngineInv, TypeOK, ScanStillValid, Change, MarkDirty
    <3>2. QED
      BY <3>1 DEF ScanStillValid, IsLogged, RangeToDelete, Change
  <2>1. c \in Counter /\ c < stream[s].last /\ stream[s].last <= dirtyCounter
    BY DEF RangeToDelete, EngineInv, ScanStillValid
  <2>2. c # dirtyCounter + 1
    <3>1. c \in Nat /\ stream[s].last \in Nat /\ dirtyCounter \in Nat
      <4>1. TypeOK
        BY DEF EngineInv
      <4>2. stream[s].last \in 0..MaxCounter
        BY <4>1, StreamFields
      <4>3. dirtyCounter \in 0..MaxCounter
        BY <4>1 DEF TypeOK
      <4>4. QED
        BY <2>1, <4>2, <4>3 DEF Counter
    <3>2. QED
      BY <2>1, <3>1
  <2>3. c # dirtyTable[p] /\ dirtyLog'[c] = dirtyLog[c]
    BY <2>1, <2>2 DEF Change, MarkDirty, Superseded, Counter
  <2>4. dirtyLog[c] # p /\ dirtyLog[c] \notin wanted
    BY <2>1, <2>3 DEF EngineInv, ScanStillValid, TablesAgree, IsLogged
  <2>5. stream[s].last <= dirtyCounter'
    BY <2>1, StreamFields DEF Change, MarkDirty, EngineInv, TypeOK
  <2>6. QED
    BY <2>3, <2>4, <2>5 DEF Change
<1>3. NoLostWork'
  <2> SUFFICES ASSUME NEW q \in wanted', dirtyTable'[q] = 0
               PROVE  q \in settled'
    BY DEF NoLostWork
  <2>1. q # p
    BY DEF Change, MarkDirty, EngineInv, TypeOK
  <2>2. q \in wanted /\ dirtyTable[q] = 0
    BY <2>1 DEF Change, MarkDirty, EngineInv, TypeOK
  <2>3. QED
    BY <2>1, <2>2 DEF EngineInv, NoLostWork, Change, MarkDirty
<1>4. QED
  BY <1>1, <1>2, <1>3 DEF EngineInv

\* A report that removes the dirty mark of its job.
LEMMA SettleStep ==
  ASSUME EngineInv, TypeOK', NEW c \in Counter, IsLogged(c), ForgetAll({c}),
         settled' = settled \cup {dirtyLog[c]}, UNCHANGED wanted,
         \A s \in Stream : stream'[s].pc = "delete" => stream'[s] = stream[s]
  PROVE  EngineInv'
<1>1. TablesAgree' /\ LogBelowCounter'
  BY ForgetAllAgree DEF EngineInv
<1>2. ScanStillValid'
  BY ForgetAllScan
<1>3. NoLostWork'
  BY DEF EngineInv, NoLostWork, ForgetAll, TypeOK
<1>4. QED
  BY <1>1, <1>2, <1>3 DEF EngineInv

\* Waking the waiting tasks leaves the other ones alone.
LEMMA NotifyStep ==
  ASSUME TypeOK, NotifyFailedJob
  PROVE  \A s \in Stream : stream'[s].pc = "delete" => stream'[s] = stream[s]
  BY StreamFields DEF NotifyFailedJob, StreamState

\* A report of a failed job.
LEMMA FailedStep ==
  ASSUME EngineInv, TypeOK', NEW s \in Stream, NEW c \in Counter, JobFailed(s, c)
  PROVE  EngineInv'
<1> USE DEF EngineInv
<1>1. CASE ~IsLogged(c)
  BY <1>1, QuietStep DEF JobFailed
<1>2. CASE IsLogged(c) /\ Delay[failedJob[c].count + 1] = 0
  BY <1>2, SettleStep, NotifyStep DEF JobFailed
<1>3. CASE IsLogged(c) /\ Delay[failedJob[c].count + 1] > 0
  <2>1. /\ UNCHANGED <<dirtyTable, dirtyLog, dirtyCounter, settled, wanted>>
        /\ \A d \in Counter \ {c} : failedJob'[d] = failedJob[d]
        /\ NotifyFailedJob
    BY <1>3 DEF JobFailed, TypeOK
  <2>2. TablesAgree' /\ LogBelowCounter'
    BY <1>3, <2>1 DEF TablesAgree, LogBelowCounter, IsLogged, IsFailed
  <2>3. ScanStillValid'
    BY <2>1, NotifyStep DEF ScanStillValid, RangeToDelete, IsLogged
  <2>4. NoLostWork'
    BY <2>1 DEF NoLostWork
  <2>5. QED
    BY <2>2, <2>3, <2>4
<1>4. QED
  BY <1>1, <1>2, <1>3 DEF JobFailed

\* next_job: what it leaves for delete_range to remove makes no job.
LEMMA NextJobStep ==
  ASSUME EngineInv, TypeOK', NEW s \in Stream, NextJob(s)
  PROVE  EngineInv'
<1> USE DEF EngineInv
<1>1. UNCHANGED <<tables, wanted, settled>>
  BY DEF NextJob, history
<1>2. TablesAgree' /\ LogBelowCounter' /\ NoLostWork'
  BY <1>1, ReadOnlyAgree DEF NoLostWork, tables
<1>3. PICK job \in 0..MaxCounter, last \in 0..MaxCounter :
        /\ NextJobResult(s, job, last)
        /\ stream' = [stream EXCEPT ![s] =
             IF last > stream[s].start
             THEN [@ EXCEPT !.pc = "delete", !.job = job, !.last = last]
             ELSE Scanned(s, job, last)]
  BY DEF NextJob
<1>4. stream'[s].pc = "delete" =>
        /\ stream'[s].start = stream[s].start
        /\ stream'[s].last = last
        /\ last > 0
  BY <1>3, StreamFields DEF Scanned, StreamState, TypeOK
<1>5. last > 0 => last <= dirtyCounter
  BY <1>3 DEF NextJobResult, Jobs, Pending, LogBelowCounter
<1>6. \A c \in RangeToDelete(stream[s].start, last) : IsLogged(c) => dirtyLog[c] \notin wanted
  <2> SUFFICES ASSUME NEW c \in RangeToDelete(stream[s].start, last), IsLogged(c),
                      dirtyLog[c] \in wanted
               PROVE  FALSE
    OBVIOUS
  <2>1. c \in Jobs(s) /\ c < last
    BY StreamFields DEF RangeToDelete, Jobs, Pending, Counter
  <2>2. QED
    BY <1>3, <2>1 DEF NextJobResult, Jobs, Pending, Counter
<1>7. ScanStillValid'
  <2> SUFFICES ASSUME NEW t \in Stream, stream'[t].pc = "delete"
               PROVE  /\ stream'[t].last <= dirtyCounter
                      /\ \A c \in RangeToDelete(stream'[t].start, stream'[t].last) :
                           IsLogged(c) => dirtyLog[c] \notin wanted
    BY <1>1 DEF ScanStillValid, tables, IsLogged, RangeToDelete
  <2>1. CASE t = s
    BY <1>4, <1>5, <1>6, <2>1
  <2>2. CASE t # s
    <3>1. stream'[t] = stream[t]
      BY <1>3, <2>2 DEF TypeOK
    <3>2. QED
      BY <3>1 DEF ScanStillValid
  <2>3. QED
    BY <2>1, <2>2
<1>8. QED
  BY <1>2, <1>7

\* delete_range removes no job.
LEMMA DeleteRangeStep ==
  ASSUME EngineInv, TypeOK', NEW s \in Stream, DeleteRange(s)
  PROVE  EngineInv'
<1> USE DEF EngineInv
<1> DEFINE cs == RangeToDelete(stream[s].start, stream[s].last)
<1>1. cs \in SUBSET Counter /\ ForgetAll(cs) /\ UNCHANGED <<wanted, settled>>
  BY DEF DeleteRange, RangeToDelete, history
<1>2. stream'[s].pc # "delete" /\ \A t \in Stream \ {s} : stream'[t] = stream[t]
  BY StreamFields DEF DeleteRange, Scanned, TypeOK, StreamState
<1>3. TablesAgree' /\ LogBelowCounter'
  BY <1>1, ForgetAllAgree
<1>4. ScanStillValid'
  BY <1>1, <1>2, ForgetAllScan
<1>5. NoLostWork'
  <2> SUFFICES ASSUME NEW p \in wanted, dirtyTable'[p] = 0, dirtyTable[p] # 0
               PROVE  FALSE
    BY <1>1 DEF NoLostWork
  <2>1. PICK c \in cs : IsLogged(c) /\ dirtyLog[c] = p
    BY <1>1 DEF ForgetAll, TypeOK
  <2>2. QED
    BY <2>1 DEF ScanStillValid, DeleteRange
<1>6. QED
  BY <1>3, <1>4, <1>5

\* Every step of the specification keeps the inductive invariant.
LEMMA InvStep == ASSUME EngineInv, [Next]_vars PROVE EngineInv'
<1>0. TypeOK /\ TypeOK'
  BY TypeStep DEF EngineInv
<1>1. ASSUME NEW w \in Writer, NEW p \in Path, Change(w, p) PROVE EngineInv'
  BY <1>0, <1>1, ChangeStep
<1>2. ASSUME NEW p \in Path, Satisfy(p) PROVE EngineInv'
  BY <1>0, <1>2, QuietStep DEF Satisfy, history
<1>3. ASSUME NEW w \in Writer, AfterCommit(w) PROVE EngineInv'
  BY <1>0, <1>3, QuietStep DEF AfterCommit, history
<1>4. ASSUME NEW s \in Stream, NEW c \in Counter, JobDone(s, c) PROVE EngineInv'
  <2>1. CASE IsLogged(c)
    BY <1>0, <1>4, <2>1, SettleStep DEF JobDone
  <2>2. CASE ~IsLogged(c)
    BY <1>0, <1>4, <2>2, QuietStep DEF JobDone
  <2>3. QED
    BY <2>1, <2>2
<1>5. ASSUME NEW s \in Stream, NEW c \in Counter, JobFailed(s, c) PROVE EngineInv'
  BY <1>0, <1>5, FailedStep
<1>6. ASSUME NEW s \in Stream, NextJob(s) PROVE EngineInv'
  BY <1>0, <1>6, NextJobStep
<1>7. ASSUME NEW s \in Stream, DeleteRange(s) PROVE EngineInv'
  BY <1>0, <1>7, DeleteRangeStep
<1>8. ASSUME NEW s \in Stream,
             CheckFailed(s) \/ SendJob(s) \/ EvaluateBackoff(s) \/ BackoffElapsed(s)
               \/ BuildRetry(s) \/ WakeUp(s) \/ NoticeClosed(s)
      PROVE  EngineInv'
  <2>1. UNCHANGED <<tables, settled, wanted>>
    BY <1>8 DEF CheckFailed, SendJob, EvaluateBackoff, BackoffElapsed, BuildRetry,
                WakeUp, NoticeClosed, history
  <2>2. \A t \in Stream \ {s} : stream'[t] = stream[t]
    BY <1>0, <1>8 DEF CheckFailed, SendJob, EvaluateBackoff, BackoffElapsed, BuildRetry,
                      WakeUp, NoticeClosed, TypeOK
  <2>3. stream'[s].pc # "delete"
    <3>1. stream[s] \in StreamState
      BY <1>0, StreamFields
    <3>2. CASE CheckFailed(s)
      BY <1>0, <3>1, <3>2 DEF CheckFailed, StreamState, TypeOK
    <3>3. CASE SendJob(s)
      <4>1. CASE s \in open
        <5>1. stream' = [stream EXCEPT ![s] = [@ EXCEPT
                !.chan = stream[s].job,
                !.pc = IF stream[s].pc = "send" THEN "next" ELSE AfterRetry(stream[s].retry)]]
          BY <3>3, <4>1 DEF SendJob
        <5>2. QED
          BY <1>0, <3>1, <5>1 DEF AfterRetry, StreamState, TypeOK
      <4>2. CASE s \notin open
        BY <1>0, <3>3, <4>2 DEF SendJob, NoStream, NewStream, TypeOK
      <4>3. QED
        BY <4>1, <4>2
    <3>4. CASE EvaluateBackoff(s)
      <4>1. PICK due, until :
              stream' = [stream EXCEPT ![s] = [@ EXCEPT !.pc = "sleep", !.due = due, !.until = until]]
        BY <3>4 DEF EvaluateBackoff
      <4>2. QED
        BY <1>0, <3>1, <4>1 DEF StreamState, TypeOK
    <3>5. CASE BackoffElapsed(s)
      BY <1>0, <3>1, <3>5 DEF BackoffElapsed, WaitOver, StreamState, TypeOK
    <3>6. CASE BuildRetry(s)
      <4>1. PICK c \in stream[s].retry :
              stream' = [stream EXCEPT ![s] = [@ EXCEPT
                !.retry = stream[s].retry \ {c},
                !.job = c,
                !.pc = IF IsLogged(c) /\ dirtyLog[c] \in wanted
                       THEN "resend"
                       ELSE AfterRetry(stream[s].retry \ {c})]]
        BY <3>6 DEF BuildRetry
      <4>2. QED
        BY <1>0, <3>1, <4>1 DEF AfterRetry, StreamState, TypeOK
    <3>7. CASE WakeUp(s)
      BY <1>0, <3>1, <3>7 DEF WakeUp, WaitOver, StreamState, TypeOK
    <3>8. CASE NoticeClosed(s)
      BY <1>0, <3>1, <3>8 DEF NoticeClosed, NoStream, NewStream, StreamState, TypeOK
    <3>9. QED
      BY <1>8, <3>2, <3>3, <3>4, <3>5, <3>6, <3>7, <3>8
  <2>4. QED
    BY <1>0, <2>1, <2>2, <2>3, QuietStep
<1>9. ASSUME NEW s \in Stream, TakeJob(s) \/ CloseStream(s) PROVE EngineInv'
  <2>1. UNCHANGED <<tables, settled, wanted>>
    BY <1>9 DEF TakeJob, CloseStream, history
  <2>2. \A t \in Stream : /\ stream'[t].pc = stream[t].pc
                          /\ stream'[t].start = stream[t].start
                          /\ stream'[t].last = stream[t].last
    BY <1>0, <1>9 DEF TakeJob, CloseStream, TypeOK, StreamState
  <2>3. QED
    BY <1>0, <2>1, <2>2, QuietStep
<1>10. ASSUME NEW s \in Stream, OpenStream(s) PROVE EngineInv'
  BY <1>0, <1>10, QuietStep DEF OpenStream, NewStream, TypeOK
<1>11. ASSUME Restart PROVE EngineInv'
  BY <1>0, <1>11, QuietStep DEF Restart, NewStream
<1>12. ASSUME Tick PROVE EngineInv'
  BY <1>0, <1>12, QuietStep DEF Tick, history
<1>13. ASSUME UNCHANGED vars PROVE EngineInv'
  BY <1>0, <1>13, QuietStep DEF vars, history
<1>14. QED
  BY <1>1, <1>2, <1>3, <1>4, <1>5, <1>6, <1>7, <1>8, <1>9, <1>10, <1>11, <1>12,
     <1>13 DEF Next, BuildJobs

\* The invariant holds initially.
LEMMA InvInit == Init => EngineInv
<1> SUFFICES ASSUME Init PROVE EngineInv
  OBVIOUS
<1>1. TypeOK
  BY TypeInit
<1>2. TablesAgree /\ LogBelowCounter
  BY DEF Init, TablesAgree, LogBelowCounter, IsLogged, IsFailed, NoFailure
<1>3. ScanStillValid
  BY DEF Init, ScanStillValid, NewStream
<1>4. NoLostWork
  BY DEF Init, NoLostWork
<1>5. QED
  BY <1>1, <1>2, <1>3, <1>4 DEF EngineInv

\* EngineInv is an inductive invariant of the engine.
THEOREM InvCorrect == Spec => []EngineInv
<1>1. EngineInv /\ [Next]_vars => EngineInv'
  BY InvStep
<1>2. QED
  BY InvInit, <1>1, PTL DEF Spec

\* The dirty table and the dirty log stay inverse of each other, whatever the
\* interleaving of mark_dirty, delete_range and the reports of jobs.
THEOREM TablesAgreeCorrect == Spec => []TablesAgree
<1>1. EngineInv => TablesAgree
  BY DEF EngineInv
<1>2. QED
  BY InvCorrect, <1>1, PTL

\* No path with a job loses its dirty mark before a job for it is reported:
\* the window between next_job and delete_range is harmless.
THEOREM NoLostWorkCorrect == Spec => []NoLostWork
<1>1. EngineInv => NoLostWork
  BY DEF EngineInv
<1>2. QED
  BY InvCorrect, <1>1, PTL

\* The report of a job removes no dirty mark but its own, even when the path
\* was marked again while the job was running.
THEOREM ReportClearsOwnMarkCorrect == Spec => ReportClearsOwnMark
<1>1. ASSUME EngineInv, [Next]_vars, NEW s \in Stream, NEW c \in Counter,
             JobDone(s, c) \/ JobFailed(s, c), NEW p \in Path
      PROVE  dirtyTable'[p] = dirtyTable[p] \/ dirtyTable[p] = c
  <2>1. UNCHANGED dirtyTable \/ (IsLogged(c) /\ ForgetAll({c}))
    BY <1>1 DEF JobDone, JobFailed, tables
  <2>2. CASE IsLogged(c) /\ ForgetAll({c})
    BY <1>1, <2>2 DEF ForgetAll, EngineInv, TypeOK, TablesAgree
  <2>3. QED
    BY <2>1, <2>2
<1>2. EngineInv /\ [Next]_vars =>
        [\A s \in Stream, c \in Counter :
           JobDone(s, c) \/ JobFailed(s, c)
             => \A p \in Path : dirtyTable'[p] = dirtyTable[p] \/ dirtyTable[p] = c]_vars
  BY <1>1
<1>3. QED
  BY InvCorrect, <1>2, PTL DEF Spec, ReportClearsOwnMark

-----------------------------------------------------------------------------
(* What each step does to the fields of a stream.                          *)

\* A task's step leaves the other tasks alone.
LEMMA OtherStreams ==
  ASSUME TypeOK, NEW s \in Stream,
         BuildJobs(s) \/ TakeJob(s) \/ CloseStream(s) \/ OpenStream(s)
  PROVE  \A t \in Stream \ {s} : stream'[t] = stream[t]
  BY DEF BuildJobs, NextJob, DeleteRange, CheckFailed, SendJob, EvaluateBackoff, BackoffElapsed,
         BuildRetry, WakeUp, NoticeClosed, TakeJob, CloseStream, OpenStream, TypeOK

\* The local variables of a wait and of the retries, which a scan leaves alone.
KeepsRetries(s) ==
  /\ stream'[s].lower = stream[s].lower /\ stream'[s].until = stream[s].until
  /\ stream'[s].due = stream[s].due /\ stream'[s].retry = stream[s].retry
  /\ stream'[s].chan = stream[s].chan

\* The local variables of a scan, which a wait and the retries leave alone.
KeepsScan(s) == stream'[s].start = stream[s].start /\ stream'[s].last = stream[s].last

LEMMA ScannedFields ==
  ASSUME TypeOK, NEW s \in Stream, NEW job \in 0..MaxCounter, NEW last \in 0..MaxCounter,
         stream'[s] = Scanned(s, job, last)
  PROVE  /\ stream'[s].start = IF last = 0 THEN stream[s].start ELSE last + 1
         /\ stream'[s].last = last /\ stream'[s].job = job
         /\ stream'[s].pc = IF job = 0 THEN "evaluate" ELSE "check"
         /\ KeepsRetries(s)
<1> DEFINE start == IF last = 0 THEN stream[s].start ELSE last + 1
           pc == IF job = 0 THEN "evaluate" ELSE "check"
<1>1. stream'[s] = [stream[s] EXCEPT !.start = start, !.last = last, !.job = job, !.pc = pc]
  BY DEF Scanned
<1> HIDE DEF start, pc
<1>2. /\ stream'[s].start = start /\ stream'[s].last = last /\ stream'[s].job = job
      /\ stream'[s].pc = pc /\ KeepsRetries(s)
  BY <1>1, StreamFields DEF StreamState, KeepsRetries
<1>3. QED
  BY <1>2 DEF start, pc

LEMMA NextJobFields ==
  ASSUME TypeOK, NEW s \in Stream, NextJob(s)
  PROVE  \E job, last \in 0..MaxCounter :
           /\ NextJobResult(s, job, last)
           /\ stream'[s].last = last /\ stream'[s].job = job
           /\ \/ /\ last > stream[s].start
                 /\ stream'[s].pc = "delete" /\ stream'[s].start = stream[s].start
              \/ /\ stream'[s].pc = IF job = 0 THEN "evaluate" ELSE "check"
                 /\ stream'[s].start = IF last = 0 THEN stream[s].start ELSE last + 1
           /\ KeepsRetries(s)
<1>1. PICK job \in 0..MaxCounter, last \in 0..MaxCounter :
        /\ NextJobResult(s, job, last)
        /\ stream' = [stream EXCEPT ![s] =
             IF last > stream[s].start
             THEN [@ EXCEPT !.pc = "delete", !.job = job, !.last = last]
             ELSE Scanned(s, job, last)]
  BY DEF NextJob
<1>2. CASE last > stream[s].start
  <2>1. stream'[s] = [stream[s] EXCEPT !.pc = "delete", !.job = job, !.last = last]
    BY <1>1, <1>2 DEF TypeOK
  <2>2. /\ stream'[s].last = last /\ stream'[s].job = job /\ stream'[s].pc = "delete"
        /\ stream'[s].start = stream[s].start /\ KeepsRetries(s)
    BY <2>1, StreamFields DEF StreamState, KeepsRetries
  <2>3. QED
    BY <1>1, <1>2, <2>2
<1>3. CASE ~(last > stream[s].start)
  <2>1. stream'[s] = Scanned(s, job, last)
    BY <1>1, <1>3 DEF TypeOK
  <2>2. /\ stream'[s].start = IF last = 0 THEN stream[s].start ELSE last + 1
        /\ stream'[s].last = last /\ stream'[s].job = job
        /\ stream'[s].pc = IF job = 0 THEN "evaluate" ELSE "check"
        /\ KeepsRetries(s)
    BY <2>1, ScannedFields
  <2>3. QED
    BY <1>1, <2>2
<1>4. QED
  BY <1>2, <1>3

LEMMA DeleteRangeFields ==
  ASSUME TypeOK, NEW s \in Stream, DeleteRange(s)
  PROVE  /\ stream'[s].start = IF stream[s].last = 0 THEN stream[s].start ELSE stream[s].last + 1
         /\ stream'[s].last = stream[s].last /\ stream'[s].job = stream[s].job
         /\ stream'[s].pc = IF stream[s].job = 0 THEN "evaluate" ELSE "check"
         /\ KeepsRetries(s)
<1>1. stream'[s] = Scanned(s, stream[s].job, stream[s].last)
  BY DEF DeleteRange, TypeOK
<1>2. stream[s].job \in 0..MaxCounter /\ stream[s].last \in 0..MaxCounter
  BY StreamFields
<1>3. QED
  BY <1>1, <1>2, ScannedFields

LEMMA CheckFailedFields ==
  ASSUME TypeOK, NEW s \in Stream, CheckFailed(s)
  PROVE  /\ stream'[s].pc = IF IsFailed(stream[s].job) THEN "next" ELSE "send"
         /\ stream'[s].job = stream[s].job
         /\ KeepsScan(s) /\ KeepsRetries(s)
<1> DEFINE pc == IF IsFailed(stream[s].job) THEN "next" ELSE "send"
<1>1. stream'[s] = [stream[s] EXCEPT !.pc = pc]
  BY DEF CheckFailed, TypeOK
<1> HIDE DEF pc
<1>2. stream'[s].pc = pc /\ stream'[s].job = stream[s].job /\ KeepsScan(s) /\ KeepsRetries(s)
  BY <1>1, StreamFields DEF StreamState, KeepsRetries, KeepsScan
<1>3. QED
  BY <1>2 DEF pc

\* A task that ends or starts anew has forgotten everything.
LEMMA NewStreamFields ==
  ASSUME NEW st, st \in {NewStream, NoStream}
  PROVE  /\ st.pc = IF st = NewStream THEN "next" ELSE "off"
         /\ st.start = 1 /\ st.last = 0 /\ st.job = 0 /\ st.lower = 0 /\ st.until = 0
         /\ st.due = {} /\ st.retry = {} /\ st.chan = 0
  BY DEF NewStream, NoStream

LEMMA SendJobFields ==
  ASSUME TypeOK, NEW s \in Stream, SendJob(s)
  PROVE  \/ stream'[s] = NoStream /\ handed' = handed
         \/ /\ s \in open /\ stream[s].chan = 0 /\ stream'[s].chan = stream[s].job
            /\ stream'[s].pc = IF stream[s].pc = "send" THEN "next" ELSE AfterRetry(stream[s].retry)
            /\ stream'[s].job = stream[s].job
            /\ stream'[s].lower = stream[s].lower /\ stream'[s].until = stream[s].until
            /\ stream'[s].due = stream[s].due /\ stream'[s].retry = stream[s].retry
            /\ handed' = [handed EXCEPT ![s] = @ \cup {stream[s].job}]
            /\ KeepsScan(s)
<1>1. CASE s \notin open
  BY <1>1 DEF SendJob, TypeOK
<1>2. CASE s \in open
  <2> DEFINE pc == IF stream[s].pc = "send" THEN "next" ELSE AfterRetry(stream[s].retry)
  <2>1. stream'[s] = [stream[s] EXCEPT !.chan = stream[s].job, !.pc = pc] /\ stream[s].chan = 0
        /\ handed' = [handed EXCEPT ![s] = @ \cup {stream[s].job}]
    BY <1>2 DEF SendJob, TypeOK
  <2> HIDE DEF pc
  <2>2. /\ stream'[s].chan = stream[s].job /\ stream'[s].pc = pc
        /\ stream'[s].job = stream[s].job
        /\ stream'[s].lower = stream[s].lower /\ stream'[s].until = stream[s].until
        /\ stream'[s].due = stream[s].due /\ stream'[s].retry = stream[s].retry
        /\ KeepsScan(s)
    BY <2>1, StreamFields DEF StreamState, KeepsScan
  <2>3. QED
    BY <1>2, <2>1, <2>2 DEF pc
<1>3. QED
  BY <1>1, <1>2

LEMMA WaitOverFields ==
  ASSUME TypeOK, NEW s \in Stream, NEW pc \in PC
  PROVE  /\ WaitOver(s, pc).pc = pc /\ WaitOver(s, pc).until = 0 /\ WaitOver(s, pc).due = {}
         /\ WaitOver(s, pc).start = stream[s].start /\ WaitOver(s, pc).last = stream[s].last
         /\ WaitOver(s, pc).job = stream[s].job /\ WaitOver(s, pc).lower = stream[s].lower
         /\ WaitOver(s, pc).retry = stream[s].retry /\ WaitOver(s, pc).chan = stream[s].chan
  BY StreamFields DEF WaitOver, StreamState

LEMMA BackoffElapsedFields ==
  ASSUME TypeOK, NEW s \in Stream, BackoffElapsed(s)
  PROVE  /\ stream'[s].pc = "retry" /\ stream'[s].until = 0 /\ stream'[s].due = {}
         /\ stream'[s].retry = stream[s].due /\ stream'[s].lower = stream[s].until
         /\ stream'[s].job = stream[s].job /\ stream'[s].chan = stream[s].chan
         /\ KeepsScan(s)
<1> DEFINE st == WaitOver(s, "retry")
<1>1. "retry" \in PC
  BY DEF PC
<1>2. st \in StreamState
  BY <1>1, WaitOverType
<1>3. stream'[s] = [st EXCEPT !.retry = stream[s].due, !.lower = stream[s].until]
  BY DEF BackoffElapsed, TypeOK
<1>4. /\ st.pc = "retry" /\ st.until = 0 /\ st.due = {} /\ st.start = stream[s].start
      /\ st.last = stream[s].last /\ st.job = stream[s].job /\ st.chan = stream[s].chan
  BY <1>1, WaitOverFields
<1> HIDE DEF st
<1>5. QED
  BY <1>2, <1>3, <1>4 DEF StreamState, KeepsScan

LEMMA WakeUpFields ==
  ASSUME TypeOK, NEW s \in Stream, WakeUp(s)
  PROVE  /\ stream'[s].pc = "next" /\ stream'[s].due = {} /\ stream'[s].retry = stream[s].retry
         /\ stream'[s].lower = stream[s].lower /\ stream'[s].job = stream[s].job
         /\ stream'[s].chan = stream[s].chan
         /\ KeepsScan(s)
<1>1. stream'[s] = WaitOver(s, "next") /\ "next" \in PC
  BY DEF WakeUp, TypeOK, PC
<1>2. QED
  BY <1>1, WaitOverFields DEF KeepsScan

LEMMA EvaluateBackoffFields ==
  ASSUME TypeOK, NEW s \in Stream, EvaluateBackoff(s)
  PROVE  LET later == {c \in Counter : IsFailed(c) /\ failedJob[c].until > stream[s].lower}
             first == {c \in later : \A d \in later : failedJob[c].until <= failedJob[d].until}
         IN  /\ stream'[s].pc = "sleep" /\ stream'[s].due = first
             /\ first # {} => \E c \in first : stream'[s].until = failedJob[c].until
             /\ stream'[s].lower = stream[s].lower /\ stream'[s].retry = stream[s].retry
             /\ stream'[s].job = stream[s].job /\ stream'[s].chan = stream[s].chan
             /\ KeepsScan(s)
<1> DEFINE later == {c \in Counter : IsFailed(c) /\ failedJob[c].until > stream[s].lower}
           first == {c \in later : \A d \in later : failedJob[c].until <= failedJob[d].until}
           until == IF first = {} THEN 0 ELSE failedJob[CHOOSE c \in first : TRUE].until
<1>1. stream'[s] = [stream[s] EXCEPT !.pc = "sleep", !.due = first, !.until = until]
  BY DEF EvaluateBackoff, TypeOK
<1>2. first # {} => \E c \in first : until = failedJob[c].until
  <2>1. SUFFICES ASSUME first # {} PROVE \E c \in first : until = failedJob[c].until
    OBVIOUS
  <2>2. (CHOOSE c \in first : TRUE) \in first
    BY <2>1
  <2>3. QED
    BY <2>1, <2>2
<1> HIDE DEF first, until
<1>3. /\ stream'[s].pc = "sleep" /\ stream'[s].due = first /\ stream'[s].until = until
      /\ stream'[s].lower = stream[s].lower /\ stream'[s].retry = stream[s].retry
      /\ stream'[s].job = stream[s].job /\ stream'[s].chan = stream[s].chan
      /\ KeepsScan(s)
  BY <1>1, StreamFields DEF StreamState, KeepsScan
<1>4. QED
  BY <1>2, <1>3 DEF first

LEMMA BuildRetryFields ==
  ASSUME TypeOK, NEW s \in Stream, BuildRetry(s)
  PROVE  \E c \in stream[s].retry :
           /\ stream'[s].retry = stream[s].retry \ {c} /\ stream'[s].job = c
           /\ stream'[s].pc = IF IsLogged(c) /\ dirtyLog[c] \in wanted THEN "resend"
                              ELSE AfterRetry(stream[s].retry \ {c})
           /\ stream'[s].lower = stream[s].lower /\ stream'[s].until = stream[s].until
           /\ stream'[s].due = stream[s].due /\ stream'[s].chan = stream[s].chan
           /\ KeepsScan(s)
<1>1. PICK c \in stream[s].retry :
        stream' = [stream EXCEPT ![s] = [@ EXCEPT
          !.retry = stream[s].retry \ {c},
          !.job = c,
          !.pc = IF IsLogged(c) /\ dirtyLog[c] \in wanted
                 THEN "resend"
                 ELSE AfterRetry(stream[s].retry \ {c})]]
  BY DEF BuildRetry
<1> DEFINE rest == stream[s].retry \ {c}
           pc == IF IsLogged(c) /\ dirtyLog[c] \in wanted THEN "resend" ELSE AfterRetry(rest)
<1>2. stream'[s] = [stream[s] EXCEPT !.retry = rest, !.job = c, !.pc = pc]
  BY <1>1 DEF TypeOK
<1> HIDE DEF rest, pc
<1>3. /\ stream'[s].retry = rest /\ stream'[s].job = c /\ stream'[s].pc = pc
      /\ stream'[s].lower = stream[s].lower /\ stream'[s].until = stream[s].until
      /\ stream'[s].due = stream[s].due /\ stream'[s].chan = stream[s].chan
      /\ KeepsScan(s)
  BY <1>2, StreamFields DEF StreamState, KeepsScan
<1>4. QED
  BY <1>3 DEF rest, pc

\* Taking a job or closing the stream empties the channel.
LEMMA EmptyChannelFields ==
  ASSUME TypeOK, NEW s \in Stream, TakeJob(s) \/ CloseStream(s)
  PROVE  /\ stream'[s].chan = 0 /\ stream'[s].pc = stream[s].pc /\ stream'[s].job = stream[s].job
         /\ stream'[s].lower = stream[s].lower /\ stream'[s].until = stream[s].until
         /\ stream'[s].due = stream[s].due /\ stream'[s].retry = stream[s].retry
         /\ KeepsScan(s)
<1>1. stream'[s] = [stream[s] EXCEPT !.chan = 0]
  BY DEF TakeJob, CloseStream, TypeOK
<1>2. QED
  BY <1>1, StreamFields DEF StreamState, KeepsScan

\* Failures are announced to the tasks that sleep.
LEMMA NotifyFields ==
  ASSUME TypeOK, NEW s \in Stream, NotifyFailedJob \/ UNCHANGED stream
  PROVE  /\ \/ stream'[s].pc = stream[s].pc
            \/ stream[s].pc = "sleep" /\ stream'[s].pc = "evaluate"
         /\ NotifyFailedJob => stream'[s].pc # "sleep"
         /\ stream'[s].job = stream[s].job
         /\ KeepsScan(s) /\ KeepsRetries(s)
<1>1. CASE UNCHANGED stream /\ ~NotifyFailedJob
  BY <1>1 DEF KeepsScan, KeepsRetries
<1>2. CASE NotifyFailedJob
  <2>1. CASE stream[s].pc = "sleep"
    <3>1. stream'[s] = [stream[s] EXCEPT !.pc = "evaluate"]
      BY <1>2, <2>1 DEF NotifyFailedJob
    <3>2. QED
      BY <2>1, <3>1, StreamFields DEF StreamState, KeepsScan, KeepsRetries
  <2>2. CASE stream[s].pc # "sleep"
    <3>1. stream'[s] = stream[s]
      BY <1>2, <2>2 DEF NotifyFailedJob
    <3>2. QED
      BY <2>2, <3>1 DEF KeepsScan, KeepsRetries
  <2>3. QED
    BY <2>1, <2>2
<1>3. QED
  BY <1>1, <1>2

-----------------------------------------------------------------------------
(* NoSkippedJob                                                            *)

\* The step does not move the scan of stream t, and the job it is about to
\* hand out is handed out or has failed when it leaves the task.
ScanStays(t) ==
  \/ stream'[t].pc = "off" /\ (stream'[t].start = 1 \/ stream'[t].start = stream[t].start)
  \/ stream'[t].start = 1 /\ stream'[t].pc = "next"
  \/ /\ stream'[t].start = stream[t].start
     /\ stream[t].pc # "off"
     /\ handed[t] \subseteq handed'[t]
     /\ stream'[t].pc = "delete" => /\ stream[t].pc = "delete"
                                    /\ stream'[t].job = stream[t].job
                                    /\ stream'[t].last = stream[t].last
     /\ stream[t].pc \in {"check", "send"} =>
          \/ stream'[t].pc \in {"check", "send"} /\ stream'[t].job = stream[t].job
          \/ stream[t].job \in handed'[t]
          \/ failedJob'[stream[t].job].count > 0

\* The log only loses entries, and no job appears in it.
LogShrinks ==
  /\ UNCHANGED dirtyCounter
  /\ wanted' \subseteq wanted
  /\ \A c \in Counter : dirtyLog'[c] # NoPath =>
       /\ dirtyLog'[c] = dirtyLog[c]
       /\ failedJob[c].count > 0 => failedJob'[c].count > 0

\* A job below the start of stream t is accounted for after the step.
SkipsNone(t) ==
  \A c \in Counter :
    stream'[t].pc # "off" /\ c < stream'[t].start /\ dirtyLog'[c] # NoPath /\ dirtyLog'[c] \in wanted'
      => \/ c \in handed'[t]
         \/ failedJob'[c].count > 0
         \/ stream'[t].pc \in {"check", "send"} /\ stream'[t].job = c

\* The scan that is about to be deleted ends where ScanEnds says.
EndsRight(t) ==
  stream'[t].pc = "delete" =>
    \/ stream'[t].job = stream'[t].last
    \/ /\ stream'[t].job = 0
       /\ stream'[t].last \in Counter
       /\ dirtyLog'[stream'[t].last] # NoPath => dirtyLog'[stream'[t].last] \notin wanted'

LEMMA ScanStaysKeeps ==
  ASSUME ScanInv, LogShrinks, NEW t \in Stream, ScanStays(t)
  PROVE  stream'[t].start <= dirtyCounter + 1 /\ SkipsNone(t) /\ EndsRight(t)
<1>0. TypeOK /\ StartGiven /\ ScanEnds /\ NoSkippedJob
  BY DEF ScanInv, EngineInv
<1>1. dirtyCounter \in Nat /\ stream[t].start <= dirtyCounter + 1
  BY <1>0 DEF TypeOK, StartGiven
<1>2. stream'[t].start <= dirtyCounter + 1
  BY <1>1 DEF ScanStays
<1>3. SkipsNone(t)
  <2>1. SUFFICES ASSUME NEW c \in Counter, stream'[t].pc # "off", c < stream'[t].start,
                        dirtyLog'[c] # NoPath, dirtyLog'[c] \in wanted'
                 PROVE  \/ c \in handed'[t]
                        \/ failedJob'[c].count > 0
                        \/ stream'[t].pc \in {"check", "send"} /\ stream'[t].job = c
    BY DEF SkipsNone
  <2>2. dirtyLog'[c] = dirtyLog[c] /\ IsLogged(c) /\ dirtyLog[c] \in wanted
    BY <2>1 DEF LogShrinks, IsLogged
  <2>3. CASE stream'[t].start = 1
    BY <2>1, <2>3 DEF Counter
  <2>4. CASE stream'[t].start # 1
    <3>1. stream'[t].start = stream[t].start /\ stream[t].pc # "off"
      BY <2>1, <2>4 DEF ScanStays
    <3>2. \/ c \in handed[t]
          \/ IsFailed(c)
          \/ stream[t].pc \in {"check", "send"} /\ stream[t].job = c
      BY <1>0, <2>1, <2>2, <3>1 DEF NoSkippedJob
    <3>3. QED
      BY <2>1, <2>4, <3>1, <3>2 DEF ScanStays, LogShrinks, IsFailed
  <2>5. QED
    BY <2>3, <2>4
<1>4. EndsRight(t)
  <2>1. SUFFICES ASSUME stream'[t].pc = "delete" PROVE EndsRight(t)
    BY DEF EndsRight
  <2>2. /\ stream[t].pc = "delete" /\ stream'[t].job = stream[t].job
        /\ stream'[t].last = stream[t].last
    BY <2>1 DEF ScanStays
  <2>3. \/ stream[t].job = stream[t].last
        \/ /\ stream[t].job = 0
           /\ stream[t].last \in Counter
           /\ IsLogged(stream[t].last) => dirtyLog[stream[t].last] \notin wanted
    BY <1>0, <2>2 DEF ScanEnds
  <2>4. QED
    BY <2>2, <2>3 DEF EndsRight, LogShrinks, IsLogged
<1>5. QED
  BY <1>2, <1>3, <1>4

\* The three facts, for every stream, are the invariant after the step.
LEMMA ScanParts ==
  ASSUME EngineInv', UNCHANGED dirtyCounter,
         \A t \in Stream : stream'[t].start <= dirtyCounter + 1 /\ SkipsNone(t) /\ EndsRight(t)
  PROVE  ScanInv'
<1>1. StartGiven'
  BY DEF StartGiven
<1>2. ScanEnds'
  BY DEF EndsRight, ScanEnds, IsLogged
<1>3. NoSkippedJob'
  BY DEF SkipsNone, NoSkippedJob, IsLogged, IsFailed
<1>4. QED
  BY <1>1, <1>2, <1>3 DEF ScanInv

\* A step that moves no scan keeps the invariant.
LEMMA ScanQuiet ==
  ASSUME ScanInv, EngineInv', LogShrinks, \A t \in Stream : ScanStays(t)
  PROVE  ScanInv'
  BY ScanStaysKeeps, ScanParts DEF LogShrinks

\* A stream that the step does not touch.
LEMMA Untouched ==
  ASSUME NEW t \in Stream, stream'[t] = stream[t], handed[t] \subseteq handed'[t]
  PROVE  ScanStays(t)
  BY DEF ScanStays

\* A stream whose scan and place in build_jobs are left alone.
LEMMA SamePlace ==
  ASSUME NEW t \in Stream, stream'[t].pc = stream[t].pc, stream'[t].job = stream[t].job,
         KeepsScan(t), handed[t] \subseteq handed'[t]
  PROVE  ScanStays(t)
  BY DEF ScanStays, KeepsScan

\* Removing entries of the log.
LEMMA ForgetAllShrinks ==
  ASSUME NEW cs \in SUBSET Counter, ForgetAll(cs), wanted' \subseteq wanted
  PROVE  LogShrinks
  BY DEF ForgetAll, LogShrinks

LEMMA SameTables ==
  ASSUME UNCHANGED tables, wanted' \subseteq wanted
  PROVE  LogShrinks
  BY DEF tables, LogShrinks

\* mark_dirty: the new counter is at or after the start of every stream, and a
\* path that becomes a job has no other counter.
LEMMA ScanChange ==
  ASSUME ScanInv, EngineInv', NEW w \in Writer, NEW p \in Path, Change(w, p)
  PROVE  ScanInv'
<1>0. TypeOK /\ TablesAgree /\ LogBelowCounter /\ ScanStillValid /\ StartGiven /\ ScanEnds /\ NoSkippedJob
  BY DEF ScanInv, EngineInv
<1> DEFINE new == dirtyCounter + 1
<1>1. /\ dirtyCounter' = new /\ new \in Counter /\ stream' = stream /\ handed' = handed
      /\ wanted' \in {wanted \cup {p}, wanted \ {p}}
  BY <1>0 DEF Change, MarkDirty, TypeOK, Counter
<1>2. ASSUME NEW c \in Counter, c # new, dirtyLog'[c] # NoPath
      PROVE  /\ dirtyLog'[c] = dirtyLog[c] /\ dirtyLog[c] # p
             /\ failedJob'[c] = failedJob[c]
             /\ dirtyLog'[c] \in wanted' => dirtyLog[c] \in wanted
  <2>1. c # dirtyTable[p] /\ dirtyLog'[c] = dirtyLog[c] /\ failedJob'[c] = failedJob[c]
    BY <1>2 DEF Change, MarkDirty, Superseded, Counter
  <2>2. dirtyLog[c] # p
    BY <1>0, <1>2, <2>1 DEF TablesAgree, IsLogged
  <2>3. QED
    BY <1>1, <2>1, <2>2
<1>3. StartGiven'
  BY <1>0, <1>1, StreamFields DEF StartGiven, TypeOK
<1>4. ScanEnds'
  <2>1. SUFFICES ASSUME NEW s \in Stream, stream[s].pc = "delete", stream[s].job # stream[s].last
                 PROVE  /\ stream[s].job = 0 /\ stream[s].last \in Counter
                        /\ dirtyLog'[stream[s].last] # NoPath
                              => dirtyLog'[stream[s].last] \notin wanted'
    BY <1>1 DEF ScanEnds, IsLogged
  <2>2. /\ stream[s].job = 0 /\ stream[s].last \in Counter
        /\ IsLogged(stream[s].last) => dirtyLog[stream[s].last] \notin wanted
    BY <1>0, <2>1 DEF ScanEnds
  <2>3. stream[s].last # new
    BY <1>0, <2>1, <2>2 DEF ScanStillValid, TypeOK, Counter
  <2>4. QED
    BY <1>2, <2>2, <2>3 DEF IsLogged
<1>5. NoSkippedJob'
  <2>1. SUFFICES ASSUME NEW s \in Stream, NEW c \in Counter, stream[s].pc # "off",
                        c < stream[s].start, dirtyLog'[c] # NoPath, dirtyLog'[c] \in wanted'
                 PROVE  \/ c \in handed[s]
                        \/ failedJob'[c].count > 0
                        \/ stream[s].pc \in {"check", "send"} /\ stream[s].job = c
    BY <1>1 DEF NoSkippedJob, IsLogged, IsFailed
  <2>2. c # new
    BY <1>0, <2>1, StreamFields, SMTT(30) DEF StartGiven, TypeOK, Counter
  <2>3. QED
    BY <1>0, <1>2, <2>1, <2>2 DEF NoSkippedJob, IsLogged, IsFailed
<1>6. QED
  BY <1>3, <1>4, <1>5 DEF ScanInv

\* next_job: what the scan goes past makes no job, but for the one it returns.
LEMMA ScanNextJob ==
  ASSUME ScanInv, EngineInv', NEW s \in Stream, NextJob(s)
  PROVE  ScanInv'
<1>0. TypeOK /\ LogBelowCounter /\ StartGiven /\ NoSkippedJob
  BY DEF ScanInv, EngineInv
<1>1. UNCHANGED <<tables, wanted, handed>> /\ stream[s].pc = "next"
  BY DEF NextJob, history
<1>2. PICK job \in 0..MaxCounter, last \in 0..MaxCounter :
        /\ NextJobResult(s, job, last)
        /\ stream'[s].last = last /\ stream'[s].job = job
        /\ \/ /\ last > stream[s].start
              /\ stream'[s].pc = "delete" /\ stream'[s].start = stream[s].start
           \/ /\ stream'[s].pc = IF job = 0 THEN "evaluate" ELSE "check"
              /\ stream'[s].start = IF last = 0 THEN stream[s].start ELSE last + 1
  BY <1>0, NextJobFields
<1>3. \/ job = last /\ job \in Counter /\ \A c \in Jobs(s) : job <= c
      \/ job = 0 /\ Jobs(s) = {} /\ (last # 0 => last \in Counter /\ last >= stream[s].start)
  BY <1>2 DEF NextJobResult, Jobs, Pending, Counter
<1>4. last # 0 => last <= dirtyCounter
  BY <1>0, <1>2 DEF NextJobResult, Jobs, Pending, LogBelowCounter, Counter
<1>5. stream'[s].start <= dirtyCounter + 1
  BY <1>0, <1>2, <1>4 DEF StartGiven, TypeOK
<1>6. ASSUME NEW c \in Counter, c < stream'[s].start, IsLogged(c), dirtyLog[c] \in wanted
      PROVE  \/ c \in handed[s]
             \/ failedJob[c].count > 0
             \/ stream'[s].pc = "check" /\ stream'[s].job = c
  <2>1. CASE c < stream[s].start
    BY <1>0, <1>1, <1>6, <2>1 DEF NoSkippedJob, IsFailed
  <2>2. CASE c >= stream[s].start
    <3>1. c \in Jobs(s)
      BY <1>6, <2>2 DEF Jobs, Pending
    <3>2. job = last /\ job \in Counter /\ job <= c
      BY <1>3, <3>1
    <3>3. /\ stream'[s].pc = "check" /\ stream'[s].start = last + 1
      BY <1>2, <1>6, <2>2, <3>2, StreamFields, <1>0 DEF Counter
    <3>4. c <= last
      BY <1>6, <3>2, <3>3 DEF Counter
    <3>5. QED
      BY <1>2, <3>2, <3>3, <3>4 DEF Counter
  <2>3. QED
    BY <1>0, <2>1, <2>2, StreamFields DEF Counter
<1>7. SkipsNone(s)
  BY <1>1, <1>6 DEF SkipsNone, tables, IsLogged
<1>8. EndsRight(s)
  <2>1. SUFFICES ASSUME stream'[s].pc = "delete", job # last
                 PROVE  /\ job = 0 /\ last \in Counter
                        /\ IsLogged(last) => dirtyLog[last] \notin wanted
    BY <1>1, <1>2 DEF EndsRight, tables, IsLogged
  <2>2. job = 0 /\ Jobs(s) = {} /\ last \in Counter /\ last >= stream[s].start
    BY <1>2, <1>3, <2>1, <1>0, StreamFields
  <2>3. QED
    BY <2>2 DEF Jobs, Pending
<1>9. \A t \in Stream \ {s} : stream'[t] = stream[t]
  BY <1>0, OtherStreams DEF BuildJobs
<1>10. LogShrinks
  BY <1>1, SameTables
<1>11. ASSUME NEW t \in Stream \ {s}
       PROVE  stream'[t].start <= dirtyCounter + 1 /\ SkipsNone(t) /\ EndsRight(t)
  BY <1>1, <1>9, <1>10, Untouched, ScanStaysKeeps
<1>12. QED
  BY <1>1, <1>5, <1>7, <1>8, <1>11, ScanParts DEF tables

\* delete_range: the scan goes on after entries that are gone.
LEMMA ScanDeleteRange ==
  ASSUME ScanInv, EngineInv', NEW s \in Stream, DeleteRange(s)
  PROVE  ScanInv'
<1>0. TypeOK /\ ScanStillValid /\ StartGiven /\ ScanEnds /\ NoSkippedJob
  BY DEF ScanInv, EngineInv
<1> DEFINE start == stream[s].start
           last == stream[s].last
           cs == RangeToDelete(start, last)
<1>1. /\ stream[s].pc = "delete" /\ ForgetAll(cs) /\ cs \in SUBSET Counter
      /\ UNCHANGED <<wanted, handed>>
  BY DEF DeleteRange, history, RangeToDelete
<1>2. LogShrinks
  BY <1>1, ForgetAllShrinks
<1>3. /\ stream'[s].start = IF last = 0 THEN start ELSE last + 1
      /\ stream'[s].last = last /\ stream'[s].job = stream[s].job
      /\ stream'[s].pc = IF stream[s].job = 0 THEN "evaluate" ELSE "check"
  BY <1>0, DeleteRangeFields
<1>4. /\ start \in Nat /\ last \in Nat /\ dirtyCounter \in Nat
      /\ last <= dirtyCounter /\ start <= dirtyCounter + 1
  BY <1>0, <1>1, StreamFields DEF ScanStillValid, StartGiven, TypeOK
<1>5. stream'[s].start <= dirtyCounter + 1
  BY <1>3, <1>4
<1>6. ASSUME NEW c \in Counter, c < stream'[s].start, dirtyLog'[c] # NoPath, dirtyLog'[c] \in wanted'
      PROVE  \/ c \in handed'[s]
             \/ failedJob'[c].count > 0
             \/ stream'[s].pc = "check" /\ stream'[s].job = c
  <2>1. /\ c \notin cs /\ dirtyLog'[c] = dirtyLog[c] /\ failedJob'[c] = failedJob[c]
        /\ IsLogged(c) /\ dirtyLog[c] \in wanted
    BY <1>1, <1>6 DEF ForgetAll, IsLogged
  <2>2. CASE c < start
    BY <1>0, <1>1, <2>1, <2>2 DEF NoSkippedJob, IsFailed
  <2>3. CASE ~(c < start)
    <3>1. c = last /\ c # 0
      BY <1>3, <1>4, <1>6, <2>1, <2>3 DEF RangeToDelete, Counter
    <3>2. stream[s].job = last
      BY <1>0, <1>1, <2>1, <3>1 DEF ScanEnds
    <3>3. QED
      BY <1>3, <3>1, <3>2
  <2>4. QED
    BY <2>2, <2>3
<1>7. SkipsNone(s)
  BY <1>6 DEF SkipsNone
<1>8. EndsRight(s)
  BY <1>3 DEF EndsRight
<1>9. \A t \in Stream \ {s} : stream'[t] = stream[t]
  BY <1>0, OtherStreams DEF BuildJobs
<1>10. ASSUME NEW t \in Stream \ {s}
       PROVE  stream'[t].start <= dirtyCounter + 1 /\ SkipsNone(t) /\ EndsRight(t)
  BY <1>1, <1>2, <1>9, Untouched, ScanStaysKeeps
<1>11. QED
  BY <1>2, <1>5, <1>7, <1>8, <1>10, ScanParts DEF LogShrinks

\* The other steps of build_jobs.
LEMMA ScanBuildJobs ==
  ASSUME ScanInv, EngineInv', NEW s \in Stream,
         CheckFailed(s) \/ SendJob(s) \/ EvaluateBackoff(s) \/ BackoffElapsed(s)
           \/ BuildRetry(s) \/ WakeUp(s) \/ NoticeClosed(s)
  PROVE  ScanInv'
<1>0. TypeOK /\ handed \in [Stream -> SUBSET (0..MaxCounter)]
  BY DEF ScanInv, EngineInv, TypeOK
<1>1. UNCHANGED tables /\ wanted' = wanted
  BY DEF CheckFailed, SendJob, EvaluateBackoff, BackoffElapsed, BuildRetry, WakeUp, NoticeClosed
<1>2. \A t \in Stream : handed[t] \subseteq handed'[t]
  BY <1>0 DEF CheckFailed, SendJob, EvaluateBackoff, BackoffElapsed, BuildRetry, WakeUp,
              NoticeClosed, history
<1>3. \A t \in Stream \ {s} : ScanStays(t)
  <2>1. \A t \in Stream \ {s} : stream'[t] = stream[t]
    BY <1>0, OtherStreams DEF BuildJobs
  <2>2. QED
    BY <1>2, <2>1, Untouched
<1>4. ScanStays(s)
  <2>1. CASE CheckFailed(s)
    <3>1. /\ stream'[s].pc = IF IsFailed(stream[s].job) THEN "next" ELSE "send"
          /\ stream'[s].job = stream[s].job /\ KeepsScan(s) /\ stream[s].pc = "check"
      BY <1>0, <2>1, CheckFailedFields DEF CheckFailed
    <3>2. IsFailed(stream[s].job) => failedJob'[stream[s].job].count > 0
      BY <1>1 DEF IsFailed, tables
    <3>3. QED
      BY <1>2, <3>1, <3>2 DEF ScanStays, KeepsScan
  <2>2. CASE SendJob(s)
    <3>1. CASE stream'[s] = NoStream
      BY <3>1, NewStreamFields DEF ScanStays, NoStream, NewStream
    <3>2. CASE stream'[s] # NoStream
      <4>1. /\ stream'[s].pc = IF stream[s].pc = "send" THEN "next" ELSE AfterRetry(stream[s].retry)
            /\ handed' = [handed EXCEPT ![s] = @ \cup {stream[s].job}]
            /\ KeepsScan(s) /\ stream[s].pc \in {"send", "resend"}
        BY <1>0, <2>2, <3>2, SendJobFields DEF SendJob
      <4>2. stream[s].job \in handed'[s] /\ stream'[s].pc # "delete"
        BY <1>0, <4>1 DEF AfterRetry
      <4>3. QED
        BY <1>2, <4>1, <4>2 DEF ScanStays, KeepsScan
    <3>3. QED
      BY <3>1, <3>2
  <2>3. CASE EvaluateBackoff(s)
    <3>1. stream'[s].pc = "sleep" /\ KeepsScan(s) /\ stream[s].pc = "evaluate"
      BY <1>0, <2>3, EvaluateBackoffFields DEF EvaluateBackoff
    <3>2. QED
      BY <1>2, <3>1 DEF ScanStays, KeepsScan
  <2>4. CASE BackoffElapsed(s)
    <3>1. stream'[s].pc = "retry" /\ KeepsScan(s) /\ stream[s].pc \in Waiting
      BY <1>0, <2>4, BackoffElapsedFields DEF BackoffElapsed
    <3>2. QED
      BY <1>2, <3>1 DEF ScanStays, KeepsScan, Waiting
  <2>5. CASE BuildRetry(s)
    <3>1. stream'[s].pc # "delete" /\ KeepsScan(s) /\ stream[s].pc = "retry"
      BY <1>0, <2>5, BuildRetryFields DEF BuildRetry, AfterRetry
    <3>2. QED
      BY <1>2, <3>1 DEF ScanStays, KeepsScan
  <2>6. CASE WakeUp(s)
    <3>1. stream'[s].pc = "next" /\ KeepsScan(s) /\ stream[s].pc \in Waiting
      BY <1>0, <2>6, WakeUpFields DEF WakeUp
    <3>2. QED
      BY <1>2, <3>1 DEF ScanStays, KeepsScan, Waiting
  <2>7. CASE NoticeClosed(s)
    <3>1. stream'[s] = NoStream
      BY <1>0, <2>7 DEF NoticeClosed, TypeOK
    <3>2. QED
      BY <3>1 DEF ScanStays, NoStream, NewStream
  <2>8. QED
    BY <2>1, <2>2, <2>3, <2>4, <2>5, <2>6, <2>7
<1>5. QED
  BY <1>1, <1>3, <1>4, SameTables, ScanQuiet

LEMMA ScanStep == ScanInv /\ [Next]_vars => ScanInv'
<1>1. SUFFICES ASSUME ScanInv, [Next]_vars PROVE ScanInv'
  OBVIOUS
<1>2. TypeOK /\ TablesAgree /\ EngineInv'
  BY <1>1, InvStep DEF ScanInv, EngineInv
<1>3. ASSUME NEW w \in Writer, NEW p \in Path, Change(w, p) PROVE ScanInv'
  BY <1>1, <1>2, <1>3, ScanChange
<1>4. ASSUME UNCHANGED <<tables, stream, handed>>, wanted' \subseteq wanted PROVE ScanInv'
  BY <1>1, <1>2, <1>4, SameTables, Untouched, ScanQuiet
<1>5. ASSUME NEW s \in Stream, NEW c \in Counter, JobDone(s, c) \/ JobFailed(s, c) PROVE ScanInv'
  <2>1. LogShrinks
    <3>1. CASE ForgetAll({c})
      BY <1>5, <3>1, ForgetAllShrinks DEF JobDone, JobFailed
    <3>2. CASE ~ForgetAll({c})
      BY <1>2, <1>5, <3>2 DEF JobDone, JobFailed, LogShrinks, tables, TypeOK
    <3>3. QED
      BY <3>1, <3>2
  <2>2. (NotifyFailedJob \/ UNCHANGED stream) /\ UNCHANGED handed
    BY <1>5 DEF JobDone, JobFailed
  <2>3. ASSUME NEW t \in Stream PROVE ScanStays(t)
    <3>1. /\ \/ stream'[t].pc = stream[t].pc
             \/ stream[t].pc = "sleep" /\ stream'[t].pc = "evaluate"
          /\ stream'[t].job = stream[t].job /\ KeepsScan(t) /\ handed'[t] = handed[t]
      BY <1>2, <2>2, NotifyFields
    <3>2. QED
      BY <3>1 DEF ScanStays, KeepsScan
  <2>4. QED
    BY <1>1, <1>2, <2>1, <2>3, ScanQuiet
<1>6. ASSUME NEW s \in Stream, BuildJobs(s) PROVE ScanInv'
  BY <1>1, <1>2, <1>6, ScanNextJob, ScanDeleteRange, ScanBuildJobs DEF BuildJobs
<1>7. ASSUME NEW s \in Stream, TakeJob(s) \/ CloseStream(s) PROVE ScanInv'
  <2>1. UNCHANGED <<tables, wanted, handed>>
    BY <1>7 DEF TakeJob, CloseStream, history
  <2>2. \A t \in Stream \ {s} : ScanStays(t)
    BY <1>2, <1>7, <2>1, OtherStreams, Untouched
  <2>3. ScanStays(s)
    BY <1>2, <1>7, <2>1, EmptyChannelFields, SamePlace
  <2>4. QED
    BY <1>1, <1>2, <2>1, <2>2, <2>3, SameTables, ScanQuiet
<1>8. ASSUME NEW s \in Stream, OpenStream(s) PROVE ScanInv'
  <2>1. UNCHANGED <<tables, wanted>> /\ stream'[s] = NewStream
        /\ \A t \in Stream \ {s} : handed'[t] = handed[t]
    BY <1>2, <1>8 DEF OpenStream, TypeOK
  <2>2. \A t \in Stream \ {s} : ScanStays(t)
    BY <1>2, <1>8, <2>1, OtherStreams, Untouched
  <2>3. ScanStays(s)
    BY <2>1 DEF ScanStays, NewStream
  <2>4. QED
    BY <1>1, <1>2, <2>1, <2>2, <2>3, SameTables, ScanQuiet
<1>9. CASE Restart
  <2>1. UNCHANGED <<tables, wanted>> /\ \A t \in Stream : stream'[t] = NewStream
    BY <1>9 DEF Restart
  <2>2. \A t \in Stream : ScanStays(t)
    BY <2>1 DEF ScanStays, NewStream
  <2>3. QED
    BY <1>1, <1>2, <2>1, <2>2, SameTables, ScanQuiet
<1>10. QED
  <2>1. ASSUME NEW p \in Path, Satisfy(p) PROVE ScanInv'
    BY <1>4, <2>1 DEF Satisfy, history
  <2>2. ASSUME NEW w \in Writer, AfterCommit(w) PROVE ScanInv'
    BY <1>4, <2>2 DEF AfterCommit, history
  <2>3. CASE Tick
    BY <1>4, <2>3 DEF Tick, history
  <2>4. CASE UNCHANGED vars
    BY <1>4, <2>4 DEF vars, history
  <2>5. QED
    BY <1>1, <1>3, <1>5, <1>6, <1>7, <1>8, <1>9, <2>1, <2>2, <2>3, <2>4 DEF Next

\* No stream skips a job: whatever deletions, reports, failures and new dirty
\* marks interleave with its scan, a job below its start counter was handed
\* out, waits for its backoff or is about to be handed out
\* (Engine::build_jobs, next_job, delete_range).
THEOREM NoSkippedJobCorrect == Spec => []NoSkippedJob
<1>1. Init => ScanInv
  <2>1. SUFFICES ASSUME Init PROVE ScanInv
    OBVIOUS
  <2>2. EngineInv /\ \A s \in Stream : stream[s] = NewStream /\ dirtyCounter = 0
    BY <2>1, InvInit DEF Init
  <2>3. \A s \in Stream : stream[s].start = 1 /\ stream[s].pc = "next"
    BY <2>2 DEF NewStream
  <2>4. QED
    BY <2>2, <2>3 DEF ScanInv, StartGiven, ScanEnds, NoSkippedJob, Counter
<1>2. ScanInv => NoSkippedJob
  BY DEF ScanInv
<1>3. QED
  BY <1>1, <1>2, ScanStep, PTL DEF Spec

-----------------------------------------------------------------------------
(* NoHiddenRetry                                                           *)

\* Stream t has taken up the failed job c.
TakenUp(t, c) ==
  \/ c \in stream[t].retry
  \/ stream[t].pc = "resend" /\ stream[t].job = c
  \/ stream[t].chan = c
  \/ <<t, c>> \in running

\* No job fails, and no failed job becomes wanted.
NoNewFailure ==
  \A c \in Counter : failedJob'[c].count > 0 =>
    /\ failedJob[c].count > 0 /\ failedJob'[c].until = failedJob[c].until
    /\ dirtyLog'[c] \in wanted' => dirtyLog[c] \in wanted

\* What RetryInv says of stream t.
Tidy(t) ==
  /\ stream[t].pc \notin {"retry", "resend"} => stream[t].retry = {}
  /\ stream[t].pc \notin Waiting => stream[t].due = {}
Covers(t) ==
  \A c \in Counter :
    stream[t].due # {} /\ IsFailed(c) /\ failedJob[c].until > stream[t].lower
      => \/ c \in stream[t].due
         \/ failedJob[c].until > stream[t].until
         \/ stream[t].pc = "evaluate" /\ failedJob[c].until > now
HidesNone(t) ==
  \A c \in Counter :
    t \in open /\ IsFailed(c) /\ dirtyLog[c] \in wanted
      => failedJob[c].until > stream[t].lower \/ TakenUp(t, c)
RetryOf(t) == Tidy(t) /\ stream[t].lower <= now /\ Covers(t) /\ HidesNone(t)
FailuresLater == \A c \in Counter : IsFailed(c) => failedJob[c].until > 0

LEMMA RetryParts ==
  RetryInv <=> EngineInv /\ FailuresLater /\ \A t \in Stream : RetryOf(t)
  BY DEF RetryInv, RetryTidy, BackoffTimes, SleepCovers, NoHiddenRetry, RetryOf, Tidy, Covers,
         HidesNone, TakenUp, FailuresLater

LEMMA RetryPartsPrimed ==
  ASSUME EngineInv', FailuresLater', \A t \in Stream : RetryOf(t)'
  PROVE  RetryInv'
  BY DEF RetryInv, RetryTidy, BackoffTimes, SleepCovers, NoHiddenRetry, RetryOf, Tidy, Covers,
         HidesNone, TakenUp, FailuresLater

\* The step leaves the wait of stream t and what it has taken up as they are,
\* or is the start or the end of its task.
RetryStays(t) ==
  \/ /\ stream'[t].lower = 0 /\ stream'[t].due = {} /\ stream'[t].retry = {}
  \/ /\ stream'[t].lower = stream[t].lower
     /\ Tidy(t)'
     /\ \/ stream'[t].due = {}
        \/ /\ stream'[t].due = stream[t].due /\ stream'[t].until = stream[t].until
           /\ stream[t].pc = "evaluate" => stream'[t].pc = "evaluate"
     /\ t \in open' => t \in open
     /\ \A c \in Counter :
          failedJob'[c].count > 0 /\ dirtyLog'[c] \in wanted' /\ TakenUp(t, c) /\ t \in open'
            => TakenUp(t, c)'

LEMMA RetryStaysKeeps ==
  ASSUME RetryInv, NoNewFailure, now' = now, NEW t \in Stream, RetryStays(t)
  PROVE  RetryOf(t)'
<1>0. FailuresLater /\ RetryOf(t) /\ now \in Nat
  BY RetryParts DEF EngineInv, TypeOK, Time
<1>1. CASE stream'[t].lower = 0 /\ stream'[t].due = {} /\ stream'[t].retry = {}
  <2>1. Tidy(t)'
    BY <1>1 DEF Tidy
  <2>2. Covers(t)'
    BY <1>1 DEF Covers
  <2>3. HidesNone(t)'
    <3>1. \A c \in Counter : failedJob'[c].count > 0 => failedJob'[c].until > 0
      BY <1>0 DEF NoNewFailure, FailuresLater, IsFailed
    <3>2. QED
      BY <1>1, <3>1 DEF HidesNone, IsFailed
  <2>4. stream'[t].lower <= now'
    BY <1>0, <1>1
  <2>5. QED
    BY <2>1, <2>2, <2>3, <2>4 DEF RetryOf
<1>2. CASE ~(stream'[t].lower = 0 /\ stream'[t].due = {} /\ stream'[t].retry = {})
  <2>1. /\ stream'[t].lower = stream[t].lower
        /\ Tidy(t)'
        /\ \/ stream'[t].due = {}
           \/ /\ stream'[t].due = stream[t].due /\ stream'[t].until = stream[t].until
              /\ stream[t].pc = "evaluate" => stream'[t].pc = "evaluate"
        /\ t \in open' => t \in open
        /\ \A c \in Counter :
             failedJob'[c].count > 0 /\ dirtyLog'[c] \in wanted' /\ TakenUp(t, c) /\ t \in open'
               => TakenUp(t, c)'
    BY <1>2 DEF RetryStays
  <2>2. Covers(t)'
    BY <1>0, <2>1 DEF RetryOf, Covers, NoNewFailure, IsFailed
  <2>3. HidesNone(t)'
    <3>1. SUFFICES ASSUME NEW c \in Counter, t \in open', failedJob'[c].count > 0,
                          dirtyLog'[c] \in wanted'
                   PROVE  failedJob'[c].until > stream'[t].lower \/ TakenUp(t, c)'
      BY DEF HidesNone, IsFailed
    <3>2. /\ t \in open /\ IsFailed(c) /\ dirtyLog[c] \in wanted
          /\ failedJob'[c].until = failedJob[c].until
      BY <2>1, <3>1 DEF NoNewFailure, IsFailed
    <3>3. failedJob[c].until > stream[t].lower \/ TakenUp(t, c)
      BY <1>0, <3>2 DEF RetryOf, HidesNone
    <3>4. QED
      BY <2>1, <3>1, <3>2, <3>3
  <2>4. QED
    BY <1>0, <2>1, <2>2, <2>3 DEF RetryOf
<1>3. QED
  BY <1>1, <1>2

LEMMA FailuresStay ==
  ASSUME RetryInv, NoNewFailure
  PROVE  FailuresLater'
  BY RetryParts DEF FailuresLater, NoNewFailure, IsFailed

LEMMA RetryQuiet ==
  ASSUME RetryInv, EngineInv', NoNewFailure, now' = now, \A t \in Stream : RetryStays(t)
  PROVE  RetryInv'
  BY RetryStaysKeeps, FailuresStay, RetryPartsPrimed

\* A stream the step does not touch.
LEMMA RetryUntouched ==
  ASSUME RetryInv, NEW t \in Stream, stream'[t] = stream[t], t \in open' => t \in open,
         \A c \in Counter : <<t, c>> \in running /\ failedJob'[c].count > 0 => <<t, c>> \in running'
  PROVE  RetryStays(t)
<1>1. Tidy(t)
  BY RetryParts DEF RetryOf
<1>2. Tidy(t)'
  BY <1>1 DEF Tidy
<1>3. QED
  BY <1>2 DEF RetryStays, TakenUp

LEMMA SameFailures ==
  ASSUME UNCHANGED <<failedJob, dirtyLog>>, wanted' \subseteq wanted
  PROVE  NoNewFailure
  BY DEF NoNewFailure

LEMMA ForgetNoFailure ==
  ASSUME TypeOK, NEW cs \in SUBSET Counter, ForgetAll(cs), UNCHANGED wanted
  PROVE  NoNewFailure
  BY DEF ForgetAll, NoNewFailure, NoFailure, TypeOK

\* mark_dirty gives a path that becomes wanted a counter that has not failed.
LEMMA RetryChange ==
  ASSUME RetryInv, EngineInv', NEW w \in Writer, NEW p \in Path, Change(w, p)
  PROVE  RetryInv'
<1>0. TypeOK /\ TablesAgree /\ LogBelowCounter
  BY DEF RetryInv, EngineInv
<1> DEFINE new == dirtyCounter + 1
<1>1. UNCHANGED <<stream, open, running, now>> /\ wanted' \in {wanted \cup {p}, wanted \ {p}}
  BY DEF Change
<1>2. ASSUME NEW c \in Counter, failedJob'[c].count > 0
      PROVE  /\ failedJob[c].count > 0 /\ failedJob'[c].until = failedJob[c].until
             /\ dirtyLog'[c] \in wanted' => dirtyLog[c] \in wanted
  <2>1. c # dirtyTable[p] /\ failedJob'[c] = failedJob[c]
    BY <1>0, <1>2 DEF Change, MarkDirty, Superseded, NoFailure, Counter
  <2>2. IsLogged(c) /\ c # new
    BY <1>0, <1>2, <2>1 DEF TablesAgree, IsFailed, LogBelowCounter, TypeOK, Counter
  <2>3. dirtyLog'[c] = dirtyLog[c] /\ dirtyLog[c] # p
    BY <1>0, <2>1, <2>2 DEF Change, MarkDirty, Superseded, TablesAgree, Counter
  <2>4. QED
    BY <1>1, <1>2, <2>1, <2>3
<1>3. NoNewFailure
  BY <1>2 DEF NoNewFailure
<1>4. QED
  BY <1>1, <1>3, RetryUntouched, RetryQuiet

\* A report of a failed job that backs off: the new end is in the future, later
\* than any retry_lower_bound, and the tasks that wait know of it.
LEMMA RetryBackoff ==
  ASSUME RetryInv, EngineInv', NEW s \in Stream, NEW c \in Counter, JobFailed(s, c),
         IsLogged(c), Delay[failedJob[c].count + 1] > 0
  PROVE  RetryInv'
<1>0. TypeOK /\ FailuresLater /\ \A t \in Stream : RetryOf(t)
  BY RetryParts DEF RetryInv, EngineInv
<1> DEFINE count == failedJob[c].count + 1
           until == now + Delay[count]
<1>1. /\ NotifyFailedJob
      /\ failedJob' = [failedJob EXCEPT ![c] = [count |-> count, until |-> until]]
      /\ UNCHANGED <<dirtyLog, wanted, now, open>> /\ running' = running \ {<<s, c>>}
  BY DEF JobFailed
<1>2. now \in Nat /\ until \in Nat /\ until > now /\ count > 0
  BY <1>0 DEF JobFailed, TypeOK, Time
<1>3. failedJob'[c].until = until /\ \A d \in Counter \ {c} : failedJob'[d] = failedJob[d]
  BY <1>0, <1>1 DEF TypeOK
<1>4. FailuresLater'
  BY <1>0, <1>2, <1>3 DEF FailuresLater, IsFailed
<1>5. ASSUME NEW t \in Stream PROVE RetryOf(t)'
  <2>1. /\ \/ stream'[t].pc = stream[t].pc
           \/ stream[t].pc = "sleep" /\ stream'[t].pc = "evaluate"
        /\ stream'[t].pc # "sleep"
        /\ stream'[t].job = stream[t].job
        /\ KeepsRetries(t)
    BY <1>0, <1>1, NotifyFields
  <2>2. Tidy(t) /\ stream[t].lower <= now /\ Covers(t) /\ HidesNone(t) /\ stream[t].lower \in Nat
    BY <1>0, StreamFields DEF RetryOf, Time
  <2>3. Tidy(t)'
    BY <2>1, <2>2 DEF Tidy, KeepsRetries, Waiting
  <2>4. stream'[t].due # {} => stream'[t].pc = "evaluate"
    BY <2>1, <2>3 DEF Tidy, Waiting
  <2>5. Covers(t)'
    <3>1. SUFFICES ASSUME NEW d \in Counter, stream'[t].due # {}, failedJob'[d].count > 0,
                          failedJob'[d].until > stream'[t].lower
                   PROVE  \/ d \in stream'[t].due
                          \/ failedJob'[d].until > stream'[t].until
                          \/ stream'[t].pc = "evaluate" /\ failedJob'[d].until > now'
      BY DEF Covers, IsFailed
    <3>2. CASE d = c
      BY <1>1, <1>2, <1>3, <2>4, <3>1, <3>2
    <3>3. CASE d # c
      <4>1. failedJob'[d] = failedJob[d]
        BY <1>3, <3>3
      <4>2. \/ d \in stream[t].due
            \/ failedJob[d].until > stream[t].until
            \/ stream[t].pc = "evaluate" /\ failedJob[d].until > now
        BY <2>1, <2>2, <3>1, <4>1 DEF Covers, IsFailed, KeepsRetries
      <4>3. QED
        BY <1>1, <2>1, <2>4, <3>1, <4>1, <4>2 DEF KeepsRetries
    <3>4. QED
      BY <3>2, <3>3
  <2>6. HidesNone(t)'
    <3>1. SUFFICES ASSUME NEW d \in Counter, t \in open', failedJob'[d].count > 0,
                          dirtyLog'[d] \in wanted'
                   PROVE  failedJob'[d].until > stream'[t].lower \/ TakenUp(t, d)'
      BY DEF HidesNone, IsFailed
    <3>2. CASE d = c
      BY <1>2, <1>3, <2>1, <2>2, <3>2 DEF KeepsRetries
    <3>3. CASE d # c
      <4>1. failedJob'[d] = failedJob[d] /\ (<<t, d>> \in running => <<t, d>> \in running')
        BY <1>1, <1>3, <3>3
      <4>2. failedJob[d].until > stream[t].lower \/ TakenUp(t, d)
        BY <1>1, <2>2, <3>1, <4>1 DEF HidesNone, IsFailed
      <4>3. QED
        BY <2>1, <4>1, <4>2 DEF TakenUp, KeepsRetries
    <3>4. QED
      BY <3>2, <3>3
  <2>7. QED
    BY <1>1, <2>1, <2>2, <2>3, <2>5, <2>6 DEF RetryOf, KeepsRetries
<1>6. QED
  BY <1>4, <1>5, RetryPartsPrimed

\* The task reads the failed jobs: it leaves out those that end later.
LEMMA RetryEvaluate ==
  ASSUME RetryInv, EngineInv', NEW s \in Stream, EvaluateBackoff(s)
  PROVE  RetryInv'
<1>0. TypeOK /\ FailuresLater /\ \A t \in Stream : RetryOf(t)
  BY RetryParts DEF RetryInv, EngineInv
<1> DEFINE later == {c \in Counter : IsFailed(c) /\ failedJob[c].until > stream[s].lower}
           first == {c \in later : \A d \in later : failedJob[c].until <= failedJob[d].until}
<1>1. UNCHANGED <<failedJob, dirtyLog, wanted, now, open, running>> /\ stream[s].pc = "evaluate"
  BY DEF EvaluateBackoff, tables
<1>2. NoNewFailure /\ FailuresLater'
  BY <1>1, SameFailures, FailuresStay
<1>3. /\ stream'[s].pc = "sleep" /\ stream'[s].due = first
      /\ first # {} => \E c \in first : stream'[s].until = failedJob[c].until
      /\ stream'[s].lower = stream[s].lower /\ stream'[s].retry = stream[s].retry
      /\ stream'[s].job = stream[s].job /\ stream'[s].chan = stream[s].chan
  BY <1>0, EvaluateBackoffFields
<1>4. ASSUME NEW t \in Stream \ {s} PROVE RetryOf(t)'
  <2>1. stream'[t] = stream[t]
    BY <1>0, OtherStreams DEF BuildJobs
  <2>2. QED
    BY <1>1, <1>2, <2>1, RetryUntouched, RetryStaysKeeps
<1>5. Tidy(s)'
  BY <1>0, <1>1, <1>3 DEF RetryOf, Tidy, Waiting
<1>6. Covers(s)'
  <2>1. SUFFICES ASSUME NEW c \in Counter, first # {}, IsFailed(c),
                        failedJob[c].until > stream[s].lower
                 PROVE  c \in first \/ failedJob[c].until > stream'[s].until
    BY <1>1, <1>3 DEF Covers, IsFailed
  <2>2. PICK d \in first : stream'[s].until = failedJob[d].until
    BY <1>3, <2>1
  <2>3. c \in later /\ failedJob[c].until \in Nat /\ failedJob[d].until \in Nat
    BY <1>0, <2>1 DEF TypeOK, Time
  <2>4. \A e \in later : failedJob[d].until <= failedJob[e].until /\ failedJob[e].until \in Nat
    BY <1>0 DEF TypeOK, Time
  <2>5. CASE failedJob[c].until = failedJob[d].until
    BY <2>3, <2>4, <2>5
  <2>6. CASE failedJob[c].until # failedJob[d].until
    BY <2>2, <2>3, <2>4, <2>6
  <2>7. QED
    BY <2>5, <2>6
<1>7. HidesNone(s)'
  BY <1>0, <1>1, <1>3 DEF RetryOf, HidesNone, TakenUp, IsFailed
<1>8. RetryOf(s)'
  BY <1>0, <1>1, <1>3, <1>5, <1>6, <1>7 DEF RetryOf
<1>9. QED
  BY <1>2, <1>4, <1>8, RetryPartsPrimed

\* The sleep is over: the jobs it was for are those retry_lower_bound now hides.
LEMMA RetryElapsed ==
  ASSUME RetryInv, EngineInv', NEW s \in Stream, BackoffElapsed(s)
  PROVE  RetryInv'
<1>0. TypeOK /\ FailuresLater /\ \A t \in Stream : RetryOf(t)
  BY RetryParts DEF RetryInv, EngineInv
<1>1. /\ UNCHANGED <<failedJob, dirtyLog, wanted, now, open, running>>
      /\ stream[s].pc \in Waiting /\ stream[s].due # {} /\ now >= stream[s].until
  BY DEF BackoffElapsed, tables
<1>2. NoNewFailure /\ FailuresLater'
  BY <1>1, SameFailures, FailuresStay
<1>3. /\ stream'[s].pc = "retry" /\ stream'[s].due = {}
      /\ stream'[s].retry = stream[s].due /\ stream'[s].lower = stream[s].until
      /\ stream'[s].job = stream[s].job /\ stream'[s].chan = stream[s].chan
  BY <1>0, BackoffElapsedFields
<1>4. ASSUME NEW t \in Stream \ {s} PROVE RetryOf(t)'
  <2>1. stream'[t] = stream[t]
    BY <1>0, OtherStreams DEF BuildJobs
  <2>2. QED
    BY <1>1, <1>2, <2>1, RetryUntouched, RetryStaysKeeps
<1>5. Tidy(s)' /\ Covers(s)'
  BY <1>3 DEF Tidy, Covers
<1>6. stream[s].until \in Nat /\ now \in Nat /\ stream[s].lower \in Nat
  BY <1>0, StreamFields DEF TypeOK, Time
<1>7. HidesNone(s)'
  <2>1. SUFFICES ASSUME NEW c \in Counter, s \in open, IsFailed(c), dirtyLog[c] \in wanted
                 PROVE  failedJob[c].until > stream[s].until \/ TakenUp(s, c)'
    BY <1>1, <1>3 DEF HidesNone, IsFailed
  <2>2. failedJob[c].until \in Nat
    BY <1>0 DEF TypeOK, Time
  <2>3. CASE failedJob[c].until > stream[s].lower
    <3>1. \/ c \in stream[s].due
          \/ failedJob[c].until > stream[s].until
          \/ stream[s].pc = "evaluate" /\ failedJob[c].until > now
      BY <1>0, <1>1, <2>1, <2>3 DEF RetryOf, Covers
    <3>2. QED
      BY <1>1, <1>3, <1>6, <2>2, <3>1 DEF TakenUp
  <2>4. CASE ~(failedJob[c].until > stream[s].lower)
    <3>1. TakenUp(s, c)
      BY <1>0, <2>1, <2>4 DEF RetryOf, HidesNone
    <3>2. stream[s].retry = {} /\ stream[s].pc # "resend"
      BY <1>0, <1>1 DEF RetryOf, Tidy, Waiting
    <3>3. QED
      BY <1>1, <1>3, <3>1, <3>2 DEF TakenUp
  <2>5. QED
    BY <2>3, <2>4
<1>8. RetryOf(s)'
  BY <1>1, <1>3, <1>5, <1>6, <1>7 DEF RetryOf
<1>9. QED
  BY <1>2, <1>4, <1>8, RetryPartsPrimed

\* The other steps of build_jobs.
LEMMA RetryBuildJobs ==
  ASSUME RetryInv, EngineInv', NEW s \in Stream,
         NextJob(s) \/ DeleteRange(s) \/ CheckFailed(s) \/ SendJob(s) \/ BuildRetry(s)
           \/ WakeUp(s) \/ NoticeClosed(s)
  PROVE  RetryInv'
<1>0. TypeOK /\ TablesAgree /\ RetryOf(s) /\ Tidy(s)
  BY RetryParts DEF RetryInv, EngineInv, RetryOf
<1>1. UNCHANGED <<wanted, now, open, running>>
  BY DEF NextJob, DeleteRange, CheckFailed, SendJob, BuildRetry, WakeUp, NoticeClosed
<1>2. NoNewFailure
  <2>1. CASE DeleteRange(s)
    <3>1. ForgetAll(RangeToDelete(stream[s].start, stream[s].last))
          /\ RangeToDelete(stream[s].start, stream[s].last) \in SUBSET Counter
      BY <2>1 DEF DeleteRange, RangeToDelete
    <3>2. QED
      BY <1>0, <1>1, <3>1, ForgetNoFailure
  <2>2. CASE ~DeleteRange(s)
    <3>1. UNCHANGED <<failedJob, dirtyLog>>
      BY <2>2 DEF NextJob, CheckFailed, SendJob, BuildRetry, WakeUp, NoticeClosed, tables
    <3>2. QED
      BY <1>1, <3>1, SameFailures
  <2>3. QED
    BY <2>1, <2>2
<1>3. \A t \in Stream \ {s} : RetryStays(t)
  <2>1. \A t \in Stream \ {s} : stream'[t] = stream[t]
    BY <1>0, OtherStreams DEF BuildJobs
  <2>2. QED
    BY <1>1, <2>1, RetryUntouched
<1>4. RetryStays(s)
  <2>1. CASE NextJob(s) \/ DeleteRange(s) \/ CheckFailed(s)
    <3>1. /\ stream[s].pc \in {"next", "delete", "check"}
          /\ stream'[s].pc \notin {"retry", "resend"} /\ KeepsRetries(s)
      <4>1. CASE NextJob(s)
        BY <1>0, <4>1, NextJobFields DEF NextJob
      <4>2. CASE DeleteRange(s)
        <5>1. stream[s].pc = "delete"
          BY <4>2 DEF DeleteRange
        <5>2. stream'[s].pc \in {"evaluate", "check"} /\ KeepsRetries(s)
          BY <1>0, <4>2, DeleteRangeFields
        <5>3. QED
          BY <5>1, <5>2
      <4>3. CASE CheckFailed(s)
        <5>1. stream[s].pc = "check"
          BY <4>3 DEF CheckFailed
        <5>2. stream'[s].pc \in {"next", "send"} /\ KeepsRetries(s)
          BY <1>0, <4>3, CheckFailedFields
        <5>3. QED
          BY <5>1, <5>2
      <4>4. QED
        BY <2>1, <4>1, <4>2, <4>3
    <3>2. stream[s].due = {} /\ stream[s].retry = {}
      BY <1>0, <3>1 DEF Tidy, Waiting
    <3>3. Tidy(s)'
      BY <3>1, <3>2 DEF Tidy, KeepsRetries
    <3>4. QED
      BY <1>1, <3>1, <3>2, <3>3 DEF RetryStays, TakenUp, KeepsRetries
  <2>2. CASE stream'[s] = NoStream
    BY <2>2, NewStreamFields DEF RetryStays
  <2>3. CASE SendJob(s) /\ stream'[s] # NoStream
    <3>1. /\ stream[s].chan = 0 /\ stream'[s].chan = stream[s].job
          /\ stream'[s].pc = IF stream[s].pc = "send" THEN "next" ELSE AfterRetry(stream[s].retry)
          /\ stream'[s].lower = stream[s].lower
          /\ stream'[s].due = stream[s].due /\ stream'[s].retry = stream[s].retry
          /\ stream[s].pc \in {"send", "resend"}
      BY <1>0, <2>3, SendJobFields DEF SendJob
    <3>2. stream[s].due = {} /\ (stream[s].pc = "send" => stream[s].retry = {})
      BY <1>0, <3>1 DEF Tidy, Waiting
    <3>3. Tidy(s)'
      BY <3>1, <3>2 DEF Tidy, AfterRetry
    <3>4. \A c \in Counter : TakenUp(s, c) => TakenUp(s, c)'
      BY <1>1, <3>1 DEF TakenUp, Counter
    <3>5. QED
      BY <1>1, <3>1, <3>2, <3>3, <3>4 DEF RetryStays
  <2>4. CASE BuildRetry(s)
    <3>1. PICK c \in stream[s].retry :
            /\ stream'[s].retry = stream[s].retry \ {c} /\ stream'[s].job = c
            /\ stream'[s].pc = IF IsLogged(c) /\ dirtyLog[c] \in wanted THEN "resend"
                               ELSE AfterRetry(stream[s].retry \ {c})
            /\ stream'[s].lower = stream[s].lower
            /\ stream'[s].due = stream[s].due /\ stream'[s].chan = stream[s].chan
      BY <1>0, <2>4, BuildRetryFields
    <3>2. stream[s].pc = "retry" /\ stream[s].due = {} /\ UNCHANGED <<failedJob, dirtyLog>>
      BY <1>0, <2>4 DEF BuildRetry, Tidy, Waiting, tables
    <3>3. Tidy(s)'
      BY <3>1, <3>2 DEF Tidy, AfterRetry
    <3>4. ASSUME NEW d \in Counter, failedJob'[d].count > 0, dirtyLog'[d] \in wanted', TakenUp(s, d)
          PROVE  TakenUp(s, d)'
      <4>1. IsLogged(d) /\ dirtyLog[d] \in wanted
        BY <1>0, <1>1, <3>2, <3>4 DEF TablesAgree, IsFailed
      <4>2. QED
        BY <1>1, <3>1, <3>2, <3>4, <4>1 DEF TakenUp
    <3>5. QED
      BY <1>1, <3>1, <3>2, <3>3, <3>4 DEF RetryStays
  <2>5. CASE WakeUp(s)
    <3>1. /\ stream'[s].pc = "next" /\ stream'[s].due = {} /\ stream'[s].retry = stream[s].retry
          /\ stream'[s].lower = stream[s].lower /\ stream'[s].chan = stream[s].chan
          /\ stream[s].pc \in Waiting
      BY <1>0, <2>5, WakeUpFields DEF WakeUp
    <3>2. stream[s].retry = {}
      BY <1>0, <3>1 DEF Tidy, Waiting
    <3>3. QED
      BY <1>1, <3>1, <3>2 DEF RetryStays, Tidy, TakenUp, Waiting
  <2>6. CASE NoticeClosed(s)
    BY <1>0, <2>2, <2>6 DEF NoticeClosed, TypeOK
  <2>7. QED
    BY <2>1, <2>2, <2>3, <2>4, <2>5, <2>6
<1>5. QED
  BY <1>1, <1>2, <1>3, <1>4, RetryQuiet

\* Time passes only when every task has read what it was told of.
LEMMA RetryTick ==
  ASSUME RetryInv, EngineInv', Tick
  PROVE  RetryInv'
<1>0. TypeOK /\ FailuresLater /\ \A t \in Stream : RetryOf(t)
  BY RetryParts DEF RetryInv, EngineInv
<1>1. /\ UNCHANGED <<failedJob, dirtyLog, wanted, open, running, stream>> /\ now' = now + 1
      /\ \A t \in Stream : stream[t].pc # "evaluate"
  BY DEF Tick, tables
<1>2. FailuresLater'
  BY <1>0, <1>1 DEF FailuresLater, IsFailed
<1>3. ASSUME NEW t \in Stream PROVE RetryOf(t)'
  <2>1. RetryOf(t) /\ stream[t].lower \in Nat /\ now \in Nat
    BY <1>0, StreamFields DEF TypeOK, Time
  <2>2. Tidy(t)' /\ HidesNone(t)'
    BY <1>1, <2>1 DEF RetryOf, Tidy, HidesNone, TakenUp, IsFailed
  <2>3. Covers(t)'
    BY <1>1, <2>1 DEF RetryOf, Covers, IsFailed
  <2>4. QED
    BY <1>1, <2>1, <2>2, <2>3 DEF RetryOf
<1>4. QED
  BY <1>2, <1>3, RetryPartsPrimed

\* A report that ends a dirty mark, or finds it gone, ends its failure too.
LEMMA RetryReport ==
  ASSUME RetryInv, EngineInv', NEW s \in Stream, NEW c \in Counter,
         \/ JobDone(s, c)
         \/ JobFailed(s, c) /\ ~(IsLogged(c) /\ Delay[failedJob[c].count + 1] > 0)
  PROVE  RetryInv'
<1>0. TypeOK /\ TablesAgree /\ \A t \in Stream : Tidy(t)
  BY RetryParts DEF RetryInv, EngineInv, RetryOf
<1>1. /\ UNCHANGED <<wanted, now, open>> /\ running' = running \ {<<s, c>>}
      /\ NotifyFailedJob \/ UNCHANGED stream
  BY DEF JobDone, JobFailed
<1>2. NoNewFailure /\ failedJob'[c].count = 0
  <2>1. CASE IsLogged(c)
    <3>1. ForgetAll({c})
      BY <2>1 DEF JobDone, JobFailed
    <3>2. failedJob'[c].count = 0
      BY <3>1 DEF ForgetAll, NoFailure
    <3>3. QED
      BY <1>0, <1>1, <3>1, <3>2, ForgetNoFailure
  <2>2. CASE ~IsLogged(c)
    <3>1. UNCHANGED <<failedJob, dirtyLog>>
      BY <2>2 DEF JobDone, JobFailed, tables
    <3>2. failedJob[c].count = 0
      BY <1>0, <2>2 DEF TablesAgree, IsFailed, TypeOK
    <3>3. QED
      BY <1>1, <3>1, <3>2, SameFailures
  <2>3. QED
    BY <2>1, <2>2
<1>3. ASSUME NEW t \in Stream PROVE RetryStays(t)
  <2>1. /\ \/ stream'[t].pc = stream[t].pc
           \/ stream[t].pc = "sleep" /\ stream'[t].pc = "evaluate"
        /\ stream'[t].job = stream[t].job
        /\ KeepsRetries(t)
    BY <1>0, <1>1, NotifyFields
  <2>2. Tidy(t)'
    BY <1>0, <2>1 DEF Tidy, KeepsRetries, Waiting
  <2>3. \A d \in Counter : failedJob'[d].count > 0 /\ TakenUp(t, d) => TakenUp(t, d)'
    BY <1>1, <1>2, <2>1 DEF TakenUp, KeepsRetries
  <2>4. QED
    BY <1>1, <2>1, <2>2, <2>3 DEF RetryStays, KeepsRetries
<1>4. QED
  BY <1>1, <1>2, <1>3, RetryQuiet

LEMMA RetryStep == RetryInv /\ [Next]_vars => RetryInv'
<1>1. SUFFICES ASSUME RetryInv, [Next]_vars PROVE RetryInv'
  OBVIOUS
<1>2. TypeOK /\ EngineInv' /\ \A t \in Stream : Tidy(t)
  BY <1>1, InvStep, RetryParts DEF RetryInv, EngineInv, RetryOf
<1>3. ASSUME UNCHANGED <<tables, stream, open, running, now>>, wanted' \subseteq wanted
      PROVE  RetryInv'
  <2>1. NoNewFailure
    BY <1>3, SameFailures DEF tables
  <2>2. \A t \in Stream : RetryStays(t)
    BY <1>1, <1>3, RetryUntouched
  <2>3. QED
    BY <1>1, <1>2, <1>3, <2>1, <2>2, RetryQuiet
<1>4. ASSUME NEW s \in Stream, NEW c \in Counter, JobDone(s, c) \/ JobFailed(s, c) PROVE RetryInv'
  BY <1>1, <1>2, <1>4, RetryReport, RetryBackoff
<1>5. ASSUME NEW s \in Stream, BuildJobs(s) PROVE RetryInv'
  BY <1>1, <1>2, <1>5, RetryEvaluate, RetryElapsed, RetryBuildJobs DEF BuildJobs
<1>6. ASSUME NEW s \in Stream, TakeJob(s) \/ CloseStream(s) \/ OpenStream(s) PROVE RetryInv'
  <2>1. UNCHANGED <<tables, wanted, now>> /\ NoNewFailure
    BY <1>6, SameFailures DEF TakeJob, CloseStream, OpenStream, tables
  <2>2. ASSUME NEW t \in Stream \ {s} PROVE RetryStays(t)
    <3>1. stream'[t] = stream[t]
      BY <1>2, <1>6, OtherStreams
    <3>2. (t \in open' => t \in open)
          /\ \A c \in Counter : <<t, c>> \in running => <<t, c>> \in running'
      BY <1>6 DEF TakeJob, CloseStream, OpenStream
    <3>3. QED
      BY <1>1, <3>1, <3>2, RetryUntouched
  <2>3. RetryStays(s)
    <3>1. CASE OpenStream(s)
      <4>1. stream'[s] = NewStream
        BY <1>2, <3>1 DEF OpenStream, TypeOK
      <4>2. QED
        BY <4>1, NewStreamFields DEF RetryStays
    <3>2. CASE TakeJob(s) \/ CloseStream(s)
      <4>1. /\ stream'[s].pc = stream[s].pc /\ stream'[s].job = stream[s].job
            /\ stream'[s].lower = stream[s].lower /\ stream'[s].until = stream[s].until
            /\ stream'[s].due = stream[s].due /\ stream'[s].retry = stream[s].retry
        BY <1>2, <3>2, EmptyChannelFields
      <4>2. Tidy(s)'
        BY <1>2, <4>1 DEF Tidy
      <4>3. \A c \in Counter : TakenUp(s, c) /\ s \in open' => TakenUp(s, c)'
        BY <3>2, <4>1 DEF TakenUp, TakeJob, CloseStream
      <4>4. QED
        BY <3>2, <4>1, <4>2, <4>3 DEF RetryStays, TakeJob, CloseStream
    <3>3. QED
      BY <1>6, <3>1, <3>2
  <2>4. QED
    BY <1>1, <1>2, <2>1, <2>2, <2>3, RetryQuiet
<1>7. CASE Restart
  <2>1. NoNewFailure /\ now' = now
    BY <1>7, SameFailures DEF Restart, tables
  <2>2. \A t \in Stream : stream'[t] = NewStream
    BY <1>7 DEF Restart
  <2>3. \A t \in Stream : RetryStays(t)
    BY <2>2, NewStreamFields DEF RetryStays
  <2>4. QED
    BY <1>1, <1>2, <2>1, <2>3, RetryQuiet
<1>8. QED
  <2>1. ASSUME NEW p \in Path, Satisfy(p) PROVE RetryInv'
    BY <1>3, <2>1 DEF Satisfy
  <2>2. ASSUME NEW w \in Writer, AfterCommit(w) PROVE RetryInv'
    BY <1>3, <2>2 DEF AfterCommit
  <2>3. CASE UNCHANGED vars
    BY <1>3, <2>3 DEF vars
  <2>4. QED
    BY <1>1, <1>2, <1>4, <1>5, <1>6, <1>7, <2>1, <2>2, <2>3, RetryChange, RetryTick DEF Next

\* retry_lower_bound hides no failed job that still has something to do from a
\* stream: its backoff ends later, or the stream has taken it up, whatever
\* failures, reports and restarts of streams come between the read of the
\* failed jobs and the end of the sleep (Engine::build_jobs,
\* wait_until_next_backoff, job_failed).
THEOREM NoHiddenRetryCorrect == Spec => []NoHiddenRetry
<1>1. Init => RetryInv
  <2>1. SUFFICES ASSUME Init PROVE RetryInv
    OBVIOUS
  <2>2. EngineInv /\ now = 0 /\ \A s \in Stream : stream[s] = NewStream
    BY <2>1, InvInit DEF Init
  <2>3. \A c \in Counter : ~IsFailed(c)
    BY <2>1 DEF Init, IsFailed, NoFailure
  <2>4. \A s \in Stream : stream[s].due = {} /\ stream[s].retry = {} /\ stream[s].lower = 0
    BY <2>2, NewStreamFields
  <2>5. QED
    BY <2>2, <2>3, <2>4 DEF RetryInv, RetryTidy, BackoffTimes, SleepCovers, NoHiddenRetry
<1>2. RetryInv => NoHiddenRetry
  BY DEF RetryInv
<1>3. QED
  BY <1>1, <1>2, RetryStep, PTL DEF Spec
=============================================================================
