-------------------------------- MODULE Engine --------------------------------
(***************************************************************************)
(* The job engine of one arena (realize-storage/src/arena/engine.rs): the  *)
(* dirty-path tables, the watch channel that announces new dirty paths,    *)
(* the job streams that turn dirty paths into jobs, and the reports of     *)
(* finished and failed jobs.                                               *)
(*                                                                         *)
(* What a job does is left out.  Whether Engine::build_job finds something *)
(* to do for a path is the variable "wanted": the index, the cache and the *)
(* marks change it, in a transaction that also marks the path dirty.       *)
(*                                                                         *)
(* Each action is one redb transaction (write transactions are serialised) *)
(* or one step between two await points of the task that runs it.          *)
(***************************************************************************)
EXTENDS Naturals, FiniteSets

CONSTANTS
  Path,         \* paths of the arena
  Writer,       \* threads that run transactions that mark paths dirty
  Stream,       \* job streams
  NoPath,       \* no entry in the dirty log
  MaxFailures,  \* bound on the failures of one job
  Delay,        \* Delay[n]: backoff after n failures; 0 is "give up"
  MaxCounter,   \* bound on dirty counters
  MaxTime,      \* bound on the clock
  MaxRestarts   \* bound on process restarts and reopened streams

ASSUME NoPathAssumption == NoPath \notin Path
ASSUME BoundsAssumption ==
  /\ MaxFailures \in Nat \ {0}
  /\ MaxCounter \in Nat
  /\ MaxTime \in Nat
  /\ MaxRestarts \in Nat
ASSUME DelayAssumption == \A n \in 1..MaxFailures : Delay[n] \in Nat

VARIABLES
  dirtyTable,    \* DIRTY_TABLE: path -> counter, 0 when there is no entry
  dirtyLog,      \* DIRTY_LOG_TABLE: counter -> path, or NoPath
  dirtyCounter,  \* DIRTY_COUNTER_TABLE: last counter given out
  failedJob,     \* FAILED_JOB_TABLE: counter -> failures and end of backoff
  watch,         \* value of the watch channel DirtyPaths::watch_tx
  hook,          \* after-commit callback a writer has yet to run, 0 if none
  stream,        \* local state of each Engine::build_jobs task
  open,          \* streams whose receiver has not been dropped
  running,       \* jobs being executed: pairs <<stream, counter>>
  wanted,        \* paths for which build_job returns a job
  now,           \* wall clock
  restarts,      \* restarts so far, for the bound only
  handed,        \* history: counters each stream has handed out
  settled        \* history: paths whose last dirty mark a job report removed

tables == <<dirtyTable, dirtyLog, dirtyCounter, failedJob>>
history == <<handed, settled>>
vars == <<tables, watch, hook, stream, open, running, wanted, now, restarts, history>>

Counter == 1..MaxCounter
Time == 0..MaxTime

\* A failed job's entry; count 0 stands for "no entry".
NoFailure == [count |-> 0, until |-> 0]
IsFailed(c) == failedJob[c].count > 0
IsLogged(c) == dirtyLog[c] # NoPath

\* Local variables of build_jobs, the channel it sends to and the state of
\* wait_until_next_backoff: lower is retry_lower_bound (0 for None), until
\* and due the jobs it sleeps for.  While it waits, the task is about to read
\* the failed jobs ("evaluate") or has read them ("sleep").
NewStream == [pc |-> "next", start |-> 1, last |-> 0, job |-> 0, lower |-> 0,
              until |-> 0, due |-> {}, retry |-> {}, chan |-> 0]
NoStream == [NewStream EXCEPT !.pc = "off"]
Waiting == {"evaluate", "sleep"}
PC == {"off", "next", "delete", "check", "send", "retry", "resend", "evaluate", "sleep"}
StreamState ==
  [pc : PC,
   start : 1..MaxCounter + 1, last : 0..MaxCounter, job : 0..MaxCounter,
   lower : Time, until : Time, due : SUBSET Counter, retry : SUBSET Counter,
   chan : 0..MaxCounter]

TypeOK ==
  /\ dirtyTable \in [Path -> 0..MaxCounter]
  /\ dirtyLog \in [Counter -> Path \cup {NoPath}]
  /\ dirtyCounter \in 0..MaxCounter
  /\ failedJob \in [Counter -> [count : 0..MaxFailures, until : Time]]
  /\ watch \in 0..MaxCounter
  /\ hook \in [Writer -> 0..MaxCounter]
  /\ stream \in [Stream -> StreamState]
  /\ open \in SUBSET Stream
  /\ running \in SUBSET (Stream \X Counter)
  /\ wanted \in SUBSET Path
  /\ now \in Time
  /\ restarts \in 0..MaxRestarts
  /\ handed \in [Stream -> SUBSET (0..MaxCounter)]
  /\ settled \in SUBSET Path

Init ==
  /\ dirtyTable = [p \in Path |-> 0]
  /\ dirtyLog = [c \in Counter |-> NoPath]
  /\ dirtyCounter = 0
  /\ failedJob = [c \in Counter |-> NoFailure]
  /\ watch = 0
  /\ hook = [w \in Writer |-> 0]
  /\ stream = [s \in Stream |-> NewStream]
  /\ open = Stream
  /\ running = {}
  /\ wanted = {}
  /\ now = 0
  /\ restarts = 0
  /\ handed = [s \in Stream |-> {}]
  /\ settled = {}

-----------------------------------------------------------------------------
(* The dirty tables *)

\* The counters whose log entries a new dirty mark of p replaces.
KeepsSuperseded(p) == {}                                         \* mutant
Superseded(p) == {dirtyTable[p]} \ {0}

\* DirtyPaths::mark_dirty inside a committed transaction: p gets a new
\* counter and whatever the tables held for its previous one is removed.
MarkDirty(w, p) ==
  LET new == dirtyCounter + 1
  IN /\ dirtyCounter < MaxCounter
     /\ hook[w] = 0
     /\ dirtyCounter' = new
     /\ dirtyTable' = [dirtyTable EXCEPT ![p] = new]
     /\ dirtyLog' = [c \in Counter |-> IF c = new THEN p
                                       ELSE IF c \in Superseded(p) THEN NoPath
                                       ELSE dirtyLog[c]]
     /\ failedJob' = [c \in Counter |-> IF c \in Superseded(p) THEN NoFailure
                                        ELSE failedJob[c]]
     /\ hook' = [hook EXCEPT ![w] = new]
     /\ settled' = settled \ {p}

\* A transaction of the index, the cache or the marks that changes what
\* build_job sees for p, in either direction.
Change(w, p) ==
  /\ MarkDirty(w, p)
  /\ wanted' \in {wanted \cup {p}, wanted \ {p}}
  /\ UNCHANGED <<open, watch, stream, running, now, restarts, handed>>

\* A change that leaves nothing to do and is not marked dirty: a blob that is
\* now verified.
Satisfy(p) ==
  /\ p \in wanted
  /\ wanted' = wanted \ {p}
  /\ UNCHANGED <<open, tables, watch, hook, stream, running, now, restarts, history>>

\* ArenaWriteTransaction::commit runs the after-commit callback once redb's
\* write lock is released, so callbacks of two writers may run in any order.
AfterCommit(w) ==
  /\ hook[w] # 0
  /\ watch' = hook[w]
  /\ hook' = [hook EXCEPT ![w] = 0]
  /\ UNCHANGED <<open, tables, stream, running, wanted, now, restarts, history>>

\* Removing an entry of the log also removes the dirty mark of its path and
\* its failure entry, as job_done, job_failed and delete_range do.
ForgetAll(cs) ==
  LET gone == {dirtyLog[c] : c \in {d \in cs : IsLogged(d)}}
  IN /\ dirtyLog' = [c \in Counter |-> IF c \in cs THEN NoPath ELSE dirtyLog[c]]
     /\ failedJob' = [c \in Counter |-> IF c \in cs THEN NoFailure ELSE failedJob[c]]
     /\ dirtyTable' = [p \in Path |-> IF p \in gone THEN 0 ELSE dirtyTable[p]]
     /\ UNCHANGED dirtyCounter

-----------------------------------------------------------------------------
(* Job reports *)

\* Engine::job_finished with Done or Abandoned, then job_done.
JobDone(s, c) ==
  /\ <<s, c>> \in running
  /\ running' = running \ {<<s, c>>}
  /\ IF IsLogged(c)
     THEN ForgetAll({c}) /\ settled' = settled \cup {dirtyLog[c]}
     ELSE UNCHANGED <<tables, settled>>
  /\ UNCHANGED <<open, watch, hook, stream, wanted, now, restarts, handed>>

\* mutant: nobody is told of the failure
MissFailedJob == UNCHANGED stream

\* failed_job_tx.send: every task in wait_until_next_backoff re-evaluates.
NotifyFailedJob ==
  stream' = [s \in Stream |-> IF stream[s].pc = "sleep"
                              THEN [stream[s] EXCEPT !.pc = "evaluate"]
                              ELSE stream[s]]

\* Engine::job_finished with an error, then job_failed: nothing when the
\* path was modified since, else a backoff or, when the strategy gives up,
\* the end of the dirty mark.
JobFailed(s, c) ==
  LET count == failedJob[c].count + 1
      until == now + Delay[count]
  IN /\ <<s, c>> \in running
     /\ running' = running \ {<<s, c>>}
     /\ count <= MaxFailures
     /\ \/ /\ ~IsLogged(c)
           /\ UNCHANGED <<tables, stream, settled>>
        \/ /\ IsLogged(c)
           /\ Delay[count] = 0
           /\ ForgetAll({c})
           /\ settled' = settled \cup {dirtyLog[c]}
           /\ NotifyFailedJob
        \/ /\ IsLogged(c)
           /\ Delay[count] > 0
           /\ until <= MaxTime
           /\ failedJob' = [failedJob EXCEPT ![c] = [count |-> count, until |-> until]]
           /\ NotifyFailedJob
           /\ UNCHANGED <<dirtyTable, dirtyLog, dirtyCounter, settled>>
     /\ UNCHANGED <<open, watch, hook, wanted, now, restarts, handed>>

-----------------------------------------------------------------------------
(* Engine::build_jobs *)

\* mutant: the scan goes on one counter too far
ScannedPastNext(s, job, last) ==
  [stream[s] EXCEPT !.start = IF last = 0 THEN @ ELSE last + 2,
                    !.last = last,
                    !.job = job,
                    !.pc = IF job = 0 THEN "evaluate" ELSE "check"]

\* The state of the task once the scan and the deletion are over: it goes on
\* after the last counter it examined, with the job it found or to wait.
Scanned(s, job, last) ==
  [stream[s] EXCEPT !.start = IF last = 0 THEN @ ELSE last + 1,
                    !.last = last,
                    !.job = job,
                    !.pc = IF job = 0 THEN "evaluate" ELSE "check"]

\* Log entries from start_counter on, and those of them that make a job.
Pending(s) == {c \in Counter : c >= stream[s].start /\ IsLogged(c)}
Jobs(s) == {c \in Pending(s) : dirtyLog[c] \in wanted}

\* What next_job returns: the first job and its counter, or no job and the
\* last counter of the log (0 for None).
NextJobResult(s, job, last) ==
  \/ /\ job \in Jobs(s)
     /\ last = job
     /\ \A c \in Jobs(s) : job <= c
  \/ /\ Jobs(s) = {}
     /\ job = 0
     /\ last \in Pending(s)
     /\ \A c \in Pending(s) : c <= last
  \/ /\ Pending(s) = {}
     /\ job = 0
     /\ last = 0

\* next_job, one read transaction.
NextJob(s) ==
  /\ stream[s].pc = "next"
  /\ \E job, last \in 0..MaxCounter :
       /\ NextJobResult(s, job, last)
       /\ stream' = [stream EXCEPT ![s] =
            IF last > stream[s].start
            THEN [@ EXCEPT !.pc = "delete", !.job = job, !.last = last]
            ELSE Scanned(s, job, last)]
  /\ UNCHANGED <<open, tables, watch, hook, running, wanted, now, restarts, history>>

\* Counters delete_range(beg, end) removes.
InclusiveRange(beg, end) == beg..end                             \* mutant
RangeToDelete(beg, end) == {c \in Counter : beg <= c /\ c < end}

\* delete_range(start_counter, last_counter), a write transaction of its own.
DeleteRange(s) ==
  /\ stream[s].pc = "delete"
  /\ ForgetAll(RangeToDelete(stream[s].start, stream[s].last))
  /\ stream' = [stream EXCEPT ![s] = Scanned(s, stream[s].job, stream[s].last)]
  /\ UNCHANGED <<open, watch, hook, running, wanted, now, restarts, history>>

\* is_failed: a failed job is skipped, its turn comes after its backoff.
CheckFailed(s) ==
  /\ stream[s].pc = "check"
  /\ stream' = [stream EXCEPT ![s].pc = IF IsFailed(stream[s].job) THEN "next" ELSE "send"]
  /\ UNCHANGED <<open, tables, watch, hook, running, wanted, now, restarts, history>>

\* Where build_jobs goes after it sent one of jobs_to_retry.
AfterRetry(rest) == IF rest = {} THEN "next" ELSE "retry"

\* tx.send on a channel of capacity 1; a closed channel ends the task.
SendJob(s) ==
  LET st == stream[s]
  IN /\ st.pc \in {"send", "resend"}
     /\ \/ /\ s \in open
           /\ st.chan = 0
           /\ stream' = [stream EXCEPT ![s] = [@ EXCEPT
                !.chan = st.job,
                !.pc = IF st.pc = "send" THEN "next" ELSE AfterRetry(st.retry)]]
           /\ handed' = [handed EXCEPT ![s] = @ \cup {st.job}]
        \/ /\ s \notin open
           /\ stream' = [stream EXCEPT ![s] = NoStream]
           /\ UNCHANGED handed
     /\ UNCHANGED <<open, tables, watch, hook, running, wanted, now, restarts, settled>>

\* wait_until_next_backoff reads the failed jobs whose backoff ends after
\* lower and keeps those whose backoff ends first.
EvaluateBackoff(s) ==
  LET later == {c \in Counter : IsFailed(c) /\ failedJob[c].until > stream[s].lower}
      first == {c \in later : \A d \in later : failedJob[c].until <= failedJob[d].until}
  IN /\ stream[s].pc = "evaluate"
     /\ stream' = [stream EXCEPT ![s] = [@ EXCEPT
          !.pc = "sleep",
          !.due = first,
          !.until = IF first = {} THEN 0
                    ELSE failedJob[CHOOSE c \in first : TRUE].until]]
     /\ UNCHANGED <<open, tables, watch, hook, running, wanted, now, restarts, history>>

\* The select! of build_jobs is over: its other branches are dropped.
WaitOver(s, pc) ==
  [stream[s] EXCEPT !.pc = pc, !.until = 0, !.due = {}]

\* The sleep of wait_until_next_backoff ends, be it at the same time as
\* failed_job_tx fires.
BackoffElapsed(s) ==
  /\ stream[s].pc \in Waiting
  /\ stream[s].due # {}
  /\ now >= stream[s].until
  /\ stream' = [stream EXCEPT ![s] = [WaitOver(s, "retry") EXCEPT
                                        !.retry = stream[s].due,
                                        !.lower = stream[s].until]]
  /\ UNCHANGED <<open, tables, watch, hook, running, wanted, now, restarts, history>>

\* build_job_with_counter for the next of jobs_to_retry.
BuildRetry(s) ==
  LET st == stream[s]
  IN /\ st.pc = "retry"
     /\ \E c \in st.retry :
          /\ \A d \in st.retry : c <= d
          /\ stream' = [stream EXCEPT ![s] = [@ EXCEPT
               !.retry = st.retry \ {c},
               !.job = c,
               !.pc = IF IsLogged(c) /\ dirtyLog[c] \in wanted
                      THEN "resend"
                      ELSE AfterRetry(st.retry \ {c})]]
     /\ UNCHANGED <<open, tables, watch, hook, running, wanted, now, restarts, history>>

\* The condition of watch.wait_for(|v| *v >= start_counter), which looks at
\* the current value only.
AnnouncedPast(s) == watch > stream[s].start                      \* mutant
Announced(s) == watch >= stream[s].start

\* watch.wait_for returns.
WakeUp(s) ==
  /\ stream[s].pc \in Waiting
  /\ Announced(s)
  /\ stream' = [stream EXCEPT ![s] = WaitOver(s, "next")]
  /\ UNCHANGED <<open, tables, watch, hook, running, wanted, now, restarts, history>>

\* tx.closed() while waiting.
NoticeClosed(s) ==
  /\ stream[s].pc \in Waiting
  /\ s \notin open
  /\ stream' = [stream EXCEPT ![s] = NoStream]
  /\ UNCHANGED <<open, tables, watch, hook, running, wanted, now, restarts, history>>

-----------------------------------------------------------------------------
(* The consumer of the streams, the process and the clock *)

\* Churten takes a job from the stream and runs it.
TakeJob(s) ==
  /\ stream[s].chan # 0
  /\ running' = running \cup {<<s, stream[s].chan>>}
  /\ stream' = [stream EXCEPT ![s].chan = 0]
  /\ UNCHANGED <<open, tables, watch, hook, wanted, now, restarts, history>>

\* Churten drops the stream and the jobs it was running.
CloseStream(s) ==
  /\ s \in open
  /\ restarts < MaxRestarts
  /\ open' = open \ {s}
  /\ stream' = [stream EXCEPT ![s].chan = 0]
  /\ running' = {r \in running : r[1] # s}
  /\ restarts' = restarts + 1
  /\ UNCHANGED <<tables, watch, hook, wanted, now, history>>

\* Engine::job_stream.
OpenStream(s) ==
  /\ stream[s].pc = "off"
  /\ stream' = [stream EXCEPT ![s] = NewStream]
  /\ open' = open \cup {s}
  /\ handed' = [handed EXCEPT ![s] = {}]
  /\ UNCHANGED <<tables, watch, hook, running, wanted, now, restarts, settled>>

\* The process dies and comes back: only the tables survive, and
\* DirtyPaths::new starts the watch channel at the last counter.
Restart ==
  /\ restarts < MaxRestarts
  /\ restarts' = restarts + 1
  /\ watch' = dirtyCounter
  /\ hook' = [w \in Writer |-> 0]
  /\ stream' = [s \in Stream |-> NewStream]
  /\ open' = Stream
  /\ running' = {}
  /\ handed' = [s \in Stream |-> {}]
  /\ UNCHANGED <<tables, wanted, now, settled>>

\* A unit of time is the shortest backoff (JOB_RETRY_TIME_BASE, a minute):
\* a task woken by failed_job_tx reads the table again well within it.
Tick ==
  /\ now < MaxTime
  /\ \A s \in Stream : stream[s].pc # "evaluate"
  /\ now' = now + 1
  /\ UNCHANGED <<open, tables, watch, hook, stream, running, wanted, restarts, history>>

\* The steps of the task of stream s.
BuildJobs(s) ==
  \/ NextJob(s)
  \/ DeleteRange(s)
  \/ CheckFailed(s)
  \/ SendJob(s)
  \/ EvaluateBackoff(s)
  \/ BackoffElapsed(s)
  \/ BuildRetry(s)
  \/ WakeUp(s)
  \/ NoticeClosed(s)

Next ==
  \/ \E w \in Writer, p \in Path : Change(w, p)
  \/ \E p \in Path : Satisfy(p)
  \/ \E w \in Writer : AfterCommit(w)
  \/ \E s \in Stream, c \in Counter : JobDone(s, c) \/ JobFailed(s, c)
  \/ \E s \in Stream : BuildJobs(s)
  \/ \E s \in Stream : TakeJob(s) \/ CloseStream(s) \/ OpenStream(s)
  \/ Restart
  \/ Tick

Spec == Init /\ [][Next]_vars

\* The runtime polls the tasks of the streams and runs the callbacks of
\* committed transactions, Churten keeps taking jobs and every job ends, a
\* closed stream is opened again (MaxRestarts times at most), time passes.
Fairness ==
  /\ \A w \in Writer : WF_vars(AfterCommit(w))
  /\ \A s \in Stream : /\ WF_vars(BuildJobs(s))
                       /\ WF_vars(TakeJob(s))
                       /\ WF_vars(OpenStream(s))
  /\ \A s \in Stream, c \in Counter : WF_vars(JobDone(s, c) \/ JobFailed(s, c))
  /\ WF_vars(Tick)

FairSpec == Spec /\ Fairness

-----------------------------------------------------------------------------
(* Properties *)

\* DIRTY_TABLE and DIRTY_LOG_TABLE stay inverse of each other and failure
\* entries belong to logged counters, although job_done, job_failed and
\* delete_range remove the mark of whatever path they find in the log.
TablesAgree ==
  /\ \A p \in Path : dirtyTable[p] # 0 => dirtyLog[dirtyTable[p]] = p
  /\ \A c \in Counter : IsLogged(c) => dirtyTable[dirtyLog[c]] = c
  /\ \A c \in Counter : IsFailed(c) => IsLogged(c)

\* "entries that correspond to jobs are left, so that if the process dies,
\* the jobs will be returned again" (Engine::job_stream): a path with a job
\* keeps its dirty mark until a job for it is reported, in spite of the
\* delete_range that runs after, and not inside, the read of next_job.
NoLostWork == \A p \in wanted : dirtyTable[p] = 0 => p \in settled

\* A stream skips no job: any job below its start counter was handed out,
\* waits for its backoff, or is about to be handed out.
NoSkippedJob ==
  \A s \in Stream, c \in Counter :
    ( /\ stream[s].pc # "off"
      /\ c < stream[s].start
      /\ IsLogged(c)
      /\ dirtyLog[c] \in wanted )
    => \/ c \in handed[s]
       \/ IsFailed(c)
       \/ stream[s].pc \in {"check", "send"} /\ stream[s].job = c

\* retry_lower_bound hides no failed job from its stream ("relying on newly
\* written backoffs always being in the future", Engine::build_jobs): a
\* failed job still waits for its backoff, or the stream has taken it up.
NoHiddenRetry ==
  \A s \in Stream, c \in Counter :
    ( /\ s \in open
      /\ IsFailed(c)
      /\ dirtyLog[c] \in wanted )
    => \/ failedJob[c].until > stream[s].lower
       \/ c \in stream[s].retry
       \/ stream[s].pc = "resend" /\ stream[s].job = c
       \/ stream[s].chan = c
       \/ <<s, c>> \in running

\* "The dirty mark is cleared unless the path has been modified after the
\* job was created" (Engine::job_done): the report of a job removes no dirty
\* mark but the one the job was created from.
ReportClearsOwnMark ==
  [][\A s \in Stream, c \in Counter :
       JobDone(s, c) \/ JobFailed(s, c)
         => \A p \in Path : dirtyTable'[p] = dirtyTable[p] \/ dirtyTable[p] = c]_vars

\* A dirty path with a job is eventually dealt with: its job is reported
\* done or given up, or the path changes again.
DirtyPathHandled ==
  \A p \in Path, c \in Counter :
    (p \in wanted /\ dirtyTable[p] = c) ~> (p \notin wanted \/ dirtyTable[p] # c)

-----------------------------------------------------------------------------
(* The inductive invariant behind TablesAgree, NoLostWork and              *)
(* ReportClearsOwnMark.                                                    *)

\* Counters in the log were given out by mark_dirty.
LogBelowCounter == \A c \in Counter : IsLogged(c) => c <= dirtyCounter

\* Between the read of next_job and delete_range: the range was given out
\* before the read, and none of its entries has become a job since, because
\* a path that becomes one leaves its old counter for a new one.
ScanStillValid ==
  \A s \in Stream : stream[s].pc = "delete" =>
    /\ stream[s].last <= dirtyCounter
    /\ \A c \in RangeToDelete(stream[s].start, stream[s].last) :
         IsLogged(c) => dirtyLog[c] \notin wanted

EngineInv ==
  /\ TypeOK
  /\ TablesAgree
  /\ LogBelowCounter
  /\ ScanStillValid
  /\ NoLostWork

-----------------------------------------------------------------------------
(* The inductive invariants behind NoSkippedJob and NoHiddenRetry.         *)

\* Between the read of next_job and delete_range: the last counter of the scan
\* is that of the job, if there is one, and otherwise makes none.
ScanEnds ==
  \A s \in Stream : stream[s].pc = "delete" =>
    \/ stream[s].job = stream[s].last
    \/ /\ stream[s].job = 0
       /\ stream[s].last \in Counter
       /\ IsLogged(stream[s].last) => dirtyLog[stream[s].last] \notin wanted

\* A stream does not go on after counters that are yet to be given out.
StartGiven == \A s \in Stream : stream[s].start <= dirtyCounter + 1

ScanInv == EngineInv /\ StartGiven /\ ScanEnds /\ NoSkippedJob

\* jobs_to_retry is empty but while it is gone through, and the jobs slept for
\* are forgotten when the wait is over.
RetryTidy ==
  \A s \in Stream :
    /\ stream[s].pc \notin {"retry", "resend"} => stream[s].retry = {}
    /\ stream[s].pc \notin Waiting => stream[s].due = {}

\* Backoffs end in the future when they are written, and retry_lower_bound is
\* in the past.
BackoffTimes ==
  /\ \A c \in Counter : IsFailed(c) => failedJob[c].until > 0
  /\ \A s \in Stream : stream[s].lower <= now

\* A task that sleeps for some failed jobs leaves out only those that end
\* later, and those that failed since, about which it has been told.
SleepCovers ==
  \A s \in Stream, c \in Counter :
    stream[s].due # {} /\ IsFailed(c) /\ failedJob[c].until > stream[s].lower
      => \/ c \in stream[s].due
         \/ failedJob[c].until > stream[s].until
         \/ stream[s].pc = "evaluate" /\ failedJob[c].until > now

RetryInv == EngineInv /\ RetryTidy /\ BackoffTimes /\ SleepCovers /\ NoHiddenRetry

=============================================================================
