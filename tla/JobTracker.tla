------------------------------ MODULE JobTracker ------------------------------
(***************************************************************************)
(* JobInfoTracker (realize-core/src/consensus/tracker.rs): what is known   *)
(* of recent jobs from the notifications of Churten.  It is kept by the    *)
(* daemon and by every client that follows it.                             *)
(***************************************************************************)
EXTENDS Naturals, Sequences, FiniteSets

CONSTANTS
  Job,       \* global job ids
  Limit,     \* JobInfoTracker.limit
  MaxIndex,  \* bound on notification indexes
  None       \* no entry

Finished == {"Done", "Abandoned", "Cancelled", "Failed"}
JobProgress == {"Pending", "Running"} \cup Finished

\* ChurtenNotification: what the job does and how far it is is left out,
\* UpdateAction and UpdateByteCount carry their index only.
Notification ==
  [type : {"New", "Start"}, job : Job]
    \cup [type : {"Finish"}, job : Job, progress : Finished]
    \cup [type : {"Update"}, job : Job, index : 2..MaxIndex]

JobInfo == [progress : JobProgress, index : 0..MaxIndex]

Tracker == [jobs : [Job -> JobInfo \cup {None}], finished : Seq(Job)]
EmptyTracker == [jobs |-> [j \in Job |-> None], finished |-> <<>>]

Known(t) == {j \in Job : t.jobs[j] # None}
Active(t) == {j \in Known(t) : t.jobs[j].progress \notin Finished}

\* The oldest finished jobs go as long as there are too many jobs.
NoTrim(t) == t    \* mutant
Trim(t) ==
  LET excess == Cardinality(Known(t)) - Limit
      n == IF Cardinality(Known(t)) <= Limit THEN 0
           ELSE IF excess < Len(t.finished) THEN excess ELSE Len(t.finished)
      gone == {t.finished[i] : i \in 1..n}
  IN [jobs |-> [j \in Job |-> IF j \in gone THEN None ELSE t.jobs[j]],
      finished |-> SubSeq(t.finished, n + 1, Len(t.finished))]

\* JobInfoTracker::init, from jobs none of which is finished.
InitFrom(jobs) == Trim([jobs |-> jobs, finished |-> <<>>])

\* Whether a notification is news: neither a duplicate nor out of sequence.
OlderUpdates(info, n) ==    \* mutant
  IF n.type = "Update" THEN info # None /\ info.progress = "Running" /\ info.index > n.index
  ELSE (n.type = "New") = (info = None)
IsNews(info, n) ==
  CASE n.type = "New" -> info = None
    [] n.type = "Start" -> info # None /\ info.progress = "Pending"
    [] n.type = "Finish" -> info # None /\ info.progress \notin Finished
    [] n.type = "Update" -> info # None /\ info.progress = "Running" /\ info.index < n.index

Updated(info, n) ==
  CASE n.type = "New" -> [progress |-> "Pending", index |-> 0]
    [] n.type = "Start" -> [info EXCEPT !.progress = "Running"]
    [] n.type = "Finish" -> [info EXCEPT !.progress = n.progress]
    [] n.type = "Update" -> [info EXCEPT !.index = n.index]

\* JobInfoTracker::update.
Update(t, n) ==
  IF ~IsNews(t.jobs[n.job], n) THEN t
  ELSE LET new == [t EXCEPT !.jobs[n.job] = Updated(@, n)]
       IN CASE n.type = "New" -> Trim(new)
            [] n.type = "Finish" -> Trim([new EXCEPT !.finished = Append(@, n.job)])
            [] OTHER -> new
=============================================================================
