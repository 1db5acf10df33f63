-------------------------------- MODULE Churten --------------------------------
(***************************************************************************)
(* Churten (realize-core/src/consensus/churten.rs) runs the jobs of the    *)
(* arenas and broadcasts what happens to them; a task of its own keeps the *)
(* list of recent jobs from that broadcast, and the control service        *)
(* (rpc/control/server.rs) forwards it to a client after a snapshot of the *)
(* active jobs.                                                            *)
(*                                                                         *)
(* Storage hands out a job until it is reported done or abandoned: once to *)
(* each job stream, and again after a failure, under the same id (Engine). *)
(***************************************************************************)
EXTENDS JobTracker

CONSTANTS
  Capacity,   \* BROADCAST_CHANNEL_CAPACITY
  Parallel,   \* PARALLEL_JOB_COUNT
  MaxTasks,   \* bound on background tasks started
  MaxRuns,    \* bound on runs of all jobs
  MaxClients  \* bound on subscriptions

ASSUME ChurtenBounds ==
  Capacity \in Nat \ {0} /\ Parallel \in Nat \ {0} /\ MaxTasks \in Nat /\ MaxRuns \in Nat
  /\ MaxClients \in Nat /\ Limit \in Nat /\ MaxIndex \in Nat \ {0, 1}

\* Job ids are numbers of 64 bits.
ASSUME JobAssumption == IsFiniteSet(Job) /\ None \notin JobInfo /\ None \notin JobProgress

Task == 1..MaxTasks

VARIABLES
  task,        \* Churten.task, 0 for None
  alive,       \* background tasks that have not ended
  cancelled,   \* tasks whose shutdown token is cancelled
  given,       \* jobs the stream of each task has handed out
  running,     \* jobs being run: pairs <<task, job>>
  pending,     \* jobs Storage has not been told are done
  last,        \* what really happened last to each job
  index,       \* index of the last update sent for each job
  tracker,     \* recent_jobs
  following,   \* whether the task that updates it is still there
  rx,          \* its receiver
  client,      \* the subscription of a client and its own tracker
  runs, clients,   \* for the bounds only
  reran,       \* jobs that were run again or cut short
  missed       \* jobs a client's snapshot was too early for

churten == <<task, alive, cancelled, given, running, pending, last, index>>
vars == <<churten, tracker, following, rx, client, runs, clients, reran, missed>>

\* A receiver of a tokio broadcast channel.
Receiver == [queue : Seq(Notification), lagged : BOOLEAN]
NoMessage == [queue |-> <<>>, lagged |-> FALSE]

TypeOK ==
  /\ task \in 0..MaxTasks /\ alive \subseteq Task /\ cancelled \subseteq Task
  /\ given \in [Task -> SUBSET Job]
  /\ running \subseteq alive \X Job
  /\ \A t \in Task : Cardinality({j \in Job : <<t, j>> \in running}) <= Parallel
  /\ pending \subseteq Job
  /\ last \in [Job -> {None, "Running"} \cup Finished]
  /\ index \in [Job -> 0..MaxIndex]
  /\ tracker \in Tracker
  /\ following \in BOOLEAN
  /\ rx \in Receiver /\ Len(rx.queue) <= Capacity
  /\ client \in [pc : {"off", "reset", "on"}, rx : Receiver, tracker : Tracker]
  /\ runs \in 0..MaxRuns /\ clients \in 0..MaxClients
  /\ reran \subseteq Job /\ missed \subseteq Job

NoClient == [pc |-> "off", rx |-> NoMessage, tracker |-> EmptyTracker]

Init ==
  /\ task = 0 /\ alive = {} /\ cancelled = {}
  /\ given = [t \in Task |-> {}] /\ running = {}
  /\ pending = Job /\ last = [j \in Job |-> None] /\ index = [j \in Job |-> 0]
  /\ tracker = EmptyTracker /\ following = TRUE /\ rx = NoMessage
  /\ client = NoClient
  /\ runs = 0 /\ clients = 0 /\ reran = {} /\ missed = {}
-----------------------------------------------------------------------------
(* The broadcast channel: a receiver that is too slow loses the oldest. *)

Received(r, notes) ==
  LET all == r.queue \o notes
  IN [queue |-> IF Len(all) <= Capacity THEN all
                ELSE SubSeq(all, Len(all) - Capacity + 1, Len(all)),
      lagged |-> r.lagged \/ Len(all) > Capacity]

Send(notes) ==
  /\ rx' = IF following THEN Received(rx, notes) ELSE rx
  /\ client' = IF client.pc = "off" THEN client ELSE [client EXCEPT !.rx = Received(@, notes)]

Sent == <<tracker, following, clients, missed>>
-----------------------------------------------------------------------------
(* The background task. *)

Start ==
  /\ task = 0 /\ Cardinality({t \in Task : given[t] # {}} \cup alive \cup cancelled) < MaxTasks
  /\ LET t == CHOOSE n \in Task : n \notin alive \cup cancelled
                                   /\ \A m \in Task : m \notin alive \cup cancelled => n <= m
     IN task' = t /\ alive' = alive \cup {t}
  /\ UNCHANGED <<cancelled, given, running, pending, last, index, rx, client, Sent, runs, reran>>

\* Does not wait for the jobs to end.
Shutdown ==
  /\ task # 0
  /\ cancelled' = cancelled \cup {task}
  /\ task' = 0
  /\ UNCHANGED <<alive, given, running, pending, last, index, rx, client, Sent, runs, reran>>

\* The stream yields a job and run_job starts.
Run(t, j) ==
  /\ t \in alive /\ j \in pending \ given[t]
  /\ Cardinality({k \in Job : <<t, k>> \in running}) < Parallel
  /\ runs < MaxRuns /\ runs' = runs + 1
  /\ given' = [given EXCEPT ![t] = @ \cup {j}]
  /\ running' = running \cup {<<t, j>>}
  /\ last' = [last EXCEPT ![j] = "Running"]
  /\ index' = [index EXCEPT ![j] = 0]
  /\ reran' = reran \cup {k \in {j} : last[j] # None}
  /\ Send(<<[type |-> "New", job |-> j], [type |-> "Start", job |-> j]>>)
  /\ UNCHANGED <<task, alive, cancelled, pending, Sent>>

\* TxByteCountProgress: what should_send lets through.
Progress(t, j) ==
  /\ <<t, j>> \in running /\ index[j] < MaxIndex
  /\ LET i == IF index[j] = 0 THEN 2 ELSE index[j] + 1
     IN /\ index' = [index EXCEPT ![j] = i]
        /\ Send(<<[type |-> "Update", job |-> j, index |-> i]>>)
  /\ UNCHANGED <<task, alive, cancelled, given, running, pending, last, Sent, runs, reran>>

\* A job ends: the result is broadcast and reported to Storage.  An error
\* counts as a cancellation once the task is being shut down.
Finish(t, j, result) ==
  LET progress == IF result = "Failed" /\ t \in cancelled THEN "Cancelled" ELSE result
      failed == result = "Failed"
  IN /\ <<t, j>> \in running
     /\ running' = running \ {<<t, j>>}
     /\ last' = [last EXCEPT ![j] = progress]
     /\ pending' = IF failed THEN pending ELSE pending \ {j}
     /\ given' = IF failed THEN [given EXCEPT ![t] = @ \ {j}] ELSE given
     /\ Send(<<[type |-> "Finish", job |-> j, progress |-> progress]>>)
     /\ UNCHANGED <<task, alive, cancelled, index, Sent, runs, reran>>

\* The shutdown token wins the select: the jobs are dropped without a word.
End(t) ==
  /\ t \in alive \cap cancelled
  /\ alive' = alive \ {t}
  /\ LET cut == {j \in Job : <<t, j>> \in running}
     IN /\ running' = {r \in running : r[1] # t}
        /\ reran' = reran \cup cut
  /\ UNCHANGED <<task, cancelled, given, pending, last, index, rx, client, Sent, runs>>
-----------------------------------------------------------------------------
(* The task of Churten::with_handler. *)

\* Any error of recv ends it, Lagged included.
Follow ==
  /\ following /\ ~rx.lagged /\ rx.queue # <<>>
  /\ tracker' = Update(tracker, Head(rx.queue))
  /\ rx' = [rx EXCEPT !.queue = Tail(@)]
  /\ UNCHANGED <<churten, following, client, runs, clients, reran, missed>>

StopFollowing ==
  /\ following /\ rx.lagged
  /\ following' = FALSE
  /\ rx' = NoMessage
  /\ UNCHANGED <<churten, tracker, client, runs, clients, reran, missed>>
-----------------------------------------------------------------------------
(* ChurtenServer::subscribe and the client. *)

Subscribe ==
  /\ client.pc = "off" /\ clients < MaxClients /\ clients' = clients + 1
  /\ client' = [NoClient EXCEPT !.pc = "reset"]
  /\ missed' = {}
  /\ UNCHANGED <<churten, tracker, following, rx, runs, reran>>

\* Jobs whose notifications neither the snapshot nor the receiver has.
TooEarly ==
  LET n == Len(rx.queue) - Len(client.rx.queue)
  IN {rx.queue[i].job : i \in 1..n}

ActiveJobs == [j \in Job |-> IF j \in Active(tracker) THEN tracker.jobs[j] ELSE None]

\* send_active_jobs, first and after a lag.  resubscribe() has no effect: the
\* notifications that are left are sent after the snapshot.
SendReset(r) ==
  client' = [pc |-> "on", rx |-> r, tracker |-> InitFrom(ActiveJobs)]
Snapshot ==
  /\ client.pc = "reset"
  /\ SendReset(client.rx)
  /\ missed' = IF client.rx.lagged THEN {} ELSE TooEarly
  /\ UNCHANGED <<churten, tracker, following, rx, runs, clients, reran>>

GoOn ==    \* mutant
  /\ client.pc = "on" /\ client.rx.lagged
  /\ client' = [client EXCEPT !.rx.lagged = FALSE]
  /\ UNCHANGED <<churten, tracker, following, rx, runs, clients, reran, missed>>
CatchUp ==
  /\ client.pc = "on" /\ client.rx.lagged
  /\ SendReset([client.rx EXCEPT !.lagged = FALSE])
  /\ missed' = {}
  /\ UNCHANGED <<churten, tracker, following, rx, runs, clients, reran>>

Forward ==
  /\ client.pc = "on" /\ ~client.rx.lagged /\ client.rx.queue # <<>>
  /\ client' = [client EXCEPT !.rx.queue = Tail(@),
                              !.tracker = Update(@, Head(client.rx.queue))]
  /\ UNCHANGED <<churten, tracker, following, rx, runs, clients, reran, missed>>

Unsubscribe ==
  /\ client.pc # "off"
  /\ client' = NoClient
  /\ UNCHANGED <<churten, tracker, following, rx, runs, clients, reran, missed>>
-----------------------------------------------------------------------------
Next ==
  \/ Start \/ Shutdown
  \/ \E t \in Task, j \in Job :
       \/ Run(t, j) \/ Progress(t, j)
       \/ \E result \in {"Done", "Abandoned", "Failed"} : Finish(t, j, result)
  \/ \E t \in Task : End(t)
  \/ Follow \/ StopFollowing
  \/ Subscribe \/ Snapshot \/ CatchUp \/ Forward \/ Unsubscribe

Spec == Init /\ [][Next]_vars
-----------------------------------------------------------------------------
\* The list of recent jobs stays within its limit except for active jobs, in
\* the daemon and in the client (JobInfoTracker::trim).
TrackersBounded ==
  /\ TypeOK
  /\ \A t \in {tracker, client.tracker} :
       Cardinality(Known(t)) <= Limit \/ Known(t) = Active(t)

\* Once its receiver is empty, the list of recent jobs shows what happened last
\* to every job it has not trimmed, as long as it never lagged and for jobs
\* that were neither run again nor cut short by a shutdown.
TrackerFollows ==
  following /\ rx = NoMessage =>
    \A j \in Job \ reran :
      LET info == tracker.jobs[j]
      IN IF info = None THEN last[j] \in {None} \cup Finished
         ELSE info.progress = last[j] /\ (last[j] = "Running" => info.index = index[j])

\* A client that has received everything agrees with the daemon about the
\* active jobs, whatever it lost by lagging and although the snapshots overlap
\* the notifications that follow them; only a job announced just before the
\* client subscribed can be missing.
ClientFollows ==
  following /\ rx = NoMessage /\ client.pc = "on" /\ client.rx = NoMessage =>
    \A j \in Job \ (reran \cup missed) :
      /\ j \in Active(client.tracker) <=> j \in Active(tracker)
      /\ j \in Active(tracker) => client.tracker.jobs[j] = tracker.jobs[j]
-----------------------------------------------------------------------------
(* The inductive invariants behind these. *)

\* A list has its finished jobs in the order they finished, each of them once.
FinishedListed(t) ==
  /\ \A i, k \in 1..Len(t.finished) : t.finished[i] = t.finished[k] => i = k
  /\ {t.finished[i] : i \in 1..Len(t.finished)} = Known(t) \ Active(t)

TrackerSound(t) ==
  /\ FinishedListed(t)
  /\ Cardinality(Known(t)) <= Limit \/ Known(t) = Active(t)

\* A job that was run once, and not cut short, has one run at most.
RunOnce ==
  \A r \in running :
    r[2] \notin reran => last[r[2]] = "Running" /\ \A s \in running : s[2] = r[2] => s = r

\* The notifications of a job the list has not received, which are in the order
\* they are sent in, and whether there is more to know of the job.
Unread(j) == {i \in 1..Len(rx.queue) : rx.queue[i].job = j}
UnreadOf(j, type) == {i \in Unread(j) : rx.queue[i].type = type}
Turn(n) ==
  CASE n.type = "New" -> 0
    [] n.type = "Start" -> 1
    [] n.type = "Update" -> n.index
    [] n.type = "Finish" -> MaxIndex + 1
Unsettled(j) == last[j] = "Running" \/ UnreadOf(j, "Finish") # {}

InOrder(j) ==
  /\ \A i, k \in Unread(j) : i < k => Turn(rx.queue[i]) < Turn(rx.queue[k])
  /\ \A i \in UnreadOf(j, "Update") : rx.queue[i].index <= index[j]
  /\ \A i \in UnreadOf(j, "Finish") : rx.queue[i].progress = last[j]

\* What the list says of a job and what it has not received make what happened.
InfoLeadsOn(j) ==
  LET info == tracker.jobs[j]
  IN /\ info = None <=> UnreadOf(j, "New") # {}
     /\ info = None \/ info.progress = "Pending" <=> UnreadOf(j, "Start") # {}
     /\ info # None => /\ info.progress \in {"Pending", "Running"} /\ info.index <= index[j]
                       /\ \A i \in UnreadOf(j, "Update") : info.index < rx.queue[i].index
     /\ \/ index[j] = 0
        \/ info # None /\ info.index = index[j]
        \/ \E i \in UnreadOf(j, "Update") : rx.queue[i].index = index[j]

InfoFinal(j) ==
  LET info == tracker.jobs[j]
  IN /\ Unread(j) = {}
     /\ last[j] = None => info = None
     /\ info # None => info.progress = last[j]

JobFollowed(j) == InOrder(j) /\ IF Unsettled(j) THEN InfoLeadsOn(j) ELSE InfoFinal(j)

FollowInv == following /\ ~rx.lagged => \A j \in Job \ reran : JobFollowed(j)

\* The notifications of a queue about a job.
About(q, j) == {i \in 1..Len(q) : q[i].job = j}
Of(q, j, type) == {i \in About(q, j) : q[i].type = type}

\* A queue ends with the last that was sent about a job; l is what happened last
\* to the job and x its index.
QueueSound(q, j, l, x) ==
  /\ \A i, k \in About(q, j) : i < k => Turn(q[i]) < Turn(q[k])
  /\ \A i \in Of(q, j, "Update") : q[i].index <= x
  /\ \A i \in Of(q, j, "Finish") : q[i].progress = l
  /\ About(q, j) # {} => l = "Running" \/ Of(q, j, "Finish") # {}
  /\ Of(q, j, "New") # {} => Of(q, j, "Start") # {}

\* Someone who thinks v of the job knows by the end of the queue whether it is
\* active, and how far it is.  The queue may repeat what led to v.
LeadsTo(q, j, v, l, x) ==
  /\ l = None => v = None
  /\ l # "Running" /\ Of(q, j, "Finish") = {} => v = None \/ v.progress \in Finished
  /\ l = "Running" =>
       /\ v = None => Of(q, j, "New") # {}
       /\ v # None => /\ v.progress \in {"Pending", "Running"} /\ v.index <= x
                      /\ v.progress = "Pending" => Of(q, j, "Start") # {}
       /\ \/ x = 0
          \/ v # None /\ v.index = x
          \/ \E i \in Of(q, j, "Update") : q[i].index = x

\* Two queues end alike.
Aligned(r, c) ==
  \A i \in 1..Len(r) : i + Len(c) - Len(r) \in 1..Len(c) => r[i] = c[i + Len(c) - Len(r)]

ClientInv ==
  client.pc # "off" =>
    /\ \A j \in Job \ reran : QueueSound(client.rx.queue, j, last[j], index[j])
    /\ client.rx.lagged => Len(client.rx.queue) = Capacity
    /\ following /\ ~rx.lagged =>
         /\ Aligned(rx.queue, client.rx.queue)
         /\ client.pc = "on" /\ ~client.rx.lagged =>
              \A j \in Job \ (reran \cup missed) :
                LeadsTo(client.rx.queue, j, client.tracker.jobs[j], last[j], index[j])

ChurtenInv ==
  /\ TypeOK /\ RunOnce /\ FollowInv /\ ClientInv
  /\ TrackerSound(tracker) /\ TrackerSound(client.tracker)
=============================================================================
