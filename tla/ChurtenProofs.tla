---------------------------- MODULE ChurtenProofs -----------------------------
(***************************************************************************)
(* Proofs about JobTracker and Churten, for any jobs and any bounds.       *)
(***************************************************************************)
EXTENDS Churten, FiniteSetTheorems, SequenceTheorems, WellFoundedInduction, TLAPS

USE ChurtenBounds, JobAssumption
-----------------------------------------------------------------------------
(* JobInfoTracker *)

\* Trimming keeps the list of finished jobs, takes only finished jobs and brings
\* the list within its limit, active jobs aside.
LEMMA TrimSound ==
  ASSUME NEW t \in Tracker, FinishedListed(t)
  PROVE  /\ Trim(t) \in Tracker /\ TrackerSound(Trim(t))
         /\ \A j \in Job : \/ Trim(t).jobs[j] = t.jobs[j]
                           \/ /\ Trim(t).jobs[j] = None /\ t.jobs[j] # None
                              /\ t.jobs[j].progress \in Finished
<1> DEFINE K == Known(t)
           F == t.finished
           c == Cardinality(K)
           n == IF c <= Limit THEN 0 ELSE IF c - Limit < Len(F) THEN c - Limit ELSE Len(F)
           gone == {F[i] : i \in 1..n}
           jobs == [j \in Job |-> IF j \in gone THEN None ELSE t.jobs[j]]
           G == SubSeq(F, n + 1, Len(F))
           u == Trim(t)
<1>1. t.jobs \in [Job -> JobInfo \cup {None}] /\ F \in Seq(Job) /\ Len(F) \in Nat
  BY DEF Tracker
<1>2. IsFiniteSet(K) /\ c \in Nat
  BY FS_Subset, FS_CardinalityType DEF Known
<1>3. n \in 0..Len(F) /\ n \in Nat
  BY <1>1, <1>2
<1>4. u = [jobs |-> jobs, finished |-> G]
  BY DEF Trim
<1>5. /\ \A i, k \in 1..Len(F) : F[i] = F[k] => i = k
      /\ {F[i] : i \in 1..Len(F)} = K \ Active(t)
  BY DEF FinishedListed
<1>6. \A i \in 1..Len(F) : F[i] \in Job
  BY <1>1, ElementOfSeq
<1>7. G \in Seq(Job) /\ Len(G) = Len(F) - n /\ \A i \in 1..Len(F) - n : G[i] = F[n + i]
  <2>1. \A i \in n + 1..Len(F) : F[i] \in Job
    BY <1>3, <1>6
  <2>2. n + 1 \in Int /\ Len(F) \in Int
    BY <1>1, <1>3
  <2>3. /\ G \in Seq(Job) /\ Len(G) = IF n + 1 <= Len(F) THEN Len(F) - (n + 1) + 1 ELSE 0
        /\ \A i \in 1..Len(F) - (n + 1) + 1 : G[i] = F[n + 1 + i - 1]
    <3> HIDE DEF n, F
    <3>1. QED
      BY <2>1, <2>2, SubSeqProperties
  <2>4. QED
    <3> HIDE DEF n, F, G
    <3>1. Len(G) = Len(F) - n
      <4>1. Len(G) = IF n + 1 <= Len(F) THEN Len(F) - (n + 1) + 1 ELSE 0
        BY <2>3
      <4>2. Len(F) \in Nat /\ n \in Nat /\ n <= Len(F)
        BY <1>1, <1>3
      <4>3. QED
        BY <4>1, <4>2
    <3>2. ASSUME NEW i \in 1..Len(F) - n PROVE G[i] = F[n + i]
      <4>1. i \in 1..Len(F) - (n + 1) + 1 /\ n + 1 + i - 1 = n + i
        BY <1>1, <1>3
      <4>2. QED
        BY <2>3, <4>1
    <3>3. QED
      BY <2>3, <3>1, <3>2
<1> HIDE DEF n, G, c
<1>8. \A i \in 1..n : i \in 1..Len(F)
  BY <1>1, <1>3
<1>9. gone \subseteq K \ Active(t)
  BY <1>5, <1>8
<1>10. jobs \in [Job -> JobInfo \cup {None}]
  BY <1>1
<1>11. u \in Tracker
  BY <1>4, <1>7, <1>10 DEF Tracker
<1>12. \A j \in Job : u.jobs[j] = IF j \in gone THEN None ELSE t.jobs[j]
  BY <1>4
<1> HIDE DEF gone, u, jobs
<1>13. Known(u) = K \ gone /\ Active(u) = Active(t)
  BY <1>9, <1>12 DEF Known, Active
<1>14. FinishedListed(u)
  <2>1. u.finished = G
    BY <1>4
  <2>2. \A i \in 1..Len(G) : n + i \in 1..Len(F) /\ G[i] = F[n + i]
    BY <1>1, <1>3, <1>7
  <2>3. \A i, k \in 1..Len(G) : G[i] = G[k] => i = k
    BY <1>3, <1>5, <1>7, <2>2
  <2>4. ASSUME NEW i \in 1..Len(G) PROVE G[i] \in Known(u) \ Active(u)
    <3>1. F[n + i] \notin gone
      <4>1. \A k \in 1..n : k # n + i
        BY <1>3, <1>7
      <4>2. QED
        BY <1>5, <1>8, <2>2, <4>1 DEF gone
    <3>2. QED
      BY <1>5, <1>13, <2>2, <3>1
  <2>5. ASSUME NEW j \in Known(u) \ Active(u) PROVE \E i \in 1..Len(G) : G[i] = j
    <3>1. PICK k \in 1..Len(F) : F[k] = j
      BY <1>5, <1>13
    <3>2. k \notin 1..n
      BY <1>13, <3>1 DEF gone
    <3>3. k - n \in 1..Len(G) /\ n + (k - n) = k
      BY <1>1, <1>3, <1>7, <3>2
    <3>4. QED
      BY <2>2, <3>1, <3>3
  <2>6. {G[i] : i \in 1..Len(G)} = Known(u) \ Active(u)
    BY <2>4, <2>5
  <2>7. QED
    BY <2>1, <2>3, <2>6 DEF FinishedListed
<1>15. Cardinality(Known(u)) <= Limit \/ Known(u) = Active(u)
  <2>1. CASE c <= Limit
    <3>1. n = 0
      BY <2>1 DEF n
    <3>2. gone = {}
      BY <3>1 DEF gone
    <3>3. QED
      BY <1>13, <2>1, <3>2 DEF c
  <2>2. CASE ~(c <= Limit) /\ c - Limit < Len(F)
    <3>1. n = c - Limit
      BY <2>2 DEF n
    <3>2. Cardinality(gone) = n
      <4> DEFINE f == [i \in 1..n |-> F[i]]
      <4>1. f \in [1..n -> gone] /\ \A i \in 1..n : f[i] = F[i]
        BY DEF gone
      <4> HIDE DEF f
      <4>2. \A i, k \in 1..n : f[i] = f[k] => i = k
        BY <1>5, <1>8, <4>1
      <4>3. \A g \in gone : \E i \in 1..n : f[i] = g
        BY <4>1 DEF gone
      <4>4. f \in Bijection(1..n, gone)
        BY <4>1, <4>2, <4>3 DEF Bijection, Injection, IsInjective, Surjection
      <4>5. ExistsBijection(1..n, gone)
        BY <4>4 DEF ExistsBijection
      <4>6. QED
        BY <1>3, <4>5, FS_CountingElements
    <3>3. K \cap gone = gone
      BY <1>9
    <3>4. Cardinality(K \ gone) = c - n
      BY <1>2, <3>2, <3>3, FS_Difference DEF c
    <3>5. QED
      BY <1>2, <1>13, <3>1, <3>4
  <2>3. CASE ~(c <= Limit) /\ ~(c - Limit < Len(F))
    <3>1. n = Len(F)
      BY <2>3 DEF n
    <3>2. gone = K \ Active(t)
      BY <1>5, <3>1 DEF gone
    <3>3. Active(t) \subseteq K
      BY DEF Active
    <3>4. QED
      BY <1>13, <3>2, <3>3
  <2>4. QED
    BY <2>1, <2>2, <2>3
<1>16. \A j \in Job : \/ u.jobs[j] = t.jobs[j]
                      \/ u.jobs[j] = None /\ t.jobs[j] # None /\ t.jobs[j].progress \in Finished
  BY <1>9, <1>12 DEF Known, Active
<1>17. QED
  BY <1>11, <1>14, <1>15, <1>16 DEF TrackerSound, u

\* What each notification carries.
LEMMA NoteFields ==
  ASSUME NEW n \in Notification
  PROVE  /\ n.job \in Job /\ n.type \in {"New", "Start", "Finish", "Update"}
         /\ n.type = "Finish" => n.progress \in Finished
         /\ n.type = "Update" => n.index \in 2..MaxIndex
  BY DEF Notification

\* What is known of a job after news of it.
LEMMA UpdatedInfo ==
  ASSUME NEW n \in Notification, NEW info \in JobInfo \cup {None}, IsNews(info, n)
  PROVE  LET v == Updated(info, n)
         IN /\ v \in JobInfo /\ v # None
            /\ n.type = "New" => info = None /\ v.progress = "Pending" /\ v.index = 0
            /\ n.type = "Start" =>
                 info \in JobInfo /\ info.progress = "Pending" /\ v.progress = "Running" /\ v.index = info.index
            /\ n.type = "Update" =>
                 /\ info \in JobInfo /\ info.progress = "Running" /\ info.index < n.index
                 /\ v.progress = "Running" /\ v.index = n.index
            /\ n.type = "Finish" =>
                 info \in JobInfo /\ info.progress \notin Finished /\ v.progress = n.progress
<1> DEFINE v == Updated(info, n)
<1>1. CASE n.type = "New"
  <2>1. info = None /\ v = [progress |-> "Pending", index |-> 0]
    BY <1>1 DEF IsNews, Updated
  <2>2. v \in JobInfo
    BY <2>1 DEF JobInfo, JobProgress
  <2>3. QED
    BY <1>1, <2>1, <2>2
<1>2. CASE n.type = "Start"
  <2>1. info \in JobInfo /\ info.progress = "Pending" /\ v = [info EXCEPT !.progress = "Running"]
    BY <1>2 DEF IsNews, Updated
  <2>2. v \in JobInfo /\ v.progress = "Running" /\ v.index = info.index
    BY <2>1 DEF JobInfo, JobProgress
  <2>3. QED
    BY <1>2, <2>1, <2>2
<1>3. CASE n.type = "Update"
  <2>1. info \in JobInfo /\ info.progress = "Running" /\ info.index < n.index
        /\ v = [info EXCEPT !.index = n.index]
    BY <1>3 DEF IsNews, Updated
  <2>2. n.index \in 0..MaxIndex
    BY <1>3, NoteFields
  <2>3. v \in JobInfo /\ v.progress = "Running" /\ v.index = n.index
    BY <2>1, <2>2 DEF JobInfo, JobProgress
  <2>4. QED
    BY <1>3, <2>1, <2>3
<1>4. CASE n.type = "Finish"
  <2>1. info \in JobInfo /\ info.progress \notin Finished /\ v = [info EXCEPT !.progress = n.progress]
    BY <1>4 DEF IsNews, Updated
  <2>2. n.progress \in Finished
    BY <1>4, NoteFields
  <2>3. v \in JobInfo /\ v.progress = n.progress
    BY <2>1, <2>2 DEF JobInfo, JobProgress
  <2>4. QED
    BY <1>4, <2>1, <2>3
<1>5. QED
  BY <1>1, <1>2, <1>3, <1>4, NoteFields

\* The list after a notification: news change one job, and what is trimmed was
\* finished.
LEMMA UpdateSound ==
  ASSUME NEW t \in Tracker, TrackerSound(t), NEW n \in Notification
  PROVE  LET u == Update(t, n)
             news == IsNews(t.jobs[n.job], n)
         IN /\ u \in Tracker /\ TrackerSound(u)
            /\ \A j \in Job \ {n.job} :
                 u.jobs[j] = t.jobs[j] \/ (u.jobs[j] = None /\ t.jobs[j] # None /\ t.jobs[j].progress \in Finished)
            /\ ~news => u = t
            /\ news /\ n.type # "Finish" => u.jobs[n.job] = Updated(t.jobs[n.job], n)
            /\ news /\ n.type = "Finish" => u.jobs[n.job] \in {None, Updated(t.jobs[n.job], n)}
<1> DEFINE k == n.job
           info == t.jobs[k]
           v == Updated(info, n)
           new == [t EXCEPT !.jobs[k] = v]
           u == Update(t, n)
<1>1. t.jobs \in [Job -> JobInfo \cup {None}] /\ t.finished \in Seq(Job) /\ k \in Job
      /\ info \in JobInfo \cup {None}
  BY NoteFields DEF Tracker
<1>2. CASE ~IsNews(info, n)
  BY <1>2 DEF Update
<1>3. CASE IsNews(info, n)
  <2>1. v \in JobInfo /\ v # None
    BY <1>1, <1>3, UpdatedInfo
  <2> HIDE DEF v
  <2>2. new \in Tracker /\ new.finished = t.finished /\ new.jobs[k] = v
        /\ \A j \in Job \ {k} : new.jobs[j] = t.jobs[j]
    BY <1>1, <2>1 DEF Tracker
  <2>3. u = CASE n.type = "New" -> Trim(new)
              [] n.type = "Finish" -> Trim([new EXCEPT !.finished = Append(@, k)])
              [] OTHER -> new
    BY <1>3, Zenon DEF Update, v
  <2> HIDE DEF new, u
  <2>4. CASE n.type = "New"
    <3>1. info = None /\ v.progress = "Pending"
      BY <1>1, <1>3, <2>4, UpdatedInfo DEF v
    <3>2. Known(new) \ Active(new) = Known(t) \ Active(t)
      BY <1>1, <2>1, <2>2, <3>1 DEF Known, Active, Finished
    <3>3. FinishedListed(new)
      BY <2>2, <3>2 DEF FinishedListed, TrackerSound
    <3>4. u = Trim(new)
      BY <2>3, <2>4
    <3>5. u.jobs[k] = v
      BY <1>1, <2>2, <3>1, <3>3, <3>4, TrimSound DEF Finished
    <3>6. QED
      BY <1>3, <2>2, <2>4, <3>3, <3>4, <3>5, TrimSound DEF u, v
  <2>5. CASE n.type \in {"Start", "Update"}
    <3>1. info \in JobInfo /\ info.progress \notin Finished /\ v.progress = "Running"
      BY <1>1, <1>3, <2>5, UpdatedInfo DEF v, Finished
    <3>2. Known(new) = Known(t) /\ Active(new) = Active(t)
      BY <1>1, <2>1, <2>2, <3>1 DEF Known, Active, Finished
    <3>3. TrackerSound(new)
      BY <2>2, <3>2 DEF FinishedListed, TrackerSound
    <3>4. u = new
      BY <2>3, <2>5
    <3>5. QED
      BY <1>3, <2>2, <2>5, <3>3, <3>4 DEF u, v
  <2>6. CASE n.type = "Finish"
    <3> DEFINE w == [new EXCEPT !.finished = Append(@, k)]
               F == t.finished
               G == Append(F, k)
    <3>1. info \in JobInfo /\ info.progress \notin Finished /\ v.progress \in Finished
      BY <1>1, <1>3, <2>6, UpdatedInfo, NoteFields DEF v
    <3>2. /\ G \in Seq(Job) /\ Len(G) = Len(F) + 1 /\ Len(F) \in Nat /\ G[Len(F) + 1] = k
          /\ \A i \in 1..Len(F) : G[i] = F[i]
      BY <1>1, AppendProperties
    <3>3. w \in Tracker /\ w.finished = G /\ w.jobs = new.jobs
      BY <2>2, <3>2 DEF Tracker
    <3> HIDE DEF w, G
    <3>4. Known(w) = Known(t) /\ Active(w) = Active(t) \ {k} /\ k \in Active(t)
      BY <1>1, <2>1, <2>2, <3>1, <3>3 DEF Known, Active
    <3>5. \A i \in 1..Len(F) : F[i] \in Known(t) \ Active(t)
      BY DEF TrackerSound, FinishedListed
    <3>6. ASSUME NEW a \in 1..Len(G), NEW b \in 1..Len(G), G[a] = G[b] PROVE a = b
      <4>1. \A i \in 1..Len(G) : i \in 1..Len(F) \/ i = Len(F) + 1
        BY <3>2
      <4>2. \A i \in 1..Len(F) : G[i] # k
        BY <3>2, <3>4, <3>5
      <4>3. \A i, j \in 1..Len(F) : F[i] = F[j] => i = j
        BY DEF TrackerSound, FinishedListed
      <4>4. QED
        BY <3>2, <3>6, <4>1, <4>2, <4>3
    <3>7. {G[i] : i \in 1..Len(G)} = Known(w) \ Active(w)
      <4>1. \A i \in 1..Len(G) : i \in 1..Len(F) \/ i = Len(F) + 1
        BY <3>2
      <4>2. \A i \in 1..Len(G) : G[i] \in Known(w) \ Active(w)
        BY <3>2, <3>4, <3>5, <4>1 DEF Active
      <4>3. ASSUME NEW j \in Known(w) \ Active(w) PROVE \E i \in 1..Len(G) : G[i] = j
        <5>1. CASE j = k
          BY <3>2, <5>1
        <5>2. CASE j # k
          <6>1. j \in Known(t) \ Active(t)
            BY <3>4, <5>2
          <6>2. PICK i \in 1..Len(F) : F[i] = j
            BY <6>1 DEF TrackerSound, FinishedListed
          <6>3. i \in 1..Len(G) /\ G[i] = j
            BY <3>2, <6>2
          <6>4. QED
            BY <6>3
        <5>3. QED
          BY <5>1, <5>2
      <4>4. QED
        BY <4>2, <4>3
    <3>8. FinishedListed(w)
      BY <3>3, <3>6, <3>7 DEF FinishedListed
    <3>9. u = Trim(w)
      BY <2>3, <2>6 DEF w
    <3>10. u.jobs[k] \in {None, v}
      BY <1>1, <2>2, <3>3, <3>8, <3>9, TrimSound
    <3>11. \A j \in Job \ {k} :
             u.jobs[j] = t.jobs[j] \/ (u.jobs[j] = None /\ t.jobs[j] # None /\ t.jobs[j].progress \in Finished)
      BY <2>2, <3>3, <3>8, <3>9, TrimSound
    <3>12. u \in Tracker /\ TrackerSound(u)
      BY <3>3, <3>8, <3>9, TrimSound
    <3>13. QED
      BY <1>3, <2>6, <3>10, <3>11, <3>12 DEF u, v
  <2>7. QED
    BY <2>4, <2>5, <2>6, NoteFields
<1>4. QED
  BY <1>2, <1>3

\* The list a snapshot starts from.
LEMMA InitSound ==
  ASSUME NEW jobs \in [Job -> JobInfo \cup {None}],
         \A j \in Job : jobs[j] # None => jobs[j].progress \notin Finished
  PROVE  InitFrom(jobs) \in Tracker /\ TrackerSound(InitFrom(jobs))
<1> DEFINE t == [jobs |-> jobs, finished |-> <<>>]
<1>1. t \in Tracker /\ t.jobs = jobs /\ t.finished = <<>>
  BY DEF Tracker
<1> HIDE DEF t
<1>2. Known(t) = Active(t)
  BY <1>1 DEF Known, Active
<1>3. FinishedListed(t)
  BY <1>1, <1>2 DEF FinishedListed
<1>4. QED
  BY <1>1, <1>3, TrimSound DEF InitFrom, t

LEMMA EmptySound == EmptyTracker \in Tracker /\ TrackerSound(EmptyTracker)
<1> DEFINE t == EmptyTracker
<1>1. t \in Tracker /\ t.finished = <<>> /\ \A j \in Job : t.jobs[j] = None
  BY DEF Tracker, EmptyTracker
<1> HIDE DEF t
<1>2. Known(t) = {} /\ Active(t) = {}
  BY <1>1 DEF Known, Active
<1>3. FinishedListed(t)
  BY <1>1, <1>2 DEF FinishedListed
<1>4. QED
  BY <1>1, <1>2, <1>3 DEF TrackerSound, t

-----------------------------------------------------------------------------
(* The broadcast channel *)

\* A receiver that has not lagged has everything that was sent.
LEMMA ReceivedAll ==
  ASSUME NEW r \in Receiver, NEW notes \in Seq(Notification)
  PROVE  /\ Received(r, notes) \in Receiver /\ Len(Received(r, notes).queue) <= Capacity
         /\ ~Received(r, notes).lagged => ~r.lagged /\ Received(r, notes).queue = r.queue \o notes
<1> DEFINE all == r.queue \o notes
           m == Len(all) - Capacity + 1
           cut == SubSeq(all, m, Len(all))
           q == IF Len(all) <= Capacity THEN all ELSE cut
           d == r.lagged \/ Len(all) > Capacity
<1>1. r.queue \in Seq(Notification) /\ r.lagged \in BOOLEAN
  BY DEF Receiver
<1>2. all \in Seq(Notification) /\ Len(all) \in Nat
  BY <1>1
<1> HIDE DEF all
<1>3. CASE Len(all) <= Capacity
  <2>1. Received(r, notes).queue = all /\ (Received(r, notes).lagged <=> r.lagged)
        /\ Received(r, notes) \in Receiver
    BY <1>1, <1>2, <1>3 DEF Received, Receiver, all
  <2>2. QED
    BY <1>3, <2>1 DEF all
<1>4. CASE ~(Len(all) <= Capacity)
  <2>1. \A i \in m..Len(all) : all[i] \in Notification
    BY <1>2, <1>4
  <2>2. cut \in Seq(Notification) /\ Len(cut) = Capacity
    <3>1. m \in Int /\ Len(all) \in Int /\ m <= Len(all) /\ Len(all) - m + 1 = Capacity
      BY <1>2, <1>4
    <3> HIDE DEF m
    <3>2. QED
      BY <2>1, <3>1, SubSeqProperties
  <2> HIDE DEF cut
  <2>3. Received(r, notes).queue = cut /\ Received(r, notes).lagged
        /\ Received(r, notes) \in [queue : {cut}, lagged : BOOLEAN]
    <3>1. Len(all) > Capacity
      BY <1>2, <1>4
    <3>2. QED
      BY <1>1, <1>4, <3>1 DEF Received, all, cut
  <2>4. QED
    BY <2>2, <2>3 DEF Receiver
<1>5. QED
  BY <1>3, <1>4

\* What a broadcast leaves: the trackers are not touched.
LEMMA SendTypes ==
  ASSUME TypeOK, NEW notes \in Seq(Notification), Send(notes)
  PROVE  /\ rx' \in Receiver /\ Len(rx'.queue) <= Capacity
         /\ client' \in [pc : {"off", "reset", "on"}, rx : Receiver, tracker : Tracker]
         /\ client'.tracker = client.tracker
         /\ following /\ ~rx'.lagged => ~rx.lagged /\ rx'.queue = rx.queue \o notes
<1>1. rx \in Receiver /\ Len(rx.queue) <= Capacity
      /\ client \in [pc : {"off", "reset", "on"}, rx : Receiver, tracker : Tracker]
  BY DEF TypeOK
<1>2. /\ rx' \in Receiver /\ Len(rx'.queue) <= Capacity
      /\ following /\ ~rx'.lagged => ~rx.lagged /\ rx'.queue = rx.queue \o notes
  BY <1>1, ReceivedAll DEF Send
<1>3. /\ client' \in [pc : {"off", "reset", "on"}, rx : Receiver, tracker : Tracker]
      /\ client'.tracker = client.tracker
  <2>1. client.rx \in Receiver
    BY <1>1
  <2>2. Received(client.rx, notes) \in Receiver
    BY <2>1, ReceivedAll
  <2>3. QED
    BY <1>1, <2>2 DEF Send
<1>4. QED
  BY <1>2, <1>3
-----------------------------------------------------------------------------
(* Types and lists *)

BoundInv == TypeOK /\ TrackerSound(tracker) /\ TrackerSound(client.tracker)

Runs(t) == {j \in Job : <<t, j>> \in running}

\* The jobs of a task, as some of them end and one starts.
LEMMA RunsBounded ==
  ASSUME TypeOK, NEW t \in Task
  PROVE  IsFiniteSet(Runs(t)) /\ Cardinality(Runs(t)) \in Nat /\ Cardinality(Runs(t)) <= Parallel
<1>1. Runs(t) \in SUBSET Job
  BY DEF Runs
<1>2. QED
  BY <1>1, FS_Subset, FS_CardinalityType DEF TypeOK, Runs

LEMMA RunsShrink ==
  ASSUME TypeOK, running' \subseteq running
  PROVE  \A t \in Task : Cardinality(Runs(t)') <= Parallel
<1> SUFFICES ASSUME NEW t \in Task PROVE Cardinality(Runs(t)') <= Parallel
  OBVIOUS
<1>1. Runs(t)' \subseteq Runs(t)
  BY DEF Runs
<1>2. IsFiniteSet(Runs(t)) /\ Cardinality(Runs(t)) \in Nat /\ Cardinality(Runs(t)) <= Parallel
  BY RunsBounded
<1>3. Cardinality(Runs(t)') <= Cardinality(Runs(t)) /\ IsFiniteSet(Runs(t)')
  BY <1>1, <1>2, FS_Subset
<1>4. Cardinality(Runs(t)') \in Nat
  BY <1>3, FS_CardinalityType
<1>5. QED
  BY <1>2, <1>3, <1>4

LEMMA RunsGrow ==
  ASSUME TypeOK, NEW t \in Task, NEW j \in Job, running' = running \cup {<<t, j>>},
         Cardinality(Runs(t)) < Parallel
  PROVE  \A s \in Task : Cardinality(Runs(s)') <= Parallel
<1> SUFFICES ASSUME NEW s \in Task PROVE Cardinality(Runs(s)') <= Parallel
  OBVIOUS
<1>1. CASE s = t
  <2>1. Runs(t)' = Runs(t) \cup {j}
    BY DEF Runs
  <2>2. IsFiniteSet(Runs(t)) /\ Cardinality(Runs(t)) \in Nat
    BY RunsBounded
  <2>3. Cardinality(Runs(t)') \in {Cardinality(Runs(t)), Cardinality(Runs(t)) + 1}
    BY <2>1, <2>2, FS_AddElement
  <2>4. QED
    BY <1>1, <2>2, <2>3
<1>2. CASE s # t
  <2>1. Runs(s)' = Runs(s)
    BY <1>2 DEF Runs
  <2>2. QED
    BY <2>1, RunsBounded
<1>3. QED
  BY <1>1, <1>2

\* A task is started under a number that was never used.
LEMMA FreshTask ==
  ASSUME TypeOK, Start
  PROVE  task' \in Task \ (alive \cup cancelled) /\ alive' = alive \cup {task'}
<1> DEFINE used == {t \in Task : given[t] # {}} \cup alive \cup cancelled
           T == Task \ (alive \cup cancelled)
           R == {ss \in Nat \X Nat : ss[1] < ss[2]}
<1>1. used \subseteq Task /\ Cardinality(used) < MaxTasks
  BY DEF TypeOK, Start
<1>2. IsFiniteSet(Task) /\ Cardinality(Task) = MaxTasks
  BY FS_Interval DEF Task
<1>3. T # {}
  <2>1. used # Task
    <3> HIDE DEF used
    <3>1. QED
      BY <1>1, <1>2
  <2>2. QED
    BY <1>1, <2>1
<1>4. IsWellFoundedOn(R, Nat)
  BY NatLessThanWellFounded DEF OpToRel
<1>5. T \subseteq Nat
  BY DEF Task
<1>6. PICK n \in T : \A m \in T : ~(<<m, n>> \in R)
  <2> HIDE DEF R, T
  <2>1. QED
    BY <1>3, <1>4, <1>5, WFMin
<1>7. \A m \in T : n <= m
  <2> SUFFICES ASSUME NEW m \in T PROVE n <= m
    OBVIOUS
  <2>1. m \in Nat /\ n \in Nat
    BY <1>5
  <2>2. m < n => <<m, n>> \in R
    BY <2>1
  <2>3. QED
    BY <1>6, <2>1, <2>2
<1>8. \E k \in Task : k \notin alive \cup cancelled
                      /\ \A m \in Task : m \notin alive \cup cancelled => k <= m
  BY <1>7
<1>9. QED
  BY <1>8 DEF Start

\* What a receiver has left after its first notification.
LEMMA TailTypes ==
  ASSUME NEW r \in Receiver, r.queue # <<>>
  PROVE  /\ Head(r.queue) \in Notification
         /\ [r EXCEPT !.queue = Tail(@)] \in Receiver
         /\ [r EXCEPT !.queue = Tail(@)].queue = Tail(r.queue)
         /\ ([r EXCEPT !.queue = Tail(@)].lagged <=> r.lagged)
         /\ Len(Tail(r.queue)) = Len(r.queue) - 1
<1>1. r.queue \in Seq(Notification)
  BY DEF Receiver
<1>2. Head(r.queue) \in Notification /\ Tail(r.queue) \in Seq(Notification)
      /\ Len(Tail(r.queue)) = Len(r.queue) - 1
  BY <1>1, HeadTailProperties
<1>3. QED
  BY <1>2 DEF Receiver

LEMMA StartBound == ASSUME BoundInv, Start PROVE BoundInv'
<1>1. task' \in Task /\ alive' = alive \cup {task'}
  BY FreshTask DEF BoundInv
<1>2. task' \in 0..MaxTasks /\ alive' \subseteq Task
  BY <1>1 DEF BoundInv, TypeOK, Task
<1>3. UNCHANGED <<cancelled, given, running, pending, last, index, rx, client, Sent, runs, reran>>
  BY DEF Start
<1>4. running' \subseteq alive' \X Job
  BY <1>1, <1>3 DEF BoundInv, TypeOK
<1>5. QED
  BY <1>2, <1>3, <1>4 DEF BoundInv, TypeOK, Sent, TrackerSound, FinishedListed, Known, Active

LEMMA ShutdownBound == ASSUME BoundInv, Shutdown PROVE BoundInv'
<1>1. task \in Task /\ 0 \in 0..MaxTasks
  BY DEF BoundInv, TypeOK, Shutdown, Task
<1>2. task' = 0 /\ cancelled' = cancelled \cup {task}
      /\ UNCHANGED <<alive, given, running, pending, last, index, rx, client, Sent, runs, reran>>
  BY DEF Shutdown
<1>3. task' \in 0..MaxTasks /\ cancelled' \subseteq Task
  BY <1>1, <1>2 DEF BoundInv, TypeOK
<1>4. QED
  BY <1>2, <1>3, Zenon DEF BoundInv, TypeOK, Sent

LEMMA RunBound ==
  ASSUME BoundInv, NEW t \in Task, NEW j \in Job, Run(t, j) PROVE BoundInv'
<1> DEFINE new == [type |-> "New", job |-> j]
           start == [type |-> "Start", job |-> j]
<1>1. <<new, start>> \in Seq(Notification)
  BY DEF Notification
<1>2. Send(<<new, start>>)
  BY DEF Run
<1>3. /\ rx' \in Receiver /\ Len(rx'.queue) <= Capacity
      /\ client' \in [pc : {"off", "reset", "on"}, rx : Receiver, tracker : Tracker]
      /\ client'.tracker = client.tracker
  BY <1>1, <1>2, SendTypes DEF BoundInv
<1>4. \A s \in Task : Cardinality(Runs(s)') <= Parallel
  BY RunsGrow DEF BoundInv, Run, Runs
<1>5. UNCHANGED <<task, alive, cancelled, pending, Sent>> /\ t \in alive
  BY DEF Run
<1>6. given' \in [Task -> SUBSET Job] /\ running' \subseteq alive' \X Job
  BY <1>5 DEF Run, BoundInv, TypeOK
<1>7. last' \in [Job -> {None, "Running"} \cup Finished]
  BY DEF Run, BoundInv, TypeOK
<1>8. index' \in [Job -> 0..MaxIndex]
  BY DEF Run, BoundInv, TypeOK
<1>9. runs' \in 0..MaxRuns /\ reran' \subseteq Job
  BY DEF Run, BoundInv, TypeOK
<1>10. TypeOK'
  BY <1>3, <1>4, <1>5, <1>6, <1>7, <1>8, <1>9, Zenon DEF BoundInv, TypeOK, Sent, Runs
<1>11. QED
  BY <1>3, <1>5, <1>10, Zenon DEF BoundInv, Sent

LEMMA ProgressBound ==
  ASSUME BoundInv, NEW t \in Task, NEW j \in Job, Progress(t, j) PROVE BoundInv'
<1> DEFINE i == IF index[j] = 0 THEN 2 ELSE index[j] + 1
           n == [type |-> "Update", job |-> j, index |-> i]
<1>1. i \in 2..MaxIndex /\ index' = [index EXCEPT ![j] = i] /\ Send(<<n>>)
  BY DEF Progress, BoundInv, TypeOK
<1> HIDE DEF i
<1>2. <<n>> \in Seq(Notification)
  BY <1>1 DEF Notification
<1>3. /\ rx' \in Receiver /\ Len(rx'.queue) <= Capacity
      /\ client' \in [pc : {"off", "reset", "on"}, rx : Receiver, tracker : Tracker]
      /\ client'.tracker = client.tracker
  BY <1>1, <1>2, SendTypes DEF BoundInv
<1>4. index' \in [Job -> 0..MaxIndex]
  BY <1>1 DEF BoundInv, TypeOK
<1>5. UNCHANGED <<task, alive, cancelled, given, running, pending, last, Sent, runs, reran>>
  BY DEF Progress
<1>6. TypeOK'
  BY <1>3, <1>4, <1>5, Zenon DEF BoundInv, TypeOK, Sent
<1>7. QED
  BY <1>3, <1>5, <1>6, Zenon DEF BoundInv, Sent

LEMMA FinishBound ==
  ASSUME BoundInv, NEW t \in Task, NEW j \in Job, NEW result \in {"Done", "Abandoned", "Failed"},
         Finish(t, j, result)
  PROVE  BoundInv'
<1> DEFINE progress == IF result = "Failed" /\ t \in cancelled THEN "Cancelled" ELSE result
           n == [type |-> "Finish", job |-> j, progress |-> progress]
<1>1. progress \in Finished /\ last' = [last EXCEPT ![j] = progress] /\ Send(<<n>>)
  BY DEF Finish, Finished
<1> HIDE DEF progress
<1>2. <<n>> \in Seq(Notification)
  BY <1>1 DEF Notification
<1>3. /\ rx' \in Receiver /\ Len(rx'.queue) <= Capacity
      /\ client' \in [pc : {"off", "reset", "on"}, rx : Receiver, tracker : Tracker]
      /\ client'.tracker = client.tracker
  BY <1>1, <1>2, SendTypes DEF BoundInv
<1>4. last' \in [Job -> {None, "Running"} \cup Finished]
  BY <1>1 DEF BoundInv, TypeOK
<1>5. UNCHANGED <<task, alive, cancelled, index, Sent, runs, reran>>
  BY DEF Finish
<1>6. given' \in [Task -> SUBSET Job] /\ pending' \subseteq Job
  BY DEF Finish, BoundInv, TypeOK
<1>7. running' \subseteq running
  BY DEF Finish
<1>8. running' \subseteq alive' \X Job /\ \A s \in Task : Cardinality(Runs(s)') <= Parallel
  BY <1>5, <1>7, RunsShrink DEF BoundInv, TypeOK
<1>9. TypeOK'
  BY <1>3, <1>4, <1>5, <1>6, <1>8, Zenon DEF BoundInv, TypeOK, Sent, Runs
<1>10. QED
  BY <1>3, <1>5, <1>9, Zenon DEF BoundInv, Sent

LEMMA EndBound == ASSUME BoundInv, NEW t \in Task, End(t) PROVE BoundInv'
<1>1. UNCHANGED <<task, cancelled, given, pending, last, index, rx, client, Sent, runs>>
      /\ alive' \subseteq alive /\ running' \subseteq running /\ reran' \subseteq Job
  BY DEF End, BoundInv, TypeOK
<1>2. \A s \in Task : Cardinality(Runs(s)') <= Parallel
  BY <1>1, RunsShrink DEF BoundInv
<1>3. running' \subseteq alive' \X Job
  BY DEF End, BoundInv, TypeOK
<1>4. TypeOK'
  BY <1>1, <1>2, <1>3, Zenon DEF BoundInv, TypeOK, Sent, Runs
<1>5. QED
  BY <1>1, <1>4, Zenon DEF BoundInv, Sent

LEMMA FollowBound == ASSUME BoundInv, Follow PROVE BoundInv'
<1>1. rx \in Receiver /\ rx.queue # <<>> /\ Len(rx.queue) <= Capacity /\ Len(rx.queue) \in Nat
  BY DEF BoundInv, TypeOK, Follow, Receiver
<1>2. Head(rx.queue) \in Notification /\ rx' \in Receiver /\ Len(rx'.queue) = Len(rx.queue) - 1
  BY <1>1, TailTypes DEF Follow
<1>3. Len(rx'.queue) <= Capacity
  BY <1>1, <1>2
<1>4. tracker' \in Tracker /\ TrackerSound(tracker')
  BY <1>2, UpdateSound DEF BoundInv, TypeOK, Follow
<1>5. UNCHANGED <<churten, following, client, runs, clients, reran, missed>>
  BY DEF Follow
<1>6. QED
  BY <1>2, <1>3, <1>4, <1>5, Zenon DEF BoundInv, TypeOK, churten

LEMMA NoMessageType == NoMessage \in Receiver /\ Len(NoMessage.queue) = 0
  BY DEF NoMessage, Receiver

LEMMA StopFollowingBound == ASSUME BoundInv, StopFollowing PROVE BoundInv'
<1>1. rx' \in Receiver /\ Len(rx'.queue) <= Capacity /\ following' = FALSE
  BY NoMessageType DEF StopFollowing
<1>2. UNCHANGED <<churten, tracker, client, runs, clients, reran, missed>>
  BY DEF StopFollowing
<1>3. QED
  BY <1>1, <1>2, Zenon DEF BoundInv, TypeOK, churten

\* The client's part: its actions change nothing else that has a type.
LEMMA ClientBound ==
  ASSUME BoundInv, client' \in [pc : {"off", "reset", "on"}, rx : Receiver, tracker : Tracker],
         TrackerSound(client'.tracker), clients' \in 0..MaxClients, missed' \subseteq Job,
         UNCHANGED <<churten, tracker, following, rx, runs, reran>>
  PROVE  BoundInv'
  BY Zenon DEF BoundInv, TypeOK, churten

LEMMA NoClientType ==
  /\ NoClient \in [pc : {"off", "reset", "on"}, rx : Receiver, tracker : Tracker]
  /\ [NoClient EXCEPT !.pc = "reset"] \in [pc : {"off", "reset", "on"}, rx : Receiver, tracker : Tracker]
  /\ NoClient.tracker = EmptyTracker /\ [NoClient EXCEPT !.pc = "reset"].tracker = EmptyTracker
  BY NoMessageType, EmptySound DEF NoClient

LEMMA SubscribeBound == ASSUME BoundInv, Subscribe PROVE BoundInv'
<1>1. client' \in [pc : {"off", "reset", "on"}, rx : Receiver, tracker : Tracker]
      /\ client'.tracker = EmptyTracker
  BY NoClientType DEF Subscribe
<1>2. clients' \in 0..MaxClients /\ missed' \subseteq Job
  BY DEF Subscribe, BoundInv, TypeOK
<1>3. UNCHANGED <<churten, tracker, following, rx, runs, reran>>
  BY DEF Subscribe
<1>4. QED
  BY <1>1, <1>2, <1>3, EmptySound, ClientBound

LEMMA UnsubscribeBound == ASSUME BoundInv, Unsubscribe PROVE BoundInv'
<1>1. client' \in [pc : {"off", "reset", "on"}, rx : Receiver, tracker : Tracker]
      /\ client'.tracker = EmptyTracker
  BY NoClientType DEF Unsubscribe
<1>2. clients' \in 0..MaxClients /\ missed' \subseteq Job
  BY DEF Unsubscribe, BoundInv, TypeOK
<1>3. UNCHANGED <<churten, tracker, following, rx, runs, reran>>
  BY DEF Unsubscribe
<1>4. QED
  BY <1>1, <1>2, <1>3, EmptySound, ClientBound

\* A snapshot of the active jobs is a list of its own.
LEMMA ResetTypes ==
  ASSUME BoundInv, NEW r \in Receiver, SendReset(r)
  PROVE  /\ client' \in [pc : {"off", "reset", "on"}, rx : Receiver, tracker : Tracker]
         /\ TrackerSound(client'.tracker)
<1>1. tracker.jobs \in [Job -> JobInfo \cup {None}]
  BY DEF BoundInv, TypeOK, Tracker
<1>2. ActiveJobs \in [Job -> JobInfo \cup {None}]
  BY <1>1 DEF ActiveJobs
<1>3. \A j \in Job : ActiveJobs[j] # None => ActiveJobs[j].progress \notin Finished
  BY <1>1 DEF ActiveJobs, Active
<1>4. InitFrom(ActiveJobs) \in Tracker /\ TrackerSound(InitFrom(ActiveJobs))
  BY <1>2, <1>3, InitSound
<1>5. QED
  BY <1>4 DEF SendReset

LEMMA TooEarlyType == ASSUME TypeOK PROVE TooEarly \subseteq Job
<1> DEFINE n == Len(rx.queue) - Len(client.rx.queue)
<1>1. rx.queue \in Seq(Notification) /\ client.rx.queue \in Seq(Notification)
  BY DEF TypeOK, Receiver
<1>2. n <= Len(rx.queue) /\ n \in Int
  <2>1. Len(rx.queue) \in Nat /\ Len(client.rx.queue) \in Nat
    BY <1>1, LenProperties
  <2>2. \A a, b \in Nat : a - b <= a /\ a - b \in Int
    OBVIOUS
  <2>3. QED
    BY <2>1, <2>2
<1> HIDE DEF n
<1>3. \A i \in 1..n : rx.queue[i] \in Notification
  BY <1>1, <1>2
<1>4. \A i \in 1..n : rx.queue[i].job \in Job
  BY <1>3, NoteFields
<1>5. QED
  BY <1>4 DEF TooEarly, n

LEMMA SnapshotBound == ASSUME BoundInv, Snapshot PROVE BoundInv'
<1>1. client.rx \in Receiver /\ SendReset(client.rx)
  BY DEF BoundInv, TypeOK, Snapshot
<1>2. missed' \subseteq Job
  BY TooEarlyType DEF Snapshot, BoundInv
<1>3. UNCHANGED <<churten, tracker, following, rx, runs, reran>> /\ clients' \in 0..MaxClients
  BY DEF Snapshot, BoundInv, TypeOK
<1>4. QED
  BY <1>1, <1>2, <1>3, ResetTypes, ClientBound

LEMMA CatchUpBound == ASSUME BoundInv, CatchUp PROVE BoundInv'
<1> DEFINE r == [client.rx EXCEPT !.lagged = FALSE]
<1>1. r \in Receiver /\ SendReset(r)
  BY DEF BoundInv, TypeOK, CatchUp, Receiver
<1> HIDE DEF r
<1>2. UNCHANGED <<churten, tracker, following, rx, runs, reran>> /\ clients' \in 0..MaxClients
      /\ missed' \subseteq Job
  BY DEF CatchUp, BoundInv, TypeOK
<1>3. QED
  BY <1>1, <1>2, ResetTypes, ClientBound

LEMMA ForwardBound == ASSUME BoundInv, Forward PROVE BoundInv'
<1> DEFINE h == Head(client.rx.queue)
           u == Update(client.tracker, h)
<1>1. client \in [pc : {"off", "reset", "on"}, rx : Receiver, tracker : Tracker]
      /\ client.rx.queue # <<>>
  BY DEF BoundInv, TypeOK, Forward
<1>2. client.rx \in Receiver /\ client.tracker \in Tracker
  BY <1>1
<1>3. h \in Notification /\ [client.rx EXCEPT !.queue = Tail(@)] \in Receiver
  BY <1>1, <1>2, TailTypes
<1>4. u \in Tracker /\ TrackerSound(u)
  BY <1>2, <1>3, UpdateSound DEF BoundInv
<1>5. client' = [client EXCEPT !.rx.queue = Tail(@), !.tracker = u]
  BY DEF Forward
<1> HIDE DEF u
<1>6. client' \in [pc : {"off", "reset", "on"}, rx : Receiver, tracker : Tracker]
      /\ client'.tracker = u
  BY <1>1, <1>3, <1>4, <1>5
<1>7. UNCHANGED <<churten, tracker, following, rx, runs, reran>> /\ clients' \in 0..MaxClients
      /\ missed' \subseteq Job
  BY DEF Forward, BoundInv, TypeOK
<1>8. QED
  BY <1>4, <1>6, <1>7, ClientBound

LEMMA BoundStep == ASSUME BoundInv, [Next]_vars PROVE BoundInv'
<1>1. CASE UNCHANGED vars
  BY <1>1, Zenon DEF BoundInv, TypeOK, vars, churten
<1>2. ASSUME NEW t \in Task, NEW j \in Job,
             Run(t, j) \/ Progress(t, j)
               \/ \E result \in {"Done", "Abandoned", "Failed"} : Finish(t, j, result)
      PROVE  BoundInv'
  BY <1>2, RunBound, ProgressBound, FinishBound
<1>3. QED
  BY <1>1, <1>2, StartBound, ShutdownBound, EndBound, FollowBound, StopFollowingBound,
     SubscribeBound, SnapshotBound, CatchUpBound, ForwardBound, UnsubscribeBound DEF Next

LEMMA BoundInit == Init => BoundInv
<1> SUFFICES ASSUME Init PROVE BoundInv
  OBVIOUS
<1>1. \A t \in Task : Cardinality(Runs(t)) <= Parallel
  <2> SUFFICES ASSUME NEW t \in Task PROVE Cardinality(Runs(t)) <= Parallel
    OBVIOUS
  <2>1. Runs(t) = {}
    BY DEF Init, Runs
  <2>2. Cardinality({}) = 0
    BY FS_EmptySet
  <2>3. QED
    BY <2>1, <2>2
<1>2. client.tracker = EmptyTracker /\ tracker = EmptyTracker
      /\ client \in [pc : {"off", "reset", "on"}, rx : Receiver, tracker : Tracker]
  BY NoClientType DEF Init
<1>3. rx \in Receiver /\ Len(rx.queue) <= Capacity
  BY NoMessageType DEF Init
<1>4. task \in 0..MaxTasks /\ runs \in 0..MaxRuns /\ clients \in 0..MaxClients
      /\ index \in [Job -> 0..MaxIndex]
  BY DEF Init
<1>5. last \in [Job -> {None, "Running"} \cup Finished] /\ given \in [Task -> SUBSET Job]
  BY DEF Init
<1>6. alive \subseteq Task /\ cancelled \subseteq Task /\ running \subseteq alive \X Job
      /\ pending \subseteq Job /\ reran \subseteq Job /\ missed \subseteq Job /\ following \in BOOLEAN
  BY DEF Init
<1>7. QED
  BY <1>1, <1>2, <1>3, <1>4, <1>5, <1>6, EmptySound, Zenon DEF BoundInv, TypeOK, Runs

\* The list of recent jobs stays within its limit except for active jobs, in
\* the daemon and in every client, whatever they lose by lagging.
THEOREM TrackersBoundedCorrect == Spec => []TrackersBounded
<1>1. BoundInv => TrackersBounded
  BY DEF BoundInv, TrackersBounded, TrackerSound
<1>2. QED
  BY <1>1, BoundInit, BoundStep, PTL DEF Spec

-----------------------------------------------------------------------------
(* Runs *)

LEMMA NoneApart == None # "Running" /\ None \notin Finished /\ "Running" \notin Finished
  BY DEF JobProgress, Finished

LEMMA RunOnceInit == Init => RunOnce
  BY DEF Init, RunOnce

LEMMA RunOnceStep == ASSUME TypeOK, RunOnce, [Next]_vars PROVE RunOnce'
<1>1. ASSUME running' \subseteq running, reran \subseteq reran', last' = last PROVE RunOnce'
  BY <1>1, Zenon DEF RunOnce
<1>2. ASSUME NEW t \in Task, NEW j \in Job, Run(t, j) PROVE RunOnce'
  <2>1. /\ running' = running \cup {<<t, j>>} /\ last' = [last EXCEPT ![j] = "Running"]
        /\ reran' = reran \cup {k \in {j} : last[j] # None}
    BY <1>2 DEF Run
  <2>2. \A r \in running : r[2] = j => j \in reran'
    BY <2>1, NoneApart DEF RunOnce, TypeOK
  <2>3. last \in [Job -> {None, "Running"} \cup Finished] /\ \A r \in running : r[2] \in Job
    BY DEF TypeOK
  <2>4. SUFFICES ASSUME NEW r \in running', r[2] \notin reran'
                 PROVE  last'[r[2]] = "Running" /\ \A s \in running' : s[2] = r[2] => s = r
    BY DEF RunOnce
  <2>5. CASE r = <<t, j>>
    BY <2>1, <2>2, <2>3, <2>4, <2>5
  <2>6. CASE r # <<t, j>>
    <3>1. r \in running /\ r[2] # j /\ r[2] \notin reran
      BY <2>1, <2>2, <2>4, <2>6
    <3>2. QED
      BY <2>1, <2>3, <3>1 DEF RunOnce
  <2>7. QED
    BY <2>5, <2>6
<1>3. ASSUME NEW t \in Task, NEW j \in Job, NEW result \in {"Done", "Abandoned", "Failed"},
             Finish(t, j, result)
      PROVE RunOnce'
  <2>1. PICK progress \in Finished : last' = [last EXCEPT ![j] = progress]
    BY <1>3 DEF Finish, Finished
  <2>2. running' = running \ {<<t, j>>} /\ reran' = reran /\ <<t, j>> \in running
    BY <1>3 DEF Finish
  <2>3. SUFFICES ASSUME NEW r \in running', r[2] \notin reran'
                 PROVE  last'[r[2]] = "Running" /\ \A s \in running' : s[2] = r[2] => s = r
    BY DEF RunOnce
  <2>4. r[2] # j
    <3>1. SUFFICES ASSUME r[2] = j PROVE FALSE
      OBVIOUS
    <3>2. <<t, j>>[2] = r[2] /\ r \in running /\ r # <<t, j>>
      BY <2>2, <3>1
    <3>3. QED
      BY <2>2, <2>3, <3>2 DEF RunOnce
  <2>5. last'[r[2]] = last[r[2]] /\ r \in running /\ running' \subseteq running
    BY <2>1, <2>2, <2>4 DEF TypeOK
  <2>6. QED
    BY <2>2, <2>3, <2>5 DEF RunOnce
<1>4. ASSUME Start \/ Shutdown \/ (\E t \in Task : End(t)) \/ (\E t \in Task, j \in Job : Progress(t, j))
      PROVE running' \subseteq running /\ reran \subseteq reran' /\ last' = last
  BY <1>4 DEF Start, Shutdown, End, Progress
<1>5. ASSUME Follow \/ StopFollowing \/ Subscribe \/ Snapshot \/ CatchUp \/ Forward \/ Unsubscribe
               \/ UNCHANGED vars
      PROVE running' \subseteq running /\ reran \subseteq reran' /\ last' = last
  BY <1>5 DEF Follow, StopFollowing, Subscribe, Snapshot, CatchUp, Forward, Unsubscribe, vars, churten
<1>6. QED
  BY <1>1, <1>2, <1>3, <1>4, <1>5 DEF Next
-----------------------------------------------------------------------------
(* The list of recent jobs follows the jobs *)

LEMMA TurnOf ==
  ASSUME NEW n \in Notification
  PROVE  /\ Turn(n) \in 0..(MaxIndex + 1)
         /\ n.type = "New" <=> Turn(n) = 0
         /\ n.type = "Start" <=> Turn(n) = 1
         /\ n.type = "Finish" <=> Turn(n) = MaxIndex + 1
         /\ n.type = "Update" => Turn(n) = n.index /\ n.index \in 2..MaxIndex
<1>1. CASE n.type = "New"
  BY <1>1 DEF Turn
<1>2. CASE n.type = "Start"
  BY <1>2 DEF Turn
<1>3. CASE n.type = "Finish"
  BY <1>3 DEF Turn
<1>4. CASE n.type = "Update"
  BY <1>4, NoteFields DEF Turn
<1>5. QED
  BY <1>1, <1>2, <1>3, <1>4, NoteFields

LEMMA QueueNotes ==
  ASSUME TypeOK
  PROVE  /\ rx.queue \in Seq(Notification) /\ Len(rx.queue) \in Nat
         /\ \A i \in 1..Len(rx.queue) : rx.queue[i] \in Notification
  BY DEF TypeOK, Receiver

\* A job nothing is said of is followed as before, wherever its notifications
\* are in the queue.
LEMMA Renumbered ==
  ASSUME TypeOK, TypeOK', NEW k \in Job, NEW d \in Nat, JobFollowed(k),
         \A i \in Unread(k) : i - d \in Unread(k)' /\ rx'.queue[i - d] = rx.queue[i],
         \A i \in Unread(k)' : i + d \in Unread(k) /\ rx.queue[i + d] = rx'.queue[i],
         last'[k] = last[k], index'[k] = index[k], tracker'.jobs[k] = tracker.jobs[k]
  PROVE  JobFollowed(k)'
<1>1. Unread(k) \subseteq Int /\ Unread(k)' \subseteq Int
  BY DEF Unread
<1>2. \A type : UnreadOf(k, type)' = {} <=> UnreadOf(k, type) = {}
  BY DEF UnreadOf
<1>3. Unread(k)' = {} <=> Unread(k) = {}
  OBVIOUS
<1>4. Unsettled(k)' <=> Unsettled(k)
  BY <1>2 DEF Unsettled
<1>5. InOrder(k)'
  <2>1. ASSUME NEW i \in Unread(k)', NEW m \in Unread(k)', i < m
        PROVE  Turn(rx'.queue[i]) < Turn(rx'.queue[m])
    <3>1. i + d < m + d
      BY <1>1, <2>1
    <3>2. Turn(rx.queue[i + d]) < Turn(rx.queue[m + d])
      BY <3>1 DEF JobFollowed, InOrder
    <3>3. QED
      BY <3>2
  <2>2. \A i \in UnreadOf(k, "Update")' : rx'.queue[i].index <= index'[k]
    BY DEF UnreadOf, JobFollowed, InOrder
  <2>3. \A i \in UnreadOf(k, "Finish")' : rx'.queue[i].progress = last'[k]
    BY DEF UnreadOf, JobFollowed, InOrder
  <2>4. QED
    BY <2>1, <2>2, <2>3 DEF InOrder
<1>6. InfoLeadsOn(k) => InfoLeadsOn(k)'
  <2> SUFFICES ASSUME InfoLeadsOn(k) PROVE InfoLeadsOn(k)'
    OBVIOUS
  <2>1. \A i \in UnreadOf(k, "Update")' :
          i + d \in UnreadOf(k, "Update") /\ rx.queue[i + d] = rx'.queue[i]
    BY DEF UnreadOf
  <2>2. \A i \in UnreadOf(k, "Update") :
          i - d \in UnreadOf(k, "Update")' /\ rx'.queue[i - d] = rx.queue[i]
    BY DEF UnreadOf
  <2>3. QED
    BY <1>2, <2>1, <2>2 DEF InfoLeadsOn
<1>7. InfoFinal(k) => InfoFinal(k)'
  BY <1>3 DEF InfoFinal
<1>8. QED
  BY <1>4, <1>5, <1>6, <1>7 DEF JobFollowed

\* A broadcast puts its notification behind the ones that are there.
LEMMA Sent1 ==
  ASSUME TypeOK, NEW n \in Notification, rx'.queue = rx.queue \o <<n>>, NEW k \in Job
  PROVE  /\ Len(rx.queue) + 1 \notin Unread(k)
         /\ \A i \in Unread(k) : rx'.queue[i] = rx.queue[i] /\ i < Len(rx.queue) + 1 /\ i \in Nat
         /\ n.job = k => Unread(k)' = Unread(k) \cup {Len(rx.queue) + 1}
                         /\ rx'.queue[Len(rx.queue) + 1] = n
         /\ n.job # k => Unread(k)' = Unread(k)
<1> DEFINE q == rx.queue
           p == rx'.queue
<1>1. q \in Seq(Notification) /\ Len(q) \in Nat
  BY QueueNotes
<1>2. /\ Len(p) = Len(q) + 1 /\ p[Len(q) + 1] = n
      /\ \A i \in 1..Len(q) : p[i] = q[i]
  BY <1>1
<1>3. \A i \in 1..Len(p) : i \in 1..Len(q) \/ i = Len(q) + 1
  BY <1>1, <1>2
<1>4. 1..Len(q) \subseteq 1..Len(p) /\ Len(q) + 1 \in 1..Len(p) /\ Len(q) + 1 \notin 1..Len(q)
  BY <1>1, <1>2
<1> HIDE DEF q, p
<1>5. Unread(k) = {i \in 1..Len(q) : q[i].job = k} /\ Unread(k)' = {i \in 1..Len(p) : p[i].job = k}
  BY DEF Unread, q, p
<1>6. \A i \in Unread(k) : i \in 1..Len(q) /\ i < Len(q) + 1 /\ i \in Nat
  BY <1>1, <1>5
<1>7. Len(q) + 1 \notin Unread(k) /\ \A i \in Unread(k) : p[i] = q[i]
  BY <1>2, <1>4, <1>5
<1>8. n.job = k => Unread(k)' = Unread(k) \cup {Len(q) + 1}
  BY <1>2, <1>3, <1>4, <1>5
<1>9. n.job # k => Unread(k)' = Unread(k)
  BY <1>2, <1>3, <1>4, <1>5
<1>10. QED
  BY <1>2, <1>6, <1>7, <1>8, <1>9 DEF q, p

LEMMA SentOther ==
  ASSUME TypeOK, TypeOK', NEW n \in Notification, rx'.queue = rx.queue \o <<n>>,
         NEW k \in Job, k # n.job, JobFollowed(k),
         last'[k] = last[k], index'[k] = index[k], tracker'.jobs[k] = tracker.jobs[k]
  PROVE  JobFollowed(k)'
<1>1. Unread(k)' = Unread(k) /\ \A i \in Unread(k) : rx'.queue[i] = rx.queue[i] /\ i \in Nat
  BY Sent1
<1>2. 0 \in Nat /\ \A i \in Nat : i - 0 = i /\ i + 0 = i
  OBVIOUS
<1>3. \A i \in Unread(k) : i - 0 \in Unread(k)' /\ rx'.queue[i - 0] = rx.queue[i]
  BY <1>1, <1>2
<1>4. \A i \in Unread(k)' : i + 0 \in Unread(k) /\ rx.queue[i + 0] = rx'.queue[i]
  BY <1>1, <1>2
<1>5. QED
  BY <1>2, <1>3, <1>4, Renumbered

\* Nothing was said of a job that never ran.
LEMMA NeverRan ==
  ASSUME TypeOK, NEW j \in Job, JobFollowed(j), last[j] = None
  PROVE  Unread(j) = {} /\ tracker.jobs[j] = None
<1>1. UnreadOf(j, "Finish") = {}
  <2>1. \A i \in UnreadOf(j, "Finish") : rx.queue[i].progress = None
    BY DEF JobFollowed, InOrder
  <2>2. \A i \in UnreadOf(j, "Finish") : rx.queue[i].progress \in Finished
    BY QueueNotes, NoteFields DEF UnreadOf, Unread
  <2>3. QED
    BY <2>1, <2>2, NoneApart
<1>2. ~Unsettled(j)
  BY <1>1, NoneApart DEF Unsettled
<1>3. QED
  BY <1>2 DEF JobFollowed, InfoFinal

\* While a job runs it has no unread end.
LEMMA StillRuns ==
  ASSUME TypeOK, NEW j \in Job, JobFollowed(j), last[j] = "Running"
  PROVE  UnreadOf(j, "Finish") = {} /\ InfoLeadsOn(j) /\ InOrder(j)
<1>1. UnreadOf(j, "Finish") = {}
  <2>1. \A i \in UnreadOf(j, "Finish") : rx.queue[i].progress = "Running"
    BY DEF JobFollowed, InOrder
  <2>2. \A i \in UnreadOf(j, "Finish") : rx.queue[i].progress \in Finished
    BY QueueNotes, NoteFields DEF UnreadOf, Unread
  <2>3. QED
    BY <2>1, <2>2, NoneApart
<1>2. QED
  BY <1>1 DEF JobFollowed, Unsettled

LEMMA ProgressFollowed ==
  ASSUME TypeOK, TypeOK', NEW t \in Task, NEW j \in Job, Progress(t, j), JobFollowed(j),
         last[j] = "Running", NEW i \in 2..MaxIndex, index[j] < i, index'[j] = i,
         rx'.queue = rx.queue \o <<[type |-> "Update", job |-> j, index |-> i]>>
  PROVE  JobFollowed(j)'
<1> DEFINE n == [type |-> "Update", job |-> j, index |-> i]
           z == Len(rx.queue) + 1
<1>1. n \in Notification /\ n.type = "Update" /\ n.job = j /\ n.index = i
  BY DEF Notification
<1>2. last' = last /\ tracker' = tracker
  BY DEF Progress, Sent
<1> HIDE DEF n
<1>3. /\ z \notin Unread(j) /\ Unread(j)' = Unread(j) \cup {z} /\ rx'.queue[z] = n
      /\ \A a \in Unread(j) : rx'.queue[a] = rx.queue[a] /\ a < z /\ a \in Nat
  BY <1>1, Sent1, ZenonT(40) DEF n
<1> HIDE DEF z
<1>4. UnreadOf(j, "Finish") = {} /\ InfoLeadsOn(j) /\ InOrder(j)
  BY StillRuns
<1>5. /\ UnreadOf(j, "New")' = UnreadOf(j, "New") /\ UnreadOf(j, "Start")' = UnreadOf(j, "Start")
      /\ UnreadOf(j, "Finish")' = UnreadOf(j, "Finish")
      /\ UnreadOf(j, "Update")' = UnreadOf(j, "Update") \cup {z}
  BY <1>1, <1>3, ZenonT(40) DEF UnreadOf
<1>6. \A a \in Unread(j) : Turn(rx.queue[a]) < i
  <2> SUFFICES ASSUME NEW a \in Unread(j) PROVE Turn(rx.queue[a]) < i
    OBVIOUS
  <2>1. rx.queue[a] \in Notification
    BY QueueNotes DEF Unread
  <2>2. rx.queue[a].type # "Finish"
    BY <1>4 DEF UnreadOf
  <2>3. rx.queue[a].type = "Update" => rx.queue[a].index <= index[j]
    BY <1>4 DEF InOrder, UnreadOf
  <2>4. index[j] \in Nat
    BY DEF TypeOK
  <2>5. QED
    BY <2>1, <2>2, <2>3, <2>4, TurnOf, NoteFields
<1>7. Turn(n) = i
  BY <1>1, TurnOf
<1>8. InOrder(j)'
  <2>1. ASSUME NEW a \in Unread(j)', NEW b \in Unread(j)', a < b
        PROVE  Turn(rx'.queue[a]) < Turn(rx'.queue[b])
    <3>1. a \in Unread(j)
      <4>1. CASE a = z
        <5>1. b \in Unread(j) \/ b = z
          BY <1>3
        <5>2. z \in Nat
          BY QueueNotes DEF z
        <5>3. QED
          BY <1>3, <2>1, <4>1, <5>1, <5>2
      <4>2. QED
        BY <1>3, <4>1
    <3>2. CASE b = z
      BY <1>3, <1>6, <1>7, <3>1, <3>2
    <3>3. CASE b \in Unread(j)
      BY <1>3, <1>4, <2>1, <3>1, <3>3 DEF InOrder
    <3>4. QED
      BY <1>3, <3>2, <3>3
  <2>2. \A a \in UnreadOf(j, "Update")' : rx'.queue[a].index <= index'[j]
    <3> SUFFICES ASSUME NEW a \in UnreadOf(j, "Update")' PROVE rx'.queue[a].index <= i
      OBVIOUS
    <3>1. CASE a = z
      <4>1. rx'.queue[a].index = i
        BY <1>1, <1>3, <3>1, Zenon
      <4>2. i <= i
        OBVIOUS
      <4>3. QED
        BY <4>1, <4>2, Zenon
    <3>2. CASE a \in UnreadOf(j, "Update")
      <4>1. rx'.queue[a] = rx.queue[a] /\ rx.queue[a].index <= index[j]
        BY <1>3, <1>4, <3>2 DEF InOrder, UnreadOf
      <4>2. rx.queue[a] \in Notification /\ rx.queue[a].type = "Update"
        BY <3>2, QueueNotes DEF UnreadOf, Unread
      <4>3. rx.queue[a].index \in 2..MaxIndex
        BY <4>2, NoteFields
      <4>4. index[j] \in Nat
        BY DEF TypeOK
      <4>5. rx.queue[a].index <= i
        BY <4>1, <4>3, <4>4
      <4>6. QED
        BY <4>1, <4>5, Zenon
    <3>3. QED
      BY <1>5, <3>1, <3>2
  <2>3. \A a \in UnreadOf(j, "Finish")' : rx'.queue[a].progress = last'[j]
    BY <1>4, <1>5
  <2>4. QED
    BY <2>1, <2>2, <2>3 DEF InOrder
<1>9. InfoLeadsOn(j)'
  <2> DEFINE info == tracker.jobs[j]
  <2>1. info = None <=> UnreadOf(j, "New")' # {}
    BY <1>4, <1>5 DEF InfoLeadsOn
  <2>2. info = None \/ info.progress = "Pending" <=> UnreadOf(j, "Start")' # {}
    BY <1>4, <1>5 DEF InfoLeadsOn
  <2>3. ASSUME info # None
        PROVE  /\ info.progress \in {"Pending", "Running"} /\ info.index <= i
               /\ \A a \in UnreadOf(j, "Update")' : info.index < rx'.queue[a].index
    <3>1. /\ info.progress \in {"Pending", "Running"} /\ info.index <= index[j]
          /\ \A a \in UnreadOf(j, "Update") : info.index < rx.queue[a].index
      BY <1>4, <2>3 DEF InfoLeadsOn
    <3>2. info.index \in Nat /\ index[j] \in Nat
      BY <2>3 DEF TypeOK, Tracker, JobInfo
    <3>3. info.index < i /\ info.index <= i
      BY <3>1, <3>2
    <3>4. ASSUME NEW a \in UnreadOf(j, "Update")' PROVE info.index < rx'.queue[a].index
      <4>1. CASE a = z
        BY <1>1, <1>3, <3>3, <4>1
      <4>2. CASE a \in UnreadOf(j, "Update")
        BY <1>3, <3>1, <4>2 DEF UnreadOf
      <4>3. QED
        BY <1>5, <4>1, <4>2
    <3>5. QED
      BY <3>1, <3>3, <3>4
  <2>4. \E a \in UnreadOf(j, "Update")' : rx'.queue[a].index = i
    BY <1>1, <1>3, <1>5
  <2>5. QED
    BY <1>2, <2>1, <2>2, <2>3, <2>4 DEF InfoLeadsOn
<1>10. QED
  BY <1>2, <1>8, <1>9 DEF JobFollowed, Unsettled

LEMMA FinishFollowed ==
  ASSUME TypeOK, TypeOK', NEW t \in Task, NEW j \in Job, JobFollowed(j), last[j] = "Running",
         NEW p \in Finished, last'[j] = p, index' = index, tracker' = tracker,
         NEW n \in Notification, n.type = "Finish", n.job = j, n.progress = p,
         rx'.queue = rx.queue \o <<n>>
  PROVE  JobFollowed(j)'
<1> DEFINE z == Len(rx.queue) + 1
<1>1. /\ z \notin Unread(j) /\ Unread(j)' = Unread(j) \cup {z} /\ rx'.queue[z] = n
      /\ \A a \in Unread(j) : rx'.queue[a] = rx.queue[a] /\ a < z /\ a \in Nat
  BY Sent1
<1>2. z \in Nat
  BY QueueNotes
<1> HIDE DEF z
<1>3. UnreadOf(j, "Finish") = {} /\ InfoLeadsOn(j) /\ InOrder(j)
  BY StillRuns
<1>4. /\ UnreadOf(j, "New")' = UnreadOf(j, "New") /\ UnreadOf(j, "Start")' = UnreadOf(j, "Start")
      /\ UnreadOf(j, "Update")' = UnreadOf(j, "Update") /\ UnreadOf(j, "Finish")' = {z}
  <2>1. ASSUME NEW type, type # "Finish" PROVE UnreadOf(j, type)' = UnreadOf(j, type)
    BY <1>1, <2>1, Zenon DEF UnreadOf
  <2>2. UnreadOf(j, "Finish")' = UnreadOf(j, "Finish") \cup {z}
    BY <1>1, Zenon DEF UnreadOf
  <2>3. QED
    BY <1>3, <2>1, <2>2, Zenon
<1>5. \A a \in Unread(j) : Turn(rx.queue[a]) < Turn(n)
  <2> SUFFICES ASSUME NEW a \in Unread(j) PROVE Turn(rx.queue[a]) < Turn(n)
    OBVIOUS
  <2>1. rx.queue[a] \in Notification
    BY QueueNotes DEF Unread
  <2>2. rx.queue[a].type # "Finish"
    BY <1>3 DEF UnreadOf
  <2>3. QED
    BY <2>1, <2>2, TurnOf
<1>6. InOrder(j)'
  <2>1. ASSUME NEW a \in Unread(j)', NEW b \in Unread(j)', a < b
        PROVE  Turn(rx'.queue[a]) < Turn(rx'.queue[b])
    <3>1. a \in Unread(j)
      <4>1. CASE a = z
        <5>1. b \in Unread(j) \/ b = z
          BY <1>1
        <5>2. QED
          BY <1>1, <1>2, <2>1, <4>1, <5>1
      <4>2. QED
        BY <1>1, <4>1
    <3>2. CASE b = z
      BY <1>1, <1>5, <3>1, <3>2, Zenon
    <3>3. CASE b \in Unread(j)
      <4>1. Turn(rx.queue[a]) < Turn(rx.queue[b])
        BY <1>3, <2>1, <3>1, <3>3 DEF InOrder
      <4>2. QED
        BY <1>1, <3>1, <3>3, <4>1, Zenon
    <3>4. QED
      BY <1>1, <3>2, <3>3
  <2>2. \A a \in UnreadOf(j, "Update")' : rx'.queue[a].index <= index'[j]
    BY <1>1, <1>3, <1>4, Zenon DEF InOrder, UnreadOf
  <2>3. \A a \in UnreadOf(j, "Finish")' : rx'.queue[a].progress = last'[j]
    BY <1>1, <1>4, Zenon
  <2>4. QED
    BY <2>1, <2>2, <2>3 DEF InOrder
<1>7. InfoLeadsOn(j)'
  <2>1. \A a \in UnreadOf(j, "Update") : rx'.queue[a] = rx.queue[a]
    BY <1>1 DEF UnreadOf
  <2>2. QED
    BY <1>3, <1>4, <2>1, Zenon DEF InfoLeadsOn
<1>8. Unsettled(j)'
  BY <1>4 DEF Unsettled
<1>9. QED
  BY <1>6, <1>7, <1>8 DEF JobFollowed

LEMMA RunOther ==
  ASSUME TypeOK, TypeOK', NEW n \in Notification, NEW m \in Notification,
         rx'.queue = rx.queue \o <<n, m>>,
         NEW k \in Job, k # n.job, k # m.job, JobFollowed(k),
         last'[k] = last[k], index'[k] = index[k], tracker'.jobs[k] = tracker.jobs[k]
  PROVE  JobFollowed(k)'
<1> DEFINE q == rx.queue
           p == rx'.queue
<1>1. q \in Seq(Notification) /\ Len(q) \in Nat
  BY QueueNotes
<1>2. /\ Len(p) = Len(q) + 2 /\ p[Len(q) + 1] = n /\ p[Len(q) + 2] = m
      /\ \A i \in 1..Len(q) : p[i] = q[i]
  BY <1>1
<1>3. \A i \in 1..Len(p) : i \in 1..Len(q) \/ i = Len(q) + 1 \/ i = Len(q) + 2
  BY <1>1, <1>2
<1>4. 1..Len(q) \subseteq 1..Len(p)
  BY <1>1, <1>2
<1> HIDE DEF q, p
<1>5. Unread(k) = {i \in 1..Len(q) : q[i].job = k} /\ Unread(k)' = {i \in 1..Len(p) : p[i].job = k}
  BY DEF Unread, q, p
<1>6. Unread(k)' = Unread(k) /\ \A i \in Unread(k) : p[i] = q[i] /\ i \in Nat
  BY <1>2, <1>3, <1>4, <1>5
<1>7. 0 \in Nat /\ \A i \in Nat : i - 0 = i /\ i + 0 = i
  OBVIOUS
<1>8. \A i \in Unread(k) : i - 0 \in Unread(k)' /\ rx'.queue[i - 0] = rx.queue[i]
  BY <1>6, <1>7, Zenon DEF p, q
<1>9. \A i \in Unread(k)' : i + 0 \in Unread(k) /\ rx.queue[i + 0] = rx'.queue[i]
  BY <1>6, <1>7, Zenon DEF p, q
<1>10. QED
  BY <1>7, <1>8, <1>9, Renumbered

LEMMA RunFollowed ==
  ASSUME TypeOK, TypeOK', NEW j \in Job, JobFollowed(j), last[j] = None,
         last'[j] = "Running", index'[j] = 0, tracker' = tracker,
         NEW n \in Notification, n.job = j, n.type = "New",
         NEW m \in Notification, m.job = j, m.type = "Start",
         rx'.queue = rx.queue \o <<n, m>>
  PROVE  JobFollowed(j)'
<1> DEFINE q == rx.queue
           p == rx'.queue
           z == Len(q) + 1
<1>1. q \in Seq(Notification) /\ Len(q) \in Nat
  BY QueueNotes
<1>2. /\ Len(p) = z + 1 /\ p[z] = n /\ p[z + 1] = m
      /\ \A i \in 1..Len(q) : p[i] = q[i]
  BY <1>1
<1>3. \A i \in 1..Len(p) : i \in 1..Len(q) \/ i = z \/ i = z + 1
  BY <1>1, <1>2
<1>4. z \in 1..Len(p) /\ z + 1 \in 1..Len(p) /\ z \in Nat /\ z + 1 \in Nat /\ ~(z + 1 < z) /\ ~(z < z)
      /\ ~(z + 1 < z + 1)
  BY <1>1, <1>2
<1> HIDE DEF q, p, z
<1>5. Unread(j) = {i \in 1..Len(q) : q[i].job = j} /\ Unread(j)' = {i \in 1..Len(p) : p[i].job = j}
  BY DEF Unread, q, p
<1>6. Unread(j) = {} /\ tracker.jobs[j] = None
  BY NeverRan
<1>7. Unread(j)' = {z, z + 1}
  <2>1. \A i \in 1..Len(q) : q[i].job # j
    BY <1>5, <1>6
  <2>2. \A i \in Unread(j)' : i \in {z, z + 1}
    BY <1>2, <1>3, <1>5, <2>1, Zenon
  <2>3. z \in Unread(j)' /\ z + 1 \in Unread(j)'
    BY <1>2, <1>4, <1>5, Zenon
  <2>4. QED
    BY <2>2, <2>3, Zenon
<1>8. rx'.queue = p
  BY DEF p
<1>9. /\ UnreadOf(j, "New")' = {z} /\ UnreadOf(j, "Start")' = {z + 1}
      /\ UnreadOf(j, "Update")' = {} /\ UnreadOf(j, "Finish")' = {}
  <2>1. \A type : UnreadOf(j, type)' = {i \in {z, z + 1} : p[i].type = type}
    BY <1>7, <1>8, Zenon DEF UnreadOf
  <2>2. p[z].type = "New" /\ p[z + 1].type = "Start"
    BY <1>2, Zenon
  <2> HIDE DEF p
  <2>3. z # z + 1
    BY <1>4
  <2>4. QED
    BY <2>1, <2>2, <2>3
<1>10. Turn(n) < Turn(m)
  BY TurnOf
<1>11. InOrder(j)'
  <2>1. ASSUME NEW a \in Unread(j)', NEW b \in Unread(j)', a < b
        PROVE  Turn(rx'.queue[a]) < Turn(rx'.queue[b])
    <3>1. a = z /\ b = z + 1
      BY <1>4, <1>7, <2>1, Zenon
    <3>2. QED
      BY <1>2, <1>8, <1>10, <3>1, Zenon
  <2>2. QED
    BY <1>9, <2>1, Zenon DEF InOrder
<1>12. InfoLeadsOn(j)'
  <2>1. UnreadOf(j, "New")' # {} /\ UnreadOf(j, "Start")' # {}
    BY <1>9
  <2>2. tracker'.jobs[j] = None
    BY <1>6
  <2>3. QED
    BY <2>1, <2>2, Zenon DEF InfoLeadsOn
<1>13. QED
  BY <1>11, <1>12, Zenon DEF JobFollowed, Unsettled

\* Reading takes the first notification and leaves the others.
LEMMA ReadOne ==
  ASSUME TypeOK, TypeOK', rx.queue # <<>>, rx'.queue = Tail(rx.queue), NEW k \in Job
  PROVE  /\ Head(rx.queue) = rx.queue[1] /\ Head(rx.queue) \in Notification
         /\ Head(rx.queue).job = k <=> 1 \in Unread(k)
         /\ \A i \in Unread(k) : i # 1 => i - 1 \in Unread(k)' /\ rx'.queue[i - 1] = rx.queue[i] /\ 1 < i
         /\ \A i \in Unread(k)' : i + 1 \in Unread(k) /\ rx.queue[i + 1] = rx'.queue[i] /\ i \in Nat /\ 1 < i + 1
<1> DEFINE q == rx.queue
           p == rx'.queue
<1>1. q \in Seq(Notification) /\ Len(q) \in Nat /\ Len(q) > 0
  BY QueueNotes, EmptySeq, LenProperties
<1>2. /\ Head(q) = q[1] /\ Len(p) = Len(q) - 1
      /\ \A i \in 1..Len(p) : p[i] = q[i + 1]
  BY <1>1, HeadTailProperties
<1>3. q[1] \in Notification /\ 1 \in 1..Len(q)
  BY <1>1
<1>4. \A i \in 1..Len(q) : i # 1 => i - 1 \in 1..Len(p) /\ (i - 1) + 1 = i /\ 1 < i
  BY <1>1, <1>2
<1>5. \A i \in 1..Len(p) : i + 1 \in 1..Len(q) /\ i \in Nat /\ 1 < i + 1
  BY <1>1, <1>2
<1> HIDE DEF q, p
<1>6. Unread(k) = {i \in 1..Len(q) : q[i].job = k} /\ Unread(k)' = {i \in 1..Len(p) : p[i].job = k}
  BY DEF Unread, q, p
<1>7. \A i \in Unread(k) : i # 1 => i - 1 \in Unread(k)' /\ p[i - 1] = q[i] /\ 1 < i
  <2> SUFFICES ASSUME NEW i \in Unread(k), i # 1
               PROVE  i - 1 \in Unread(k)' /\ p[i - 1] = q[i] /\ 1 < i
    OBVIOUS
  <2>1. i - 1 \in 1..Len(p) /\ (i - 1) + 1 = i /\ 1 < i
    BY <1>4, <1>6
  <2>2. p[i - 1] = q[(i - 1) + 1]
    BY <1>2, <2>1
  <2>3. QED
    BY <1>6, <2>1, <2>2
<1>8. \A i \in Unread(k)' : i + 1 \in Unread(k) /\ q[i + 1] = p[i] /\ i \in Nat /\ 1 < i + 1
  BY <1>2, <1>5, <1>6
<1>9. Head(q).job = k <=> 1 \in Unread(k)
  BY <1>2, <1>3, <1>6
<1>10. QED
  BY <1>2, <1>3, <1>7, <1>8, <1>9 DEF q, p

LEMMA FollowOther ==
  ASSUME TypeOK, TypeOK', rx.queue # <<>>, rx'.queue = Tail(rx.queue),
         NEW k \in Job, k # Head(rx.queue).job, JobFollowed(k), last' = last, index' = index,
         \/ tracker'.jobs[k] = tracker.jobs[k]
         \/ /\ tracker'.jobs[k] = None /\ tracker.jobs[k] # None
            /\ tracker.jobs[k].progress \in Finished
  PROVE  JobFollowed(k)'
<1>1. /\ 1 \notin Unread(k)
      /\ \A i \in Unread(k) : i # 1 => i - 1 \in Unread(k)' /\ rx'.queue[i - 1] = rx.queue[i]
      /\ \A i \in Unread(k)' : i + 1 \in Unread(k) /\ rx.queue[i + 1] = rx'.queue[i]
  BY ReadOne, ZenonT(40)
<1>2. CASE tracker'.jobs[k] = tracker.jobs[k]
  <2>1. \A i \in Unread(k) : i - 1 \in Unread(k)' /\ rx'.queue[i - 1] = rx.queue[i]
    BY <1>1, Zenon
  <2>2. 1 \in Nat
    OBVIOUS
  <2>3. last'[k] = last[k] /\ index'[k] = index[k]
    OBVIOUS
  <2>4. QED
    BY <1>1, <1>2, <2>1, <2>2, <2>3, Renumbered
<1>3. CASE /\ tracker'.jobs[k] = None /\ tracker.jobs[k] # None
           /\ tracker.jobs[k].progress \in Finished
  <2>1. ~Unsettled(k) /\ InfoFinal(k)
    BY <1>3 DEF JobFollowed, InfoLeadsOn, Finished
  <2>2. Unread(k) = {} /\ last[k] \in Finished
    BY <1>3, <2>1 DEF InfoFinal
  <2>3. Unread(k)' = {} /\ last'[k] \in Finished
    BY <1>1, <2>2
  <2>4. ~Unsettled(k)' /\ InOrder(k)'
    BY <2>3, NoneApart DEF Unsettled, UnreadOf, InOrder
  <2>5. InfoFinal(k)'
    BY <1>3, <2>3, Zenon DEF InfoFinal
  <2>6. QED
    BY <2>4, <2>5 DEF JobFollowed
<1>4. QED
  BY <1>2, <1>3

\* The notification read is the one that comes next for its job, so it is news
\* and the list moves on by one step.
LEMMA FollowHead ==
  ASSUME TypeOK, TypeOK', TrackerSound(tracker), rx.queue # <<>>, rx'.queue = Tail(rx.queue),
         NEW j \in Job, j = Head(rx.queue).job, JobFollowed(j), last' = last, index' = index,
         tracker' = Update(tracker, Head(rx.queue))
  PROVE  JobFollowed(j)'
<1> DEFINE h == Head(rx.queue)
           info == tracker.jobs[j]
           new == tracker'.jobs[j]
<1>1. /\ h = rx.queue[1] /\ h \in Notification /\ 1 \in Unread(j)
      /\ \A i \in Unread(j) : i # 1 => i - 1 \in Unread(j)' /\ rx'.queue[i - 1] = rx.queue[i] /\ 1 < i
      /\ \A i \in Unread(j)' : i + 1 \in Unread(j) /\ rx.queue[i + 1] = rx'.queue[i] /\ i \in Nat /\ 1 < i + 1
  BY ReadOne
<1>2. h.job = j /\ tracker' = Update(tracker, h)
  OBVIOUS
<1>3. info \in JobInfo \cup {None} /\ tracker \in Tracker
  BY DEF TypeOK, Tracker
<1>4. /\ IsNews(info, h) /\ h.type # "Finish" => new = Updated(info, h)
      /\ IsNews(info, h) /\ h.type = "Finish" => new \in {None, Updated(info, h)}
  <2> HIDE DEF h
  <2>1. /\ IsNews(tracker.jobs[h.job], h) /\ h.type # "Finish" =>
             Update(tracker, h).jobs[h.job] = Updated(tracker.jobs[h.job], h)
        /\ IsNews(tracker.jobs[h.job], h) /\ h.type = "Finish" =>
             Update(tracker, h).jobs[h.job] \in {None, Updated(tracker.jobs[h.job], h)}
    BY <1>1, <1>3, UpdateSound
  <2>2. QED
    BY <1>2, <2>1, Zenon
<1> HIDE DEF h, new, info
<1>5. new = tracker'.jobs[j] /\ info = tracker.jobs[j]
  BY DEF new, info
<1>6. Unsettled(j) /\ InfoLeadsOn(j) /\ InOrder(j)
  BY <1>1 DEF JobFollowed, InfoFinal
<1>7. \A i \in Unread(j) : i # 1 => Turn(h) < Turn(rx.queue[i])
  BY <1>1, <1>6 DEF InOrder
<1>8. \A i \in Unread(j) : rx.queue[i] \in Notification
  BY QueueNotes DEF Unread
<1>9. index[j] \in Nat
  BY DEF TypeOK
<1>10. InOrder(j)'
  <2>1. ASSUME NEW a \in Unread(j)', NEW b \in Unread(j)', a < b
        PROVE  Turn(rx'.queue[a]) < Turn(rx'.queue[b])
    <3>1. a + 1 < b + 1 /\ a + 1 \in Unread(j) /\ b + 1 \in Unread(j)
      BY <1>1, <2>1
    <3>2. Turn(rx.queue[a + 1]) < Turn(rx.queue[b + 1])
      BY <1>6, <3>1 DEF InOrder
    <3>3. QED
      BY <1>1, <3>2, Zenon
  <2>2. \A a \in UnreadOf(j, "Update")' : rx'.queue[a].index <= index'[j]
    BY <1>1, <1>6, ZenonT(30) DEF UnreadOf, InOrder
  <2>3. \A a \in UnreadOf(j, "Finish")' : rx'.queue[a].progress = last'[j]
    <3>1. \A a \in UnreadOf(j, "Finish")' :
            a + 1 \in UnreadOf(j, "Finish") /\ rx.queue[a + 1] = rx'.queue[a]
      BY <1>1, Zenon DEF UnreadOf
    <3>2. \A a \in UnreadOf(j, "Finish") : rx.queue[a].progress = last[j]
      BY <1>6 DEF InOrder
    <3>3. last'[j] = last[j]
      OBVIOUS
    <3>4. ASSUME NEW a \in UnreadOf(j, "Finish")' PROVE rx'.queue[a].progress = last[j]
      <4>1. rx.queue[a + 1].progress = last[j] /\ rx.queue[a + 1] = rx'.queue[a]
        BY <3>1, <3>2, Zenon
      <4>2. QED
        BY <4>1, Zenon
    <3>5. QED
      BY <3>3, <3>4, Zenon
  <2>4. QED
    BY <2>1, <2>2, <2>3 DEF InOrder
<1>11. \A type : h.type # type => (UnreadOf(j, type)' = {} <=> UnreadOf(j, type) = {})
  <2> SUFFICES ASSUME NEW type, h.type # type
               PROVE  UnreadOf(j, type)' = {} <=> UnreadOf(j, type) = {}
    OBVIOUS
  <2>1. \A i \in UnreadOf(j, type) : i - 1 \in UnreadOf(j, type)'
    BY <1>1, Zenon DEF UnreadOf
  <2>2. \A i \in UnreadOf(j, type)' : i + 1 \in UnreadOf(j, type)
    BY <1>1, Zenon DEF UnreadOf
  <2>3. QED
    BY <2>1, <2>2
<1>12. /\ \A i \in UnreadOf(j, "Update")' :
            i + 1 \in UnreadOf(j, "Update") /\ rx.queue[i + 1] = rx'.queue[i] /\ i + 1 # 1
       /\ \A i \in UnreadOf(j, "Update") : 
            i # 1 => i - 1 \in UnreadOf(j, "Update")' /\ rx'.queue[i - 1] = rx.queue[i]
  <2>1. \A i \in Nat : 1 < i + 1 => i + 1 # 1
    OBVIOUS
  <2>2. QED
    BY <1>1, <2>1, Zenon DEF UnreadOf
<1>13. /\ info = None <=> UnreadOf(j, "New") # {}
       /\ info = None \/ info.progress = "Pending" <=> UnreadOf(j, "Start") # {}
       /\ info # None => /\ info.progress \in {"Pending", "Running"} /\ info.index <= index[j]
                         /\ \A i \in UnreadOf(j, "Update") : info.index < rx.queue[i].index
       /\ \/ index[j] = 0
          \/ info # None /\ info.index = index[j]
          \/ \E i \in UnreadOf(j, "Update") : rx.queue[i].index = index[j]
  BY <1>6, Zenon DEF InfoLeadsOn, info
<1>14. \A i \in UnreadOf(j, "Update") : rx.queue[i].index \in 2..MaxIndex
  BY <1>8, NoteFields DEF UnreadOf
\* The last update is either the one just read or still unread.
<1>15. ASSUME NEW i \in UnreadOf(j, "Update"), rx.queue[i].index = index[j], i # 1
       PROVE  \E a \in UnreadOf(j, "Update")' : rx'.queue[a].index = index[j]
  <2>1. i - 1 \in UnreadOf(j, "Update")' /\ rx'.queue[i - 1] = rx.queue[i]
    BY <1>12, <1>15, Zenon
  <2>2. rx'.queue[i - 1].index = index[j]
    BY <1>15, <2>1, Zenon
  <2>3. QED
    BY <2>1, <2>2, Zenon
\* Nothing of the type just read is left, updates aside.
<1>16. \A type : type = h.type /\ type # "Update" => UnreadOf(j, type)' = {}
  <2> SUFFICES ASSUME NEW type, type = h.type, type # "Update", NEW i \in UnreadOf(j, type)' PROVE FALSE
    OBVIOUS
  <2>1. i + 1 \in Unread(j) /\ i + 1 # 1 /\ rx.queue[i + 1].type = h.type
    <3>1. i \in Unread(j)' /\ rx'.queue[i].type = h.type
      BY DEF UnreadOf
    <3>2. i + 1 \in Unread(j) /\ rx.queue[i + 1] = rx'.queue[i] /\ i \in Nat /\ 1 < i + 1
      BY <1>1, <3>1, Zenon
    <3>3. i + 1 # 1
      BY <3>2
    <3>4. QED
      BY <3>1, <3>2, <3>3, Zenon
  <2>2. Turn(h) < Turn(rx.queue[i + 1]) /\ rx.queue[i + 1] \in Notification
    BY <1>7, <1>8, <2>1, Zenon
  <2>3. QED
    BY <1>1, <2>1, <2>2, TurnOf, NoteFields
<1>17. h.type # "Finish" => Unsettled(j)'
  BY <1>6, <1>11, Zenon DEF Unsettled
<1>18. IsNews(info, h) => new \in JobInfo \cup {None}
  BY <1>5 DEF TypeOK, Tracker
<1>19. CASE h.type = "New"
  <2>1. info = None
    BY <1>1, <1>13, <1>19 DEF UnreadOf
  <2>2. IsNews(info, h)
    BY <1>19, <2>1 DEF IsNews
  <2>3. new = Updated(info, h)
    BY <1>4, <1>19, <2>2, Zenon
  <2>4. new # None /\ new.progress = "Pending" /\ new.index = 0
    BY <1>1, <1>3, <1>19, <2>2, <2>3, UpdatedInfo
  <2>5. UnreadOf(j, "New")' = {} /\ UnreadOf(j, "Start")' # {}
    <3>1. UnreadOf(j, "New")' = {}
      BY <1>16, <1>19, Zenon
    <3>2. UnreadOf(j, "Start") # {}
      BY <1>13, <2>1, Zenon
    <3>3. QED
      BY <1>11, <1>19, <3>1, <3>2, Zenon
  <2>6. \A i \in UnreadOf(j, "Update")' : 0 < rx'.queue[i].index
    <3> SUFFICES ASSUME NEW i \in UnreadOf(j, "Update")' PROVE 0 < rx'.queue[i].index
      OBVIOUS
    <3>1. rx'.queue[i].index \in 2..MaxIndex
      BY <1>12, <1>14, Zenon
    <3>2. \A x \in 2..MaxIndex : 0 < x
      OBVIOUS
    <3>3. QED
      BY <3>1, <3>2, Zenon
  <2>7. \/ index[j] = 0
        \/ \E i \in UnreadOf(j, "Update")' : rx'.queue[i].index = index[j]
    <3>1. 1 \notin UnreadOf(j, "Update")
      BY <1>1, <1>19 DEF UnreadOf
    <3>2. QED
      BY <1>13, <1>15, <2>1, <3>1
  <2>8. InfoLeadsOn(j)'
    <3>1. 0 <= index[j]
      BY <1>9
    <3>2. QED
      BY <1>5, <2>4, <2>5, <2>6, <2>7, <3>1, Zenon DEF InfoLeadsOn
  <2>9. QED
    BY <1>10, <1>17, <1>19, <2>8, Zenon DEF JobFollowed
<1>20. CASE h.type = "Start"
  <2>1. UnreadOf(j, "New") = {}
    <3> SUFFICES ASSUME NEW i \in UnreadOf(j, "New") PROVE FALSE
      OBVIOUS
    <3>1. i \in Unread(j) /\ rx.queue[i].type = "New" /\ i # 1
      BY <1>1, <1>20 DEF UnreadOf
    <3>2. QED
      BY <1>1, <1>7, <1>8, <1>20, <3>1, TurnOf
  <2>2. info # None /\ info.progress = "Pending"
    BY <1>1, <1>13, <1>20, <2>1 DEF UnreadOf
  <2>3. IsNews(info, h)
    BY <1>20, <2>2 DEF IsNews
  <2>4. new = Updated(info, h)
    BY <1>4, <1>20, <2>3, Zenon
  <2>5. new # None /\ new.progress = "Running" /\ new.index = info.index
    BY <1>1, <1>3, <1>20, <2>3, <2>4, UpdatedInfo
  <2>6. UnreadOf(j, "New")' = {} /\ UnreadOf(j, "Start")' = {}
    <3>1. UnreadOf(j, "Start")' = {}
      BY <1>16, <1>20, Zenon
    <3>2. QED
      BY <1>11, <1>20, <2>1, <3>1, Zenon
  <2>7. new.index <= index[j] /\ \A i \in UnreadOf(j, "Update")' : new.index < rx'.queue[i].index
    BY <1>12, <1>13, <2>2, <2>5, Zenon
  <2>8. \/ index[j] = 0 \/ new.index = index[j]
        \/ \E i \in UnreadOf(j, "Update")' : rx'.queue[i].index = index[j]
    <3>1. 1 \notin UnreadOf(j, "Update")
      BY <1>1, <1>20 DEF UnreadOf
    <3>2. QED
      BY <1>13, <1>15, <2>5, <3>1
  <2>9. InfoLeadsOn(j)'
    BY <1>5, <2>5, <2>6, <2>7, <2>8, Zenon DEF InfoLeadsOn
  <2>10. QED
    BY <1>10, <1>17, <1>20, <2>9, Zenon DEF JobFollowed
<1>21. ASSUME h.type \in {"Update", "Finish"}
       PROVE  /\ info \in JobInfo /\ info # None /\ info.progress = "Running"
              /\ UnreadOf(j, "New") = {} /\ UnreadOf(j, "Start") = {}
  <2>1. ASSUME NEW i \in Unread(j), rx.queue[i].type \in {"New", "Start"} PROVE FALSE
    <3>1. i # 1
      BY <1>1, <1>21, <2>1
    <3>2. QED
      BY <1>1, <1>7, <1>8, <1>21, <2>1, <3>1, TurnOf
  <2>2. UnreadOf(j, "New") = {} /\ UnreadOf(j, "Start") = {}
    BY <2>1 DEF UnreadOf
  <2>3. info # None /\ info.progress = "Running"
    BY <1>13, <2>2
  <2>4. QED
    BY <1>3, <2>2, <2>3
<1>22. CASE h.type = "Update"
  <2>1. /\ info \in JobInfo /\ info # None /\ info.progress = "Running"
        /\ UnreadOf(j, "New") = {} /\ UnreadOf(j, "Start") = {}
    BY <1>21, <1>22
  <2>2. 1 \in UnreadOf(j, "Update")
    BY <1>1, <1>22 DEF UnreadOf
  <2>3. info.index < h.index /\ h.index \in Nat /\ info.index \in Nat
    <3>1. info.index < h.index
      BY <1>1, <1>13, <2>1, <2>2, Zenon
    <3>2. h.index \in Nat
      BY <1>1, <1>22, NoteFields
    <3>3. QED
      BY <2>1, <3>1, <3>2 DEF JobInfo
  <2>4. IsNews(info, h)
    BY <1>22, <2>1, <2>3 DEF IsNews
  <2>5. new = Updated(info, h)
    BY <1>4, <1>22, <2>4, Zenon
  <2>6. new # None /\ new.progress = "Running" /\ new.index = h.index
    BY <1>1, <1>3, <1>22, <2>4, <2>5, UpdatedInfo
  <2>7. UnreadOf(j, "New")' = {} /\ UnreadOf(j, "Start")' = {}
    BY <1>11, <1>22, <2>1
  <2>8. h.index <= index[j]
    BY <1>1, <1>6, <2>2, Zenon DEF InOrder
  <2>9. \A i \in UnreadOf(j, "Update")' : h.index < rx'.queue[i].index
    <3> SUFFICES ASSUME NEW i \in UnreadOf(j, "Update")' PROVE h.index < rx'.queue[i].index
      OBVIOUS
    <3>1. i + 1 \in UnreadOf(j, "Update") /\ rx.queue[i + 1] = rx'.queue[i] /\ i + 1 # 1
      BY <1>12
    <3>2. Turn(h) < Turn(rx.queue[i + 1]) /\ rx.queue[i + 1].type = "Update"
          /\ rx.queue[i + 1] \in Notification
      BY <1>7, <1>8, <3>1, Zenon DEF UnreadOf
    <3>3. h.index < rx.queue[i + 1].index
      BY <1>1, <1>22, <3>2, TurnOf
    <3>4. QED
      BY <3>1, <3>3, Zenon
  <2>10. \/ index[j] = 0 \/ new.index = index[j]
         \/ \E i \in UnreadOf(j, "Update")' : rx'.queue[i].index = index[j]
    <3>1. CASE info.index = index[j]
      BY <1>9, <2>3, <2>8, <3>1
    <3>2. ASSUME NEW i \in UnreadOf(j, "Update"), rx.queue[i].index = index[j]
          PROVE  \/ new.index = index[j]
                 \/ \E a \in UnreadOf(j, "Update")' : rx'.queue[a].index = index[j]
      <4>1. CASE i = 1
        BY <1>1, <2>6, <3>2, <4>1, Zenon
      <4>2. CASE i # 1
        BY <1>15, <3>2, <4>2
      <4>3. QED
        BY <4>1, <4>2
    <3>3. QED
      BY <1>13, <3>1, <3>2
  <2>11. InfoLeadsOn(j)'
    BY <1>5, <2>6, <2>7, <2>8, <2>9, <2>10, Zenon DEF InfoLeadsOn
  <2>12. QED
    BY <1>10, <1>17, <1>22, <2>11, Zenon DEF JobFollowed
<1>23. CASE h.type = "Finish"
  <2>1. info \in JobInfo /\ info # None /\ info.progress = "Running"
    BY <1>21, <1>23
  <2>2. IsNews(info, h)
    BY <1>23, <2>1, NoneApart DEF IsNews
  <2>3. new \in {None, Updated(info, h)}
    BY <1>4, <1>23, <2>2, Zenon
  <2>4. Updated(info, h).progress = h.progress
    BY <1>1, <1>3, <1>23, <2>2, UpdatedInfo
  <2>5. h.progress = last[j] /\ h.progress \in Finished
    <3>1. 1 \in UnreadOf(j, "Finish")
      BY <1>1, <1>23 DEF UnreadOf
    <3>2. h.progress = last[j]
      BY <1>1, <1>6, <3>1, Zenon DEF InOrder
    <3>3. QED
      BY <1>1, <1>23, <3>2, NoteFields
  <2>6. Unread(j)' = {}
    <3> SUFFICES ASSUME NEW i \in Unread(j)' PROVE FALSE
      OBVIOUS
    <3>1. i + 1 \in Unread(j) /\ i \in Nat /\ 1 < i + 1
      BY <1>1, Zenon
    <3>2. i + 1 # 1
      BY <3>1
    <3>3. Turn(h) < Turn(rx.queue[i + 1]) /\ rx.queue[i + 1] \in Notification
      BY <1>7, <1>8, <3>1, <3>2, Zenon
    <3>4. QED
      BY <1>1, <1>23, <3>3, TurnOf
  <2>7. ~Unsettled(j)'
    BY <2>5, <2>6, NoneApart DEF Unsettled, UnreadOf
  <2>8. InfoFinal(j)'
    BY <1>5, <2>3, <2>4, <2>5, <2>6, NoneApart, Zenon DEF InfoFinal
  <2>9. QED
    BY <1>10, <2>7, <2>8, Zenon DEF JobFollowed
<1>24. QED
  BY <1>1, <1>19, <1>20, <1>22, <1>23, NoteFields

LEMMA FollowSame ==
  ASSUME UNCHANGED <<rx, tracker, following, last, index>>, reran \subseteq reran', FollowInv
  PROVE  FollowInv'
<1>1. \A j : JobFollowed(j) => JobFollowed(j)'
  BY DEF JobFollowed, InOrder, Unsettled, InfoLeadsOn, InfoFinal, Unread, UnreadOf
<1>2. QED
  BY <1>1, Zenon DEF FollowInv

LEMMA FollowStep ==
  ASSUME BoundInv, RunOnce, FollowInv, TypeOK', [Next]_vars
  PROVE  FollowInv'
<1> USE DEF BoundInv
<1>1. ASSUME NEW t \in Task, NEW j \in Job, Run(t, j) PROVE FollowInv'
  <2> DEFINE n == [type |-> "New", job |-> j]
             m == [type |-> "Start", job |-> j]
  <2>1. n \in Notification /\ n.type = "New" /\ n.job = j
        /\ m \in Notification /\ m.type = "Start" /\ m.job = j
    BY DEF Notification
  <2>2. Send(<<n, m>>) /\ UNCHANGED <<tracker, following>> /\ index' = [index EXCEPT ![j] = 0]
        /\ last' = [last EXCEPT ![j] = "Running"] /\ reran' = reran \cup {k \in {j} : last[j] # None}
    BY <1>1 DEF Run, Sent
  <2> HIDE DEF n, m
  <2>3. <<n, m>> \in Seq(Notification)
    BY <2>1
  <2>4. SUFFICES ASSUME following', ~rx'.lagged, NEW k \in Job \ reran' PROVE JobFollowed(k)'
    BY DEF FollowInv
  <2>5. ~rx.lagged /\ rx'.queue = rx.queue \o <<n, m>>
    BY <2>2, <2>3, <2>4, SendTypes
  <2>6. k \in Job \ reran /\ JobFollowed(k)
    BY <2>2, <2>4, <2>5 DEF FollowInv
  <2>7. CASE k = j
    <3>1. last[j] = None /\ last'[j] = "Running" /\ index'[j] = 0
      BY <2>2, <2>4, <2>7 DEF TypeOK
    <3>2. QED
      BY <2>1, <2>2, <2>5, <2>6, <2>7, <3>1, RunFollowed
  <2>8. CASE k # j
    <3>1. last'[k] = last[k] /\ index'[k] = index[k] /\ tracker'.jobs[k] = tracker.jobs[k]
      BY <2>2, <2>8 DEF TypeOK
    <3>2. QED
      BY <2>1, <2>5, <2>6, <2>8, <3>1, RunOther
  <2>9. QED
    BY <2>7, <2>8
<1>2. ASSUME NEW t \in Task, NEW j \in Job, Progress(t, j) PROVE FollowInv'
  <2> DEFINE i == IF index[j] = 0 THEN 2 ELSE index[j] + 1
             n == [type |-> "Update", job |-> j, index |-> i]
  <2>1. i \in 2..MaxIndex /\ index' = [index EXCEPT ![j] = i] /\ Send(<<n>>) /\ index[j] < i
        /\ UNCHANGED <<tracker, following, last, reran>> /\ <<t, j>> \in running
    BY <1>2 DEF Progress, Sent, TypeOK
  <2> HIDE DEF i
  <2>2. n \in Notification /\ n.job = j /\ <<n>> \in Seq(Notification)
    BY <2>1 DEF Notification
  <2>3. SUFFICES ASSUME following', ~rx'.lagged, NEW k \in Job \ reran' PROVE JobFollowed(k)'
    BY DEF FollowInv
  <2>4. ~rx.lagged /\ rx'.queue = rx.queue \o <<n>>
    BY <2>1, <2>2, <2>3, SendTypes
  <2>5. k \in Job \ reran /\ JobFollowed(k)
    BY <2>1, <2>3, <2>4 DEF FollowInv
  <2>6. CASE k = j
    <3>1. last[j] = "Running" /\ index'[j] = i
      BY <2>1, <2>5, <2>6 DEF RunOnce, TypeOK
    <3>2. QED
      BY <1>2, <2>1, <2>4, <2>5, <2>6, <3>1, ProgressFollowed
  <2>7. CASE k # j
    <3>1. last'[k] = last[k] /\ index'[k] = index[k] /\ tracker'.jobs[k] = tracker.jobs[k]
      BY <2>1, <2>7 DEF TypeOK
    <3> HIDE DEF n
    <3>2. QED
      BY <2>2, <2>4, <2>5, <2>7, <3>1, SentOther
  <2>8. QED
    BY <2>6, <2>7
<1>3. ASSUME NEW t \in Task, NEW j \in Job, NEW result \in {"Done", "Abandoned", "Failed"},
             Finish(t, j, result)
      PROVE  FollowInv'
  <2> DEFINE p == IF result = "Failed" /\ t \in cancelled THEN "Cancelled" ELSE result
             n == [type |-> "Finish", job |-> j, progress |-> p]
  <2>1. p \in Finished /\ last' = [last EXCEPT ![j] = p] /\ Send(<<n>>)
        /\ UNCHANGED <<tracker, following, index, reran>> /\ <<t, j>> \in running
    BY <1>3 DEF Finish, Finished, Sent
  <2> HIDE DEF p
  <2>2. n \in Notification /\ n.job = j /\ n.type = "Finish" /\ n.progress = p
        /\ <<n>> \in Seq(Notification)
    BY <2>1 DEF Notification
  <2> HIDE DEF n
  <2>3. SUFFICES ASSUME following', ~rx'.lagged, NEW k \in Job \ reran' PROVE JobFollowed(k)'
    BY DEF FollowInv
  <2>4. ~rx.lagged /\ rx'.queue = rx.queue \o <<n>>
    BY <2>1, <2>2, <2>3, SendTypes
  <2>5. k \in Job \ reran /\ JobFollowed(k)
    BY <2>1, <2>3, <2>4 DEF FollowInv
  <2>6. CASE k = j
    <3>1. last[j] = "Running" /\ last'[j] = p
      BY <2>1, <2>5, <2>6 DEF RunOnce, TypeOK
    <3>2. QED
      BY <2>1, <2>2, <2>4, <2>5, <2>6, <3>1, FinishFollowed
  <2>7. CASE k # j
    <3>1. last'[k] = last[k] /\ index'[k] = index[k] /\ tracker'.jobs[k] = tracker.jobs[k]
      BY <2>1, <2>7 DEF TypeOK
    <3>2. QED
      BY <2>2, <2>4, <2>5, <2>7, <3>1, SentOther
  <2>8. QED
    BY <2>6, <2>7
<1>4. ASSUME Follow PROVE FollowInv'
  <2> DEFINE h == Head(rx.queue)
  <2>1. /\ following /\ ~rx.lagged /\ rx.queue # <<>> /\ tracker' = Update(tracker, h)
        /\ rx' = [rx EXCEPT !.queue = Tail(@)] /\ UNCHANGED <<last, index, reran>>
    BY <1>4 DEF Follow, churten
  <2>2. rx \in Receiver
    BY DEF TypeOK
  <2>3. rx'.queue = Tail(rx.queue) /\ h \in Notification
    BY <2>1, <2>2, TailTypes
  <2>4. SUFFICES ASSUME NEW k \in Job \ reran' PROVE JobFollowed(k)'
    BY DEF FollowInv
  <2>5. k \in Job \ reran /\ JobFollowed(k)
    BY <2>1 DEF FollowInv
  <2>6. CASE k = h.job
    BY <2>1, <2>3, <2>5, <2>6, FollowHead
  <2>7. CASE k # h.job
    <3>1. \/ tracker'.jobs[k] = tracker.jobs[k]
          \/ /\ tracker'.jobs[k] = None /\ tracker.jobs[k] # None
             /\ tracker.jobs[k].progress \in Finished
      <4> HIDE DEF h
      <4>1. tracker \in Tracker /\ TrackerSound(tracker)
        BY DEF TypeOK
      <4>2. QED
        BY <2>1, <2>3, <2>7, <4>1, UpdateSound
    <3>2. QED
      BY <2>1, <2>3, <2>5, <2>7, <3>1, FollowOther
  <2>8. QED
    BY <2>6, <2>7
<1>5. ASSUME StopFollowing PROVE FollowInv'
  BY <1>5 DEF StopFollowing, FollowInv
<1>6. ASSUME Start \/ Shutdown \/ (\E t \in Task : End(t))
      PROVE  UNCHANGED <<rx, tracker, following, last, index>> /\ reran \subseteq reran'
  BY <1>6 DEF Start, Shutdown, End, Sent
<1>7. ASSUME Subscribe \/ Snapshot \/ CatchUp \/ Forward \/ Unsubscribe \/ UNCHANGED vars
      PROVE  UNCHANGED <<rx, tracker, following, last, index>> /\ reran \subseteq reran'
  BY <1>7 DEF Subscribe, Snapshot, CatchUp, Forward, Unsubscribe, vars, churten
<1>8. QED
  BY <1>1, <1>2, <1>3, <1>4, <1>5, <1>6, <1>7, FollowSame DEF Next

LEMMA FollowInit == Init => FollowInv
<1> SUFFICES ASSUME Init, NEW j \in Job PROVE JobFollowed(j)
  BY DEF FollowInv
<1>1. rx.queue = <<>> /\ tracker.jobs[j] = None /\ last[j] = None
  BY DEF Init, NoMessage, EmptyTracker
<1>2. Unread(j) = {}
  BY <1>1 DEF Unread
<1>3. InOrder(j) /\ ~Unsettled(j) /\ InfoFinal(j)
  BY <1>1, <1>2, NoneApart DEF InOrder, UnreadOf, Unsettled, InfoFinal
<1>4. QED
  BY <1>3 DEF JobFollowed

-----------------------------------------------------------------------------
(* Queues that end alike *)

Suffix(p, q) ==
  /\ Len(p) <= Len(q)
  /\ \A i \in 1..Len(p) : p[i] = q[i + (Len(q) - Len(p))]

LEMMA TailSuffix ==
  ASSUME NEW q \in Seq(Notification), q # <<>>
  PROVE  Tail(q) \in Seq(Notification) /\ Suffix(Tail(q), q)
<1>1. Len(q) \in Nat /\ Tail(q) \in Seq(Notification) /\ Len(Tail(q)) = Len(q) - 1
      /\ \A i \in 1..Len(Tail(q)) : Tail(q)[i] = q[i + 1]
  BY HeadTailProperties, LenProperties
<1>2. Len(q) - (Len(q) - 1) = 1 /\ Len(q) - 1 <= Len(q)
  BY <1>1
<1>3. QED
  BY <1>1, <1>2 DEF Suffix

\* What a receiver has is the end of what it would have had without a limit.
LEMMA ReceivedSuffix ==
  ASSUME NEW r \in Receiver, NEW notes \in Seq(Notification), r.lagged => Len(r.queue) = Capacity
  PROVE  /\ Suffix(Received(r, notes).queue, r.queue \o notes)
         /\ Received(r, notes).lagged => Len(Received(r, notes).queue) = Capacity
<1> DEFINE all == r.queue \o notes
           m == Len(all) - Capacity + 1
           cut == SubSeq(all, m, Len(all))
<1>1. r.queue \in Seq(Notification) /\ r.lagged \in BOOLEAN /\ Len(r.queue) \in Nat /\ Len(notes) \in Nat
  BY LenProperties DEF Receiver
<1>2. all \in Seq(Notification) /\ Len(all) \in Nat /\ Len(all) = Len(r.queue) + Len(notes)
  BY <1>1
<1> HIDE DEF all
<1>3. CASE Len(all) <= Capacity
  <2>1. Received(r, notes).queue = all /\ (Received(r, notes).lagged <=> r.lagged)
    BY <1>1, <1>2, <1>3 DEF Received, all
  <2>2. Suffix(all, all)
    <3>1. Len(all) <= Len(all) /\ \A i \in 1..Len(all) : i + (Len(all) - Len(all)) = i
      BY <1>2
    <3>2. QED
      BY <3>1 DEF Suffix
  <2>3. r.lagged => Len(all) = Capacity
    BY <1>1, <1>2, <1>3
  <2>4. QED
    BY <2>1, <2>2, <2>3, Zenon DEF all
<1>4. CASE ~(Len(all) <= Capacity)
  <2>1. m \in Int /\ Len(all) \in Int /\ m <= Len(all) /\ Len(all) - m + 1 = Capacity
        /\ \A i \in 1..Capacity : m + i - 1 = i + (Len(all) - Capacity)
    BY <1>2, <1>4
  <2>2. \A i \in m..Len(all) : all[i] \in Notification
    BY <1>2, <1>4
  <2>3. Len(cut) = Capacity /\ \A i \in 1..Capacity : cut[i] = all[i + (Len(all) - Capacity)]
    <3> HIDE DEF m
    <3>1. cut \in Seq(Notification) /\ Len(cut) = Len(all) - m + 1
          /\ \A i \in 1..(Len(all) - m + 1) : cut[i] = all[m + i - 1]
      BY <2>1, <2>2, SubSeqProperties
    <3> HIDE DEF cut
    <3>2. QED
      BY <2>1, <3>1
  <2> HIDE DEF cut
  <2>4. Received(r, notes).queue = cut
    BY <1>4 DEF Received, all, cut
  <2>5. Suffix(cut, all)
    <3>1. Capacity <= Len(all)
      BY <1>2, <1>4
    <3>2. QED
      BY <2>3, <3>1 DEF Suffix
  <2>6. QED
    BY <2>3, <2>4, <2>5, Zenon DEF all
<1>5. QED
  BY <1>3, <1>4

LEMMA AlignedLeft ==
  ASSUME NEW r \in Seq(Notification), NEW c \in Seq(Notification), Aligned(r, c),
         NEW p \in Seq(Notification), Suffix(p, r)
  PROVE  Aligned(p, c)
<1>1. Len(r) \in Nat /\ Len(c) \in Nat /\ Len(p) \in Nat /\ Len(p) <= Len(r)
  BY LenProperties DEF Suffix
<1>2. SUFFICES ASSUME NEW i \in 1..Len(p), i + Len(c) - Len(p) \in 1..Len(c)
               PROVE  p[i] = c[i + Len(c) - Len(p)]
  BY DEF Aligned
<1> DEFINE a == i + (Len(r) - Len(p))
<1>3. a \in 1..Len(r) /\ a + Len(c) - Len(r) = i + Len(c) - Len(p)
  BY <1>1
<1>4. p[i] = r[a]
  BY DEF Suffix
<1> HIDE DEF a
<1>5. r[a] = c[a + Len(c) - Len(r)]
  BY <1>2, <1>3 DEF Aligned
<1>6. QED
  BY <1>3, <1>4, <1>5, Zenon

LEMMA AlignedRight ==
  ASSUME NEW r \in Seq(Notification), NEW c \in Seq(Notification), Aligned(r, c),
         NEW p \in Seq(Notification), Suffix(p, c)
  PROVE  Aligned(r, p)
<1>1. Len(r) \in Nat /\ Len(c) \in Nat /\ Len(p) \in Nat /\ Len(p) <= Len(c)
  BY LenProperties DEF Suffix
<1>2. SUFFICES ASSUME NEW i \in 1..Len(r), i + Len(p) - Len(r) \in 1..Len(p)
               PROVE  r[i] = p[i + Len(p) - Len(r)]
  BY DEF Aligned
<1> DEFINE b == i + Len(p) - Len(r)
           a == i + Len(c) - Len(r)
<1>3. a \in 1..Len(c) /\ b + (Len(c) - Len(p)) = a /\ b \in 1..Len(p)
  BY <1>1, <1>2
<1>4. r[i] = c[a]
  BY <1>3 DEF Aligned
<1> HIDE DEF a, b
<1>5. p[b] = c[b + (Len(c) - Len(p))]
  BY <1>3 DEF Suffix
<1>6. r[i] = p[b]
  BY <1>3, <1>4, <1>5, Zenon
<1>7. QED
  BY <1>6 DEF b

LEMMA ConcatFacts ==
  ASSUME NEW q \in Seq(Notification), NEW s \in Seq(Notification)
  PROVE  /\ q \o s \in Seq(Notification)
         /\ Len(q) \in Nat /\ Len(s) \in Nat /\ Len(q \o s) = Len(q) + Len(s)
         /\ \A i \in 1..Len(q) : (q \o s)[i] = q[i]
         /\ \A i \in 1..Len(s) : (q \o s)[Len(q) + i] = s[i]
  BY LenProperties

LEMMA AlignedConcat ==
  ASSUME NEW r \in Seq(Notification), NEW c \in Seq(Notification), Aligned(r, c),
         NEW s \in Seq(Notification)
  PROVE  Aligned(r \o s, c \o s)
<1> DEFINE R == r \o s
           C == c \o s
<1>1. /\ Len(r) \in Nat /\ Len(c) \in Nat /\ Len(s) \in Nat
      /\ Len(R) = Len(r) + Len(s) /\ Len(C) = Len(c) + Len(s)
      /\ \A i \in 1..Len(r) : R[i] = r[i]
      /\ \A i \in 1..Len(c) : C[i] = c[i]
      /\ \A i \in 1..Len(s) : R[Len(r) + i] = s[i] /\ C[Len(c) + i] = s[i]
  BY ConcatFacts
<1> HIDE DEF R, C
<1>2. SUFFICES ASSUME NEW i \in 1..Len(R), i + Len(C) - Len(R) \in 1..Len(C)
               PROVE  R[i] = C[i + Len(C) - Len(R)]
  BY DEF Aligned, R, C
<1> DEFINE k == i + Len(C) - Len(R)
<1>3. k = i + Len(c) - Len(r) /\ k \in 1..Len(C)
  BY <1>1, <1>2
<1>4. CASE i <= Len(r)
  <2>1. i \in 1..Len(r) /\ k \in 1..Len(c)
    BY <1>1, <1>3, <1>4
  <2>2. r[i] = c[i + Len(c) - Len(r)]
    BY <1>3, <2>1 DEF Aligned
  <2> HIDE DEF k
  <2>3. R[i] = C[k]
    BY <1>1, <1>3, <2>1, <2>2, Zenon
  <2>4. QED
    BY <2>3 DEF k
<1>5. CASE ~(i <= Len(r))
  <2> DEFINE a == i - Len(r)
  <2>1. a \in 1..Len(s) /\ Len(r) + a = i /\ Len(c) + a = k
    BY <1>1, <1>3, <1>5
  <2> HIDE DEF a, k
  <2>2. R[i] = C[k]
    BY <1>1, <2>1, Zenon
  <2>3. QED
    BY <2>2 DEF k
<1>6. QED
  BY <1>4, <1>5

\* The end of a sound queue is sound.
LEMMA SuffixSound ==
  ASSUME NEW q \in Seq(Notification), NEW p \in Seq(Notification), Suffix(p, q),
         NEW j \in Job, NEW l, NEW x, QueueSound(q, j, l, x)
  PROVE  QueueSound(p, j, l, x)
<1> DEFINE d == Len(q) - Len(p)
<1>1. Len(q) \in Nat /\ Len(p) \in Nat /\ d \in Nat
  BY LenProperties DEF Suffix
<1>2. \A i \in 1..Len(p) : i + d \in 1..Len(q) /\ p[i] = q[i + d] /\ i \in Nat
  BY <1>1 DEF Suffix
<1>3. \A i \in 1..Len(q) : i > d => i - d \in 1..Len(p) /\ (i - d) + d = i
  BY <1>1
<1>4. \A i, k \in 1..Len(q) : i > d /\ i < k => k > d
  BY <1>1
<1>5. \A i \in 1..Len(p) : i + d > d
  BY <1>1
<1> HIDE DEF d
<1>6. \A i \in About(p, j) : i + d \in About(q, j) /\ p[i] = q[i + d] /\ i \in Nat /\ i + d > d
  BY <1>2, <1>5, Zenon DEF About
<1>7. \A i \in About(q, j) : i > d => i - d \in About(p, j) /\ p[i - d] = q[i]
  <2> SUFFICES ASSUME NEW i \in About(q, j), i > d PROVE i - d \in About(p, j) /\ p[i - d] = q[i]
    OBVIOUS
  <2>1. i - d \in 1..Len(p) /\ (i - d) + d = i /\ q[i].job = j
    BY <1>3, Zenon DEF About
  <2>2. p[i - d] = q[i]
    BY <1>2, <2>1, Zenon
  <2>3. QED
    BY <2>1, <2>2, Zenon DEF About
<1>8. \A i \in About(q, j) : q[i] \in Notification /\ i \in Nat
  BY DEF About
<1>9. \A i, k \in About(q, j) : Turn(q[i]) < Turn(q[k]) => i < k
  <2> SUFFICES ASSUME NEW i \in About(q, j), NEW k \in About(q, j), Turn(q[i]) < Turn(q[k]), ~(i < k)
               PROVE  FALSE
    OBVIOUS
  <2>1. i = k \/ k < i
    BY <1>8
  <2>2. Turn(q[i]) \in Nat /\ Turn(q[k]) \in Nat
    BY <1>8, TurnOf
  <2>3. QED
    BY <2>1, <2>2 DEF QueueSound
<1>10. \A i \in About(p, j), k \in About(q, j) :
          Turn(p[i]) < Turn(q[k]) => k - d \in About(p, j) /\ p[k - d] = q[k]
  <2> SUFFICES ASSUME NEW i \in About(p, j), NEW k \in About(q, j), Turn(p[i]) < Turn(q[k])
               PROVE  k - d \in About(p, j) /\ p[k - d] = q[k]
    OBVIOUS
  <2>1. i + d < k /\ i \in Nat /\ k \in Nat
    BY <1>6, <1>8, <1>9, Zenon
  <2>2. k > d
    BY <1>1, <2>1
  <2>3. QED
    BY <1>7, <2>2
<1>11. ASSUME NEW i \in About(p, j), NEW k \in About(p, j), i < k PROVE Turn(p[i]) < Turn(p[k])
  <2>1. i + d < k + d
    BY <1>1, <1>6, <1>11
  <2>2. QED
    BY <1>6, <2>1, Zenon DEF QueueSound
<1>12. \A i \in Of(p, j, "Update") : p[i].index <= x
  BY <1>6, Zenon DEF QueueSound, Of
<1>13. \A i \in Of(p, j, "Finish") : p[i].progress = l
  BY <1>6, Zenon DEF QueueSound, Of
<1>14. ASSUME NEW i \in About(p, j), l # "Running" PROVE Of(p, j, "Finish") # {}
  <2>1. i + d \in About(q, j) /\ p[i] = q[i + d]
    BY <1>6
  <2>2. PICK k \in Of(q, j, "Finish") : TRUE
    BY <1>14, <2>1 DEF QueueSound
  <2>3. k \in About(q, j) /\ q[k] \in Notification /\ q[k].type = "Finish" /\ p[i] \in Notification
    BY <1>8, <2>1 DEF Of
  <2>4. p[i].type = "Finish" \/ Turn(p[i]) < Turn(q[k])
    BY <2>3, TurnOf
  <2>5. CASE p[i].type = "Finish"
    BY <2>5 DEF Of
  <2>6. CASE Turn(p[i]) < Turn(q[k])
    <3>1. k - d \in About(p, j) /\ p[k - d] = q[k]
      BY <1>10, <2>3, <2>6
    <3>2. k - d \in Of(p, j, "Finish")
      BY <2>3, <3>1, Zenon DEF Of
    <3>3. QED
      BY <3>2
  <2>7. QED
    BY <2>4, <2>5, <2>6
<1>15. ASSUME NEW i \in Of(p, j, "New") PROVE Of(p, j, "Start") # {}
  <2>1. i \in About(p, j) /\ i + d \in About(q, j) /\ p[i] = q[i + d] /\ p[i].type = "New"
    BY <1>6 DEF Of
  <2>2. i + d \in Of(q, j, "New")
    BY <2>1, Zenon DEF Of
  <2>3. PICK k \in Of(q, j, "Start") : TRUE
    BY <2>2 DEF QueueSound
  <2>4. k \in About(q, j) /\ q[k] \in Notification /\ q[k].type = "Start" /\ p[i] \in Notification
    BY <1>8, <2>1 DEF Of
  <2>5. Turn(p[i]) < Turn(q[k])
    BY <2>1, <2>4, TurnOf
  <2>6. k - d \in About(p, j) /\ p[k - d] = q[k]
    BY <1>10, <2>1, <2>4, <2>5
  <2>7. k - d \in Of(p, j, "Start")
    BY <2>4, <2>6, Zenon DEF Of
  <2>8. QED
    BY <2>7
<1>16. QED
  BY <1>11, <1>12, <1>13, <1>14, <1>15 DEF QueueSound

-----------------------------------------------------------------------------
(* What a queue makes of a job *)

\* Nothing is in a queue about a job that never ran, and no end of one that runs.
LEMMA QueueEnds ==
  ASSUME NEW q \in Seq(Notification), NEW j \in Job, NEW l, NEW x, QueueSound(q, j, l, x)
  PROVE  /\ l = None => About(q, j) = {}
         /\ l = "Running" => Of(q, j, "Finish") = {}
<1>1. \A i \in Of(q, j, "Finish") : q[i].progress \in Finished /\ q[i].progress = l
  <2>1. \A i \in Of(q, j, "Finish") : q[i] \in Notification /\ q[i].type = "Finish"
    BY DEF Of, About
  <2>2. QED
    BY <2>1, NoteFields DEF QueueSound
<1>2. QED
  BY <1>1, NoneApart DEF QueueSound

\* A notification sent about a job j, behind the ones that are there.
Appended(p, q, n) == p = q \o <<n>>

LEMMA AppendAbout ==
  ASSUME NEW q \in Seq(Notification), NEW n \in Notification, NEW p, Appended(p, q, n), NEW j \in Job
  PROVE  /\ p \in Seq(Notification) /\ Len(q) + 1 \in Nat /\ p[Len(q) + 1] = n
         /\ \A i \in About(q, j) : i < Len(q) + 1 /\ i \in Nat /\ p[i] = q[i] /\ q[i] \in Notification
         /\ n.job = j => About(p, j) = About(q, j) \cup {Len(q) + 1}
         /\ n.job # j => About(p, j) = About(q, j)
<1> DEFINE z == Len(q) + 1
<1>1. /\ p \in Seq(Notification) /\ Len(q) \in Nat /\ Len(p) = z /\ p[z] = n
      /\ \A i \in 1..Len(q) : p[i] = q[i] /\ q[i] \in Notification
  BY DEF Appended
<1>2. z \in Nat /\ z \in 1..z /\ \A i \in 1..z : i \in 1..Len(q) \/ i = z
  BY <1>1
<1>3. \A i \in 1..Len(q) : i < z /\ i \in Nat /\ i \in 1..z
  BY <1>1
<1> HIDE DEF z
<1>4. \A i \in About(q, j) : i < z /\ i \in Nat /\ p[i] = q[i] /\ q[i] \in Notification
  BY <1>1, <1>3, Zenon DEF About
<1>5. n.job = j => About(p, j) = About(q, j) \cup {z}
  <2> SUFFICES ASSUME n.job = j PROVE About(p, j) = About(q, j) \cup {z}
    OBVIOUS
  <2>1. \A i \in About(p, j) : i \in About(q, j) \/ i = z
    BY <1>1, <1>2, Zenon DEF About
  <2>2. \A i \in About(q, j) : i \in About(p, j)
    BY <1>1, <1>3, Zenon DEF About
  <2>3. z \in About(p, j)
    BY <1>1, <1>2, Zenon DEF About
  <2>4. QED
    BY <2>1, <2>2, <2>3, Zenon
<1>6. n.job # j => About(p, j) = About(q, j)
  <2> SUFFICES ASSUME n.job # j PROVE About(p, j) = About(q, j)
    OBVIOUS
  <2>1. \A i \in About(p, j) : i \in About(q, j)
    BY <1>1, <1>2, Zenon DEF About
  <2>2. \A i \in About(q, j) : i \in About(p, j)
    BY <1>1, <1>3, Zenon DEF About
  <2>3. QED
    BY <2>1, <2>2, Zenon
<1>7. QED
  BY <1>1, <1>2, <1>4, <1>5, <1>6 DEF z

\* The same notifications about a job, the same conclusions.
LEMMA SameAbout ==
  ASSUME NEW q, NEW p, NEW j, About(p, j) = About(q, j), \A i \in About(q, j) : p[i] = q[i],
         NEW v, NEW l, NEW x
  PROVE  /\ QueueSound(q, j, l, x) => QueueSound(p, j, l, x)
         /\ LeadsTo(q, j, v, l, x) => LeadsTo(p, j, v, l, x)
<1>1. \A type : Of(p, j, type) = Of(q, j, type)
  BY DEF Of
<1>2. \A type : \A i \in Of(q, j, type) : p[i] = q[i]
  BY DEF Of
<1>3. QueueSound(q, j, l, x) => QueueSound(p, j, l, x)
  BY <1>1, <1>2, Zenon DEF QueueSound
<1>4. LeadsTo(q, j, v, l, x) => LeadsTo(p, j, v, l, x)
  BY <1>1, <1>2, Zenon DEF LeadsTo
<1>5. QED
  BY <1>3, <1>4

LEMMA AppendOther ==
  ASSUME NEW q \in Seq(Notification), NEW n \in Notification, NEW p, Appended(p, q, n),
         NEW j \in Job, n.job # j, NEW v, NEW l, NEW x
  PROVE  /\ QueueSound(q, j, l, x) => QueueSound(p, j, l, x)
         /\ LeadsTo(q, j, v, l, x) => LeadsTo(p, j, v, l, x)
<1>1. About(p, j) = About(q, j) /\ \A i \in About(q, j) : p[i] = q[i]
  BY AppendAbout
<1>2. QED
  BY <1>1, SameAbout

AddedOf(p, q, n, z) ==
  /\ \A type : n.type = type => Of(p, n.job, type) = Of(q, n.job, type) \cup {z}
  /\ \A type : n.type # type => Of(p, n.job, type) = Of(q, n.job, type)

LEMMA AppendOf ==
  ASSUME NEW q \in Seq(Notification), NEW n \in Notification, NEW p, Appended(p, q, n),
         NEW z, z = Len(q) + 1
  PROVE  AddedOf(p, q, n, z)
<1> DEFINE j == n.job
<1>1. /\ About(p, j) = About(q, j) \cup {z} /\ p[z] = n
      /\ \A i \in About(q, j) : p[i] = q[i]
  BY AppendAbout, NoteFields
<1> HIDE DEF j
<1>2. \A type : n.type = type => Of(p, j, type) = Of(q, j, type) \cup {z}
  BY <1>1, Zenon DEF Of
<1>3. \A type : n.type # type => Of(p, j, type) = Of(q, j, type)
  BY <1>1, Zenon DEF Of
<1>4. QED
  BY <1>2, <1>3, Zenon DEF j, AddedOf

\* Notifications of a job are in order when the last one has the greatest turn.
LEMMA AppendOrder ==
  ASSUME NEW q \in Seq(Notification), NEW n \in Notification, NEW p, Appended(p, q, n),
         NEW j \in Job, n.job = j,
         \A i, k \in About(q, j) : i < k => Turn(q[i]) < Turn(q[k]),
         \A i \in About(q, j) : Turn(q[i]) < Turn(n)
  PROVE  \A i, k \in About(p, j) : i < k => Turn(p[i]) < Turn(p[k])
<1> DEFINE z == Len(q) + 1
<1>1. /\ About(p, j) = About(q, j) \cup {z} /\ p[z] = n /\ z \in Nat
      /\ \A i \in About(q, j) : p[i] = q[i] /\ i < z /\ i \in Nat
  BY AppendAbout
<1> HIDE DEF z
<1>2. SUFFICES ASSUME NEW i \in About(p, j), NEW k \in About(p, j), i < k
               PROVE  Turn(p[i]) < Turn(p[k])
  OBVIOUS
<1>3. i \in About(q, j)
  <2>1. CASE i = z
    <3>1. k < z \/ k = z
      BY <1>1
    <3>2. k \in Nat
      BY <1>1
    <3>3. QED
      BY <1>1, <1>2, <2>1, <3>1, <3>2
  <2>2. QED
    BY <1>1, <2>1
<1>4. CASE k = z
  BY <1>1, <1>3, <1>4, Zenon
<1>5. CASE k \in About(q, j)
  <2>1. Turn(q[i]) < Turn(q[k])
    BY <1>2, <1>3, <1>5
  <2>2. QED
    BY <1>1, <1>3, <1>5, <2>1, Zenon
<1>6. QED
  BY <1>1, <1>4, <1>5

LEMMA AppendUpdate ==
  ASSUME NEW q \in Seq(Notification), NEW n \in Notification, NEW p, Appended(p, q, n),
         NEW j \in Job, n.job = j, n.type = "Update", NEW x \in Nat, x < n.index,
         NEW v \in JobInfo \cup {None}, QueueSound(q, j, "Running", x)
  PROVE  /\ QueueSound(p, j, "Running", n.index)
         /\ LeadsTo(q, j, v, "Running", x) => LeadsTo(p, j, v, "Running", n.index)
<1> DEFINE z == Len(q) + 1
<1>1. /\ About(p, j) = About(q, j) \cup {z} /\ p[z] = n /\ z \in Nat
      /\ \A i \in About(q, j) : p[i] = q[i] /\ q[i] \in Notification
  BY AppendAbout
<1>2. /\ Of(p, j, "Update") = Of(q, j, "Update") \cup {z} /\ Of(p, j, "New") = Of(q, j, "New")
      /\ Of(p, j, "Start") = Of(q, j, "Start") /\ Of(p, j, "Finish") = Of(q, j, "Finish")
  <2>1. AddedOf(p, q, n, z)
    BY AppendOf
  <2>2. QED
    BY <2>1, Zenon DEF AddedOf
<1> HIDE DEF z
<1>3. Of(q, j, "Finish") = {}
  BY QueueEnds
<1>4. n.index \in 2..MaxIndex /\ Turn(n) = n.index
  BY NoteFields, TurnOf
<1>5. \A i \in Of(q, j, "Update") : p[i] = q[i] /\ q[i].index \in Nat /\ q[i].index <= x
  <2>1. \A i \in Of(q, j, "Update") : p[i] = q[i] /\ q[i] \in Notification /\ q[i].type = "Update"
    BY <1>1 DEF Of
  <2>2. QED
    BY <2>1, NoteFields DEF QueueSound
<1>6. \A i \in Of(q, j, "Update") : p[i].index <= n.index
  <2> SUFFICES ASSUME NEW i \in Of(q, j, "Update") PROVE p[i].index <= n.index
    OBVIOUS
  <2>1. q[i].index <= n.index
    BY <1>4, <1>5
  <2>2. QED
    BY <1>5, <2>1, Zenon
<1>7. \A i \in About(q, j) : Turn(q[i]) < Turn(n)
  <2> SUFFICES ASSUME NEW i \in About(q, j) PROVE Turn(q[i]) < n.index
    BY <1>4
  <2>1. q[i] \in Notification /\ q[i].type # "Finish"
    BY <1>1, <1>3 DEF Of
  <2>2. q[i].type = "Update" => q[i].index <= x
    BY <1>5 DEF Of
  <2>3. QED
    BY <1>4, <2>1, <2>2, TurnOf, NoteFields
<1>8. \A i, k \in About(p, j) : i < k => Turn(p[i]) < Turn(p[k])
  BY <1>7, AppendOrder DEF QueueSound
<1>9. n.index <= n.index
  BY <1>4
<1>10. \A i \in Of(p, j, "Update") : p[i].index <= n.index
  BY <1>1, <1>2, <1>6, <1>9, Zenon
<1>11. QueueSound(p, j, "Running", n.index)
  BY <1>2, <1>3, <1>8, <1>10, Zenon DEF QueueSound
<1>12. ASSUME LeadsTo(q, j, v, "Running", x) PROVE LeadsTo(p, j, v, "Running", n.index)
  <2>1. v # None => v.index <= n.index
    <3> SUFFICES ASSUME v # None PROVE v.index <= n.index
      OBVIOUS
    <3>1. v.index <= x
      BY <1>12 DEF LeadsTo
    <3>2. v.index \in Nat
      BY DEF JobInfo
    <3>3. QED
      BY <1>4, <3>1, <3>2
  <2>2. \E i \in Of(p, j, "Update") : p[i].index = n.index
    BY <1>1, <1>2, Zenon
  <2>3. v = None => Of(p, j, "New") # {}
    BY <1>2, <1>12, Zenon DEF LeadsTo
  <2>4. v # None => /\ v.progress \in {"Pending", "Running"}
                    /\ v.progress = "Pending" => Of(p, j, "Start") # {}
    BY <1>2, <1>12, Zenon DEF LeadsTo
  <2>5. "Running" # None
    BY NoneApart
  <2>6. QED
    BY <2>1, <2>2, <2>3, <2>4, <2>5, Zenon DEF LeadsTo
<1>13. QED
  BY <1>11, <1>12

LEMMA AppendFinish ==
  ASSUME NEW q \in Seq(Notification), NEW n \in Notification, NEW p, Appended(p, q, n),
         NEW j \in Job, n.job = j, n.type = "Finish", NEW x, NEW v, QueueSound(q, j, "Running", x)
  PROVE  QueueSound(p, j, n.progress, x) /\ LeadsTo(p, j, v, n.progress, x)
<1> DEFINE z == Len(q) + 1
<1>1. /\ About(p, j) = About(q, j) \cup {z} /\ p[z] = n /\ z \in Nat
      /\ \A i \in About(q, j) : p[i] = q[i] /\ q[i] \in Notification
  BY AppendAbout
<1>2. /\ Of(p, j, "Finish") = Of(q, j, "Finish") \cup {z} /\ Of(p, j, "New") = Of(q, j, "New")
      /\ Of(p, j, "Start") = Of(q, j, "Start") /\ Of(p, j, "Update") = Of(q, j, "Update")
  <2>1. AddedOf(p, q, n, z)
    BY AppendOf
  <2>2. QED
    BY <2>1, Zenon DEF AddedOf
<1> HIDE DEF z
<1>3. Of(q, j, "Finish") = {}
  BY QueueEnds
<1>4. \A i \in About(q, j) : Turn(q[i]) < Turn(n)
  <2> SUFFICES ASSUME NEW i \in About(q, j) PROVE Turn(q[i]) < Turn(n)
    OBVIOUS
  <2>1. q[i] \in Notification /\ q[i].type # "Finish"
    BY <1>1, <1>3 DEF Of
  <2>2. QED
    BY <2>1, TurnOf
<1>5. \A i, k \in About(p, j) : i < k => Turn(p[i]) < Turn(p[k])
  BY <1>4, AppendOrder DEF QueueSound
<1>6. \A i \in Of(p, j, "Update") : p[i].index <= x
  BY <1>1, <1>2, Zenon DEF QueueSound, Of
<1>7. \A i \in Of(p, j, "Finish") : p[i].progress = n.progress
  BY <1>1, <1>2, <1>3, Zenon
<1>8. Of(p, j, "Finish") # {}
  BY <1>2
<1>9. Of(p, j, "New") # {} => Of(p, j, "Start") # {}
  BY <1>2 DEF QueueSound
<1>10. QueueSound(p, j, n.progress, x)
  BY <1>5, <1>6, <1>7, <1>8, <1>9, Zenon DEF QueueSound
<1>11. n.progress # None /\ n.progress # "Running"
  BY NoteFields, NoneApart
<1>12. LeadsTo(p, j, v, n.progress, x)
  BY <1>8, <1>11, Zenon DEF LeadsTo
<1>13. QED
  BY <1>10, <1>12

LEMMA AppendRun ==
  ASSUME NEW q \in Seq(Notification), NEW n \in Notification, NEW p, Appended(p, q, n),
         NEW m \in Notification, NEW s, Appended(s, p, m),
         NEW j \in Job, n.job = j, n.type = "New", m.job = j, m.type = "Start",
         NEW x, QueueSound(q, j, None, x)
  PROVE  QueueSound(s, j, "Running", 0) /\ LeadsTo(s, j, None, "Running", 0)
<1> DEFINE y == Len(q) + 1
           z == Len(p) + 1
<1>1. About(q, j) = {} /\ \A type : Of(q, j, type) = {}
  BY QueueEnds DEF Of
<1>2. About(p, j) = {y} /\ p[y] = n /\ p \in Seq(Notification)
  BY <1>1, AppendAbout
<1>3. Of(p, j, "New") = {y} /\ Of(p, j, "Start") = {} /\ Of(p, j, "Update") = {}
      /\ Of(p, j, "Finish") = {}
  <2>1. AddedOf(p, q, n, y)
    BY AppendOf
  <2>2. \A type : /\ n.type = type => Of(p, j, type) = {y}
                  /\ n.type # type => Of(p, j, type) = {}
    BY <1>1, <2>1 DEF AddedOf
  <2>3. QED
    BY <2>2, Zenon
<1> HIDE DEF y
<1>4. /\ Of(s, j, "New") = {y} /\ Of(s, j, "Start") = {z} /\ Of(s, j, "Update") = {}
      /\ Of(s, j, "Finish") = {}
  <2>1. AddedOf(s, p, m, z)
    BY <1>2, AppendOf
  <2>2. Of(s, j, "Start") = Of(p, j, "Start") \cup {z}
    BY <2>1, Zenon DEF AddedOf
  <2>3. Of(s, j, "Start") = {z}
    BY <1>3, <2>2
  <2>4. QED
    BY <1>3, <2>1, <2>3, Zenon DEF AddedOf
<1> HIDE DEF z
<1>5. Turn(n) < Turn(m)
  BY TurnOf
<1>6. \A i, k \in About(s, j) : i < k => Turn(s[i]) < Turn(s[k])
  <2>1. \A i, k \in About(p, j) : i < k => Turn(p[i]) < Turn(p[k])
    <3>1. \A i, k \in About(q, j) : i < k => Turn(q[i]) < Turn(q[k])
      BY <1>1
    <3>2. \A i \in About(q, j) : Turn(q[i]) < Turn(n)
      BY <1>1
    <3>3. QED
      BY <3>1, <3>2, AppendOrder
  <2>2. \A i \in About(p, j) : Turn(p[i]) < Turn(m)
    BY <1>2, <1>5, Zenon
  <2>3. QED
    BY <1>2, <2>1, <2>2, AppendOrder
<1>7. Of(s, j, "New") # {} /\ Of(s, j, "Start") # {}
  BY <1>4
<1>8. QueueSound(s, j, "Running", 0)
  BY <1>4, <1>6, <1>7, Zenon DEF QueueSound
<1>9. LeadsTo(s, j, None, "Running", 0)
  BY <1>7, NoneApart, Zenon DEF LeadsTo
<1>10. QED
  BY <1>8, <1>9

\* Reading takes the first notification and leaves the others.
Taken(h, p, q) == q # <<>> /\ h = Head(q) /\ p = Tail(q)

LEMMA TailAbout ==
  ASSUME NEW q \in Seq(Notification), NEW h, NEW p, Taken(h, p, q), NEW j \in Job
  PROVE  /\ h = q[1] /\ h \in Notification /\ (h.job = j <=> 1 \in About(q, j))
         /\ \A i \in About(q, j) : i # 1 => i - 1 \in About(p, j) /\ p[i - 1] = q[i] /\ 1 < i
         /\ \A i \in About(p, j) : i + 1 \in About(q, j) /\ q[i + 1] = p[i] /\ i + 1 # 1
<1>1. Len(q) \in Nat /\ Len(q) > 0
  BY EmptySeq, LenProperties DEF Taken
<1>2. /\ h = q[1] /\ Len(p) = Len(q) - 1
      /\ \A i \in 1..Len(p) : p[i] = q[i + 1]
  BY <1>1, HeadTailProperties DEF Taken
<1>3. q[1] \in Notification /\ 1 \in 1..Len(q)
  BY <1>1
<1>4. \A i \in 1..Len(q) : i # 1 => i - 1 \in 1..Len(p) /\ (i - 1) + 1 = i /\ 1 < i
  BY <1>1, <1>2
<1>5. \A i \in 1..Len(p) : i + 1 \in 1..Len(q) /\ i + 1 # 1
  BY <1>1, <1>2
<1>6. \A i \in About(q, j) : i # 1 => i - 1 \in About(p, j) /\ p[i - 1] = q[i] /\ 1 < i
  <2> SUFFICES ASSUME NEW i \in About(q, j), i # 1
               PROVE  i - 1 \in About(p, j) /\ p[i - 1] = q[i] /\ 1 < i
    OBVIOUS
  <2>1. i - 1 \in 1..Len(p) /\ (i - 1) + 1 = i /\ 1 < i /\ q[i].job = j
    BY <1>4, Zenon DEF About
  <2>2. p[i - 1] = q[i]
    BY <1>2, <2>1, Zenon
  <2>3. QED
    BY <2>1, <2>2, Zenon DEF About
<1>7. \A i \in About(p, j) : i + 1 \in About(q, j) /\ q[i + 1] = p[i] /\ i + 1 # 1
  BY <1>2, <1>5, Zenon DEF About
<1>8. h.job = j <=> 1 \in About(q, j)
  BY <1>2, <1>3, Zenon DEF About
<1>9. QED
  BY <1>2, <1>3, <1>6, <1>7, <1>8, Zenon

\* Whether some notification of a type is left, and the update of index x.
HasLeft(p, q, j, type) == Of(p, j, type) # {} <=> Of(q, j, type) # {}
HasUpdate(q, j, x) == \E i \in Of(q, j, "Update") : q[i].index = x

LEMMA TailOf ==
  ASSUME NEW q \in Seq(Notification), NEW h, NEW p, Taken(h, p, q), NEW j \in Job
  PROVE  /\ \A type : h.job # j \/ h.type # type => HasLeft(p, q, j, type)
         /\ \A x : h.job # j \/ h.type # "Update" =>
                     (HasUpdate(p, j, x) <=> HasUpdate(q, j, x))
         /\ \A x : h.index # x => (HasUpdate(q, j, x) => HasUpdate(p, j, x))
<1>1. /\ h = q[1] /\ (h.job = j <=> 1 \in About(q, j))
      /\ \A i \in About(q, j) : i # 1 => i - 1 \in About(p, j) /\ p[i - 1] = q[i]
      /\ \A i \in About(p, j) : i + 1 \in About(q, j) /\ q[i + 1] = p[i]
  BY TailAbout
<1>2. ASSUME NEW type, NEW i \in Of(q, j, type), i # 1 PROVE i - 1 \in Of(p, j, type) /\ p[i - 1] = q[i]
  BY <1>1, <1>2, Zenon DEF Of
<1>3. ASSUME NEW type, NEW i \in Of(p, j, type) PROVE i + 1 \in Of(q, j, type) /\ q[i + 1] = p[i]
  BY <1>1, Zenon DEF Of
<1>4. ASSUME NEW type, h.job # j \/ h.type # type PROVE 1 \notin Of(q, j, type)
  BY <1>1, <1>4, Zenon DEF Of
<1>5. ASSUME NEW type, h.job # j \/ h.type # type PROVE HasLeft(p, q, j, type)
  BY <1>2, <1>3, <1>4, <1>5 DEF HasLeft
<1>6. ASSUME NEW x, NEW i \in Of(q, j, "Update"), i # 1, q[i].index = x PROVE HasUpdate(p, j, x)
  <2>1. i - 1 \in Of(p, j, "Update") /\ p[i - 1] = q[i]
    BY <1>2, <1>6
  <2>2. p[i - 1].index = x
    BY <1>6, <2>1, Zenon
  <2>3. QED
    BY <2>1, <2>2, Zenon DEF HasUpdate
<1>7. ASSUME NEW x, NEW i \in Of(p, j, "Update"), p[i].index = x PROVE HasUpdate(q, j, x)
  <2>1. i + 1 \in Of(q, j, "Update") /\ q[i + 1] = p[i]
    BY <1>3
  <2>2. q[i + 1].index = x
    BY <1>7, <2>1, Zenon
  <2>3. QED
    BY <2>1, <2>2, Zenon DEF HasUpdate
<1>8. ASSUME NEW x, h.job # j \/ h.type # "Update" PROVE HasUpdate(p, j, x) <=> HasUpdate(q, j, x)
  <2>1. ASSUME HasUpdate(q, j, x) PROVE HasUpdate(p, j, x)
    <3>1. PICK i \in Of(q, j, "Update") : q[i].index = x
      BY <2>1 DEF HasUpdate
    <3>2. i # 1
      BY <1>4, <1>8
    <3>3. QED
      BY <1>6, <3>1, <3>2
  <2>2. ASSUME HasUpdate(p, j, x) PROVE HasUpdate(q, j, x)
    BY <1>7, <2>2 DEF HasUpdate
  <2>3. QED
    BY <2>1, <2>2
<1>9. ASSUME NEW x, h.index # x, HasUpdate(q, j, x) PROVE HasUpdate(p, j, x)
  <2>1. PICK i \in Of(q, j, "Update") : q[i].index = x
    BY <1>9 DEF HasUpdate
  <2>2. i # 1
    BY <1>1, <1>9, <2>1
  <2>3. QED
    BY <1>6, <2>1, <2>2
<1>10. QED
  BY <1>5, <1>8, <1>9

LEMMA ForwardOther ==
  ASSUME NEW q \in Seq(Notification), NEW h, NEW p, Taken(h, p, q), NEW j \in Job, h.job # j,
         NEW v, NEW w, w = v \/ (w = None /\ v # None /\ v.progress \in Finished),
         NEW l, NEW x, LeadsTo(q, j, v, l, x)
  PROVE  LeadsTo(p, j, w, l, x)
<1>1. /\ HasLeft(p, q, j, "New") /\ HasLeft(p, q, j, "Start") /\ HasLeft(p, q, j, "Finish")
      /\ HasUpdate(p, j, x) <=> HasUpdate(q, j, x)
  BY TailOf, Zenon
<1>2. CASE w = v
  BY <1>1, <1>2, Zenon DEF LeadsTo, HasLeft, HasUpdate
<1>3. CASE w = None /\ v # None /\ v.progress \in Finished
  <2>1. l # "Running"
    BY <1>3 DEF LeadsTo, Finished
  <2>2. QED
    BY <1>3, <2>1, Zenon DEF LeadsTo
<1>4. QED
  BY <1>2, <1>3

\* The first notification brings whoever reads it no further than the queue
\* does, also when it repeats what is known.
LEMMA ForwardHead ==
  ASSUME NEW q \in Seq(Notification), NEW h, NEW p, Taken(h, p, q), NEW j \in Job, h.job = j,
         NEW v \in JobInfo \cup {None}, NEW w,
         ~IsNews(v, h) => w = v,
         IsNews(v, h) /\ h.type # "Finish" => w = Updated(v, h),
         IsNews(v, h) /\ h.type = "Finish" => w \in {None, Updated(v, h)},
         NEW l, NEW x \in Nat, QueueSound(q, j, l, x), LeadsTo(q, j, v, l, x)
  PROVE  LeadsTo(p, j, w, l, x)
<1>1. /\ h = q[1] /\ h \in Notification /\ 1 \in About(q, j)
      /\ \A i \in About(q, j) : i # 1 => i - 1 \in About(p, j) /\ p[i - 1] = q[i] /\ 1 < i
  BY TailAbout
<1>2. \A i \in About(q, j) : i # 1 => Turn(h) < Turn(q[i])
  BY <1>1 DEF QueueSound
<1>3. \A i \in About(q, j) : q[i] \in Notification
  BY DEF About
<1>4. /\ \A type : h.type # type => HasLeft(p, q, j, type)
      /\ h.type # "Update" => (HasUpdate(p, j, x) <=> HasUpdate(q, j, x))
      /\ h.index # x => (HasUpdate(q, j, x) => HasUpdate(p, j, x))
  <2>1. /\ \A type : h.job # j \/ h.type # type => HasLeft(p, q, j, type)
        /\ \A y : h.job # j \/ h.type # "Update" => (HasUpdate(p, j, y) <=> HasUpdate(q, j, y))
        /\ \A y : h.index # y => (HasUpdate(q, j, y) => HasUpdate(p, j, y))
    BY TailOf
  <2>2. QED
    BY <2>1, Zenon
<1>5. CASE l # "Running"
  <2>1. Of(q, j, "Finish") # {} /\ l # None
    <3>1. Of(q, j, "Finish") # {}
      BY <1>1, <1>5 DEF QueueSound
    <3>2. QED
      BY <1>1, <3>1, QueueEnds
  <2>2. ASSUME Of(p, j, "Finish") = {} PROVE w = None \/ w.progress \in Finished
    <3>1. h.type = "Finish"
      BY <1>4, <2>1, <2>2, Zenon DEF HasLeft
    <3>2. CASE IsNews(v, h)
      <4>1. w \in {None, Updated(v, h)}
        BY <3>1, <3>2
      <4>2. Updated(v, h).progress = h.progress /\ h.progress \in Finished
        BY <1>1, <3>1, <3>2, UpdatedInfo, NoteFields
      <4>3. QED
        BY <4>1, <4>2, Zenon
    <3>3. CASE ~IsNews(v, h)
      <4>1. v = None \/ v.progress \in Finished
        BY <3>1, <3>3 DEF IsNews
      <4>2. QED
        BY <3>3, <4>1, Zenon
    <3>4. QED
      BY <3>2, <3>3
  <2>3. QED
    BY <1>5, <2>1, <2>2, Zenon DEF LeadsTo
<1>6. CASE l = "Running"
  <2>1. h.type # "Finish"
    <3>1. Of(q, j, "Finish") = {}
      BY <1>6, QueueEnds
    <3>2. QED
      BY <1>1, <3>1 DEF Of
  <2>2. /\ v = None => Of(q, j, "New") # {}
        /\ v # None => /\ v.progress \in {"Pending", "Running"} /\ v.index <= x
                       /\ v.progress = "Pending" => Of(q, j, "Start") # {}
        /\ x = 0 \/ (v # None /\ v.index = x) \/ HasUpdate(q, j, x)
    BY <1>6 DEF LeadsTo, HasUpdate
  <2>3. v # None => v \in JobInfo /\ v.index \in Nat
    BY DEF JobInfo
  <2>4. SUFFICES /\ w = None => Of(p, j, "New") # {}
                 /\ w # None => /\ w.progress \in {"Pending", "Running"} /\ w.index <= x
                                /\ w.progress = "Pending" => Of(p, j, "Start") # {}
                 /\ x = 0 \/ (w # None /\ w.index = x) \/ HasUpdate(p, j, x)
    BY <1>6, NoneApart, Zenon DEF LeadsTo, HasUpdate
  <2>5. CASE h.type = "New"
    <3>1. HasUpdate(p, j, x) <=> HasUpdate(q, j, x)
      BY <1>4, <2>5, Zenon
    <3>2. Of(q, j, "Start") # {} /\ Of(p, j, "Start") # {}
      <4>1. Of(q, j, "New") # {}
        BY <1>1, <2>5 DEF Of
      <4>2. Of(q, j, "Start") # {}
        BY <4>1 DEF QueueSound
      <4>3. QED
        BY <1>4, <2>5, <4>2, Zenon DEF HasLeft
    <3>3. CASE v = None
      <4>1. IsNews(v, h)
        BY <2>5, <3>3 DEF IsNews
      <4>2. w # None /\ w.progress = "Pending" /\ w.index = 0
        BY <1>1, <2>5, <4>1, UpdatedInfo
      <4>3. QED
        BY <2>2, <3>1, <3>2, <3>3, <4>2
    <3>4. CASE v # None
      <4>1. w = v
        BY <2>5, <3>4 DEF IsNews
      <4>2. QED
        BY <2>2, <3>1, <3>2, <3>4, <4>1, Zenon
    <3>5. QED
      BY <3>3, <3>4
  <2>6. CASE h.type # "New"
    <3>1. Of(q, j, "New") = {}
      <4> SUFFICES ASSUME NEW i \in Of(q, j, "New") PROVE FALSE
        OBVIOUS
      <4>1. i \in About(q, j) /\ q[i].type = "New" /\ i # 1
        BY <1>1, <2>6 DEF Of
      <4>2. QED
        BY <1>1, <1>2, <1>3, <4>1, TurnOf
    <3>2. v # None /\ v \in JobInfo
      BY <2>2, <3>1
    <3>3. CASE h.type = "Start"
      <4>1. HasUpdate(p, j, x) <=> HasUpdate(q, j, x)
        BY <1>4, <3>3, Zenon
      <4>2. CASE v.progress = "Pending"
        <5>1. IsNews(v, h)
          BY <3>2, <3>3, <4>2 DEF IsNews
        <5>2. w # None /\ w.progress = "Running" /\ w.index = v.index
          BY <1>1, <2>1, <3>3, <5>1, UpdatedInfo
        <5>3. QED
          BY <2>2, <3>2, <4>1, <5>2
      <4>3. CASE v.progress # "Pending"
        <5>1. w = v
          BY <3>3, <4>3 DEF IsNews
        <5>2. QED
          BY <2>2, <3>2, <4>1, <4>3, <5>1, Zenon
      <4>4. QED
        BY <4>2, <4>3
    <3>4. CASE h.type = "Update"
      <4>1. Of(q, j, "Start") = {}
        <5> SUFFICES ASSUME NEW i \in Of(q, j, "Start") PROVE FALSE
          OBVIOUS
        <5>1. i \in About(q, j) /\ q[i].type = "Start" /\ i # 1
          BY <1>1, <3>4 DEF Of
        <5>2. QED
          BY <1>1, <1>2, <1>3, <3>4, <5>1, TurnOf, NoteFields
      <4>2. v.progress = "Running"
        BY <2>2, <3>2, <4>1
      <4>3. h.index <= x /\ h.index \in Nat
        <5>1. 1 \in Of(q, j, "Update")
          BY <1>1, <3>4 DEF Of
        <5>2. h.index <= x
          BY <1>1, <5>1, Zenon DEF QueueSound
        <5>3. QED
          BY <1>1, <3>4, <5>2, NoteFields
      <4>4. CASE v.index < h.index
        <5>1. IsNews(v, h)
          BY <3>2, <3>4, <4>2, <4>4 DEF IsNews
        <5>2. w # None /\ w.progress = "Running" /\ w.index = h.index
          BY <1>1, <2>1, <3>4, <5>1, UpdatedInfo
        <5>3. v.index # x
          BY <2>3, <3>2, <4>3, <4>4
        <5>4. x = 0 \/ w.index = x \/ HasUpdate(p, j, x)
          BY <1>4, <2>2, <5>2, <5>3, Zenon
        <5>5. QED
          BY <4>3, <5>2, <5>4
      <4>5. CASE ~(v.index < h.index)
        <5>1. w = v
          BY <3>4, <4>5 DEF IsNews
        <5>2. h.index = x => v.index = x
          BY <2>2, <2>3, <3>2, <4>3, <4>5
        <5>3. x = 0 \/ v.index = x \/ HasUpdate(p, j, x)
          BY <1>4, <2>2, <5>2, Zenon
        <5>4. QED
          BY <2>2, <3>2, <4>2, <5>1, <5>3
      <4>6. QED
        BY <4>4, <4>5
    <3>5. QED
      BY <1>1, <2>1, <2>6, <3>3, <3>4, NoteFields
  <2>7. QED
    BY <2>5, <2>6
<1>7. QED
  BY <1>5, <1>6

-----------------------------------------------------------------------------
(* The client follows the jobs *)

\* A snapshot shows the active jobs as they are: none is trimmed.
LEMMA SnapshotShows ==
  ASSUME TypeOK, NEW j \in Job
  PROVE  InitFrom(ActiveJobs).jobs[j] = IF j \in Active(tracker) THEN tracker.jobs[j] ELSE None
<1> DEFINE t == [jobs |-> ActiveJobs, finished |-> <<>>]
<1>1. tracker.jobs \in [Job -> JobInfo \cup {None}]
  BY DEF TypeOK, Tracker
<1>2. ActiveJobs \in [Job -> JobInfo \cup {None}]
      /\ \A k \in Job : ActiveJobs[k] # None => ActiveJobs[k].progress \notin Finished
  BY <1>1 DEF ActiveJobs, Active
<1>3. t \in Tracker /\ t.jobs = ActiveJobs /\ t.finished = <<>>
  BY <1>2 DEF Tracker
<1> HIDE DEF t
<1>4. Known(t) = Active(t)
  BY <1>2, <1>3 DEF Known, Active
<1>5. FinishedListed(t)
  BY <1>3, <1>4 DEF FinishedListed
<1>6. Trim(t).jobs[j] = t.jobs[j] \/ (t.jobs[j] # None /\ t.jobs[j].progress \in Finished)
  BY <1>3, <1>5, TrimSound
<1>7. Trim(t).jobs[j] = ActiveJobs[j]
  BY <1>2, <1>3, <1>6
<1>8. QED
  BY <1>7 DEF InitFrom, t, ActiveJobs

\* A queue that has all the daemon's list has not received leads on from what
\* the list shows, whatever else it repeats.
LEMMA ResetLeads ==
  ASSUME TypeOK, NEW j \in Job, JobFollowed(j), NEW c \in Seq(Notification), Aligned(rx.queue, c),
         QueueSound(c, j, last[j], index[j]),
         \A i \in Unread(j) : i + Len(c) - Len(rx.queue) \in 1..Len(c),
         NEW v, v = IF j \in Active(tracker) THEN tracker.jobs[j] ELSE None
  PROVE  LeadsTo(c, j, v, last[j], index[j])
<1> DEFINE info == tracker.jobs[j]
           k(i) == i + Len(c) - Len(rx.queue)
<1>1. info \in JobInfo \cup {None} /\ v = IF info # None /\ info.progress \notin Finished THEN info ELSE None
  BY DEF TypeOK, Tracker, Active, Known
<1>2. \A i \in Unread(j) : k(i) \in About(c, j) /\ c[k(i)] = rx.queue[i]
  <2> SUFFICES ASSUME NEW i \in Unread(j) PROVE k(i) \in About(c, j) /\ c[k(i)] = rx.queue[i]
    OBVIOUS
  <2>1. k(i) \in 1..Len(c) /\ i \in 1..Len(rx.queue) /\ rx.queue[i].job = j
    BY DEF Unread
  <2>2. rx.queue[i] = c[k(i)]
    BY <2>1 DEF Aligned
  <2> HIDE DEF k
  <2>3. QED
    BY <2>1, <2>2, Zenon DEF About
<1> HIDE DEF info, k
<1>3. \A type : UnreadOf(j, type) # {} => Of(c, j, type) # {}
  <2> SUFFICES ASSUME NEW type, NEW i \in UnreadOf(j, type) PROVE Of(c, j, type) # {}
    OBVIOUS
  <2>1. i \in Unread(j) /\ rx.queue[i].type = type
    BY DEF UnreadOf
  <2>2. k(i) \in Of(c, j, type)
    BY <1>2, <2>1, Zenon DEF Of
  <2>3. QED
    BY <2>2
<1>4. ASSUME NEW i \in UnreadOf(j, "Update"), rx.queue[i].index = index[j]
      PROVE  HasUpdate(c, j, index[j])
  <2>1. i \in Unread(j) /\ rx.queue[i].type = "Update"
    BY DEF UnreadOf
  <2>2. k(i) \in Of(c, j, "Update")
    BY <1>2, <2>1, Zenon DEF Of
  <2>3. c[k(i)].index = index[j]
    BY <1>2, <1>4, <2>1, Zenon
  <2>4. QED
    BY <2>2, <2>3, Zenon DEF HasUpdate
<1>5. CASE last[j] # "Running"
  <2>1. ASSUME last[j] = None PROVE v = None
    BY <1>1, <2>1, NeverRan DEF info
  <2>2. ASSUME Of(c, j, "Finish") = {} PROVE v = None
    <3>1. About(c, j) = {}
      BY <1>5, <2>2 DEF QueueSound
    <3>2. Unread(j) = {}
      BY <1>2, <3>1
    <3>3. InfoFinal(j)
      BY <1>5, <3>2 DEF JobFollowed, Unsettled, UnreadOf
    <3>4. info = None \/ info.progress = last[j]
      BY <3>3 DEF InfoFinal, info
    <3>5. last[j] \in {None} \cup Finished
      BY <1>5 DEF TypeOK
    <3>6. QED
      BY <1>1, <2>1, <3>4, <3>5
  <2>3. QED
    BY <1>5, <2>1, <2>2, Zenon DEF LeadsTo
<1>6. CASE last[j] = "Running"
  <2>1. InfoLeadsOn(j)
    BY <1>6, StillRuns
  <2>2. /\ info = None => UnreadOf(j, "New") # {}
        /\ info # None => /\ info.progress \in {"Pending", "Running"} /\ info.index <= index[j]
                          /\ info.progress = "Pending" => UnreadOf(j, "Start") # {}
        /\ \/ index[j] = 0
           \/ info # None /\ info.index = index[j]
           \/ \E i \in UnreadOf(j, "Update") : rx.queue[i].index = index[j]
    BY <2>1, Zenon DEF InfoLeadsOn, info
  <2>3. v = info
    BY <1>1, <2>2 DEF Finished
  <2>4. index[j] = 0 \/ (v # None /\ v.index = index[j]) \/ HasUpdate(c, j, index[j])
    BY <1>4, <2>2, <2>3
  <2>5. /\ v = None => Of(c, j, "New") # {}
        /\ v # None => /\ v.progress \in {"Pending", "Running"} /\ v.index <= index[j]
                       /\ v.progress = "Pending" => Of(c, j, "Start") # {}
    BY <1>3, <2>2, <2>3, Zenon
  <2>6. QED
    BY <1>6, <2>4, <2>5, NoneApart, Zenon DEF LeadsTo, HasUpdate
<1>7. QED
  BY <1>5, <1>6

Extended(all, c, notes) == all = c \o notes

\* A broadcast to a client, given what its queue becomes.
LEMMA SendClient ==
  ASSUME BoundInv, ClientInv, NEW notes \in Seq(Notification), Send(notes), client.pc # "off",
         UNCHANGED <<following, missed>>,
         NEW all, Extended(all, client.rx.queue, notes),
         \A j \in Job \ reran' : QueueSound(all, j, last'[j], index'[j]),
         following /\ ~rx.lagged /\ client.pc = "on" /\ ~client.rx.lagged =>
           \A j \in Job \ (reran' \cup missed) :
             LeadsTo(all, j, client.tracker.jobs[j], last'[j], index'[j])
  PROVE  ClientInv'
<1> DEFINE q == client.rx.queue
           r == Received(client.rx, notes)
<1>1. /\ client \in [pc : {"off", "reset", "on"}, rx : Receiver, tracker : Tracker]
      /\ rx \in Receiver /\ TypeOK
  BY DEF BoundInv, TypeOK
<1>2. client.rx \in Receiver /\ q \in Seq(Notification) /\ rx.queue \in Seq(Notification)
      /\ all \in Seq(Notification) /\ client.rx.lagged \in BOOLEAN
  <2>1. client.rx \in Receiver
    BY <1>1
  <2>2. q \in Seq(Notification) /\ rx.queue \in Seq(Notification) /\ client.rx.lagged \in BOOLEAN
    BY <1>1, <2>1 DEF Receiver
  <2>3. QED
    BY <2>1, <2>2 DEF Extended
<1>3. client.rx.lagged => Len(q) = Capacity
  BY DEF ClientInv
<1>4. r \in Receiver /\ r.queue \in Seq(Notification) /\ (~r.lagged => ~client.rx.lagged /\ r.queue = all)
  <2>1. r \in Receiver /\ (~r.lagged => ~client.rx.lagged /\ r.queue = q \o notes)
    BY <1>2, ReceivedAll
  <2> HIDE DEF r
  <2>2. QED
    BY <2>1 DEF Receiver, Extended
<1>5. Suffix(r.queue, all) /\ (r.lagged => Len(r.queue) = Capacity)
  BY <1>2, <1>3, ReceivedSuffix DEF Extended
<1>6. client' = [client EXCEPT !.rx = r]
  BY DEF Send
<1> HIDE DEF r
<1>7. client'.pc = client.pc /\ client'.rx = r /\ client'.tracker = client.tracker
  BY <1>1, <1>6
<1>8. following /\ ~rx'.lagged => ~rx.lagged /\ rx'.queue = rx.queue \o notes
  BY <1>1, SendTypes
<1>9. \A j \in Job \ reran' : QueueSound(r.queue, j, last'[j], index'[j])
  BY <1>2, <1>4, <1>5, SuffixSound
<1>10. ASSUME following, ~rx'.lagged PROVE Aligned(rx'.queue, r.queue)
  <2> DEFINE R == rx.queue \o notes
  <2>1. R \in Seq(Notification) /\ rx'.queue = R /\ ~rx.lagged
    BY <1>2, <1>8, <1>10
  <2>2. Aligned(rx.queue, q)
    BY <1>10, <2>1 DEF ClientInv
  <2>3. Aligned(R, all)
    BY <1>2, <2>2, AlignedConcat DEF Extended
  <2> HIDE DEF R
  <2>4. Aligned(R, r.queue)
    BY <1>2, <1>4, <1>5, <2>1, <2>3, AlignedRight
  <2>5. QED
    BY <2>1, <2>4, Zenon
<1>11. ASSUME following, ~rx'.lagged, client.pc = "on", ~r.lagged
       PROVE  \A j \in Job \ (reran' \cup missed) :
                LeadsTo(r.queue, j, client.tracker.jobs[j], last'[j], index'[j])
  BY <1>4, <1>8, <1>11, Zenon
<1>12. client'.pc # "off"
  BY <1>7
<1>13. (client'.rx.lagged <=> r.lagged) /\ client'.rx.queue = r.queue
  BY <1>7, Zenon
<1>14. QED
  BY <1>5, <1>7, <1>9, <1>10, <1>11, <1>12, <1>13, Zenon DEF ClientInv

LEMMA TwoAppended ==
  ASSUME NEW q \in Seq(Notification), NEW n \in Notification, NEW m \in Notification
  PROVE  (q \o <<n>>) \o <<m>> = q \o <<n, m>>
<1> DEFINE a == (q \o <<n>>) \o <<m>>
           b == q \o <<n, m>>
<1>1. a \in Seq(Notification) /\ b \in Seq(Notification) /\ Len(a) = Len(q) + 2 /\ Len(b) = Len(q) + 2
  OBVIOUS
<1>2. \A i \in 1..(Len(q) + 2) : a[i] = b[i]
  OBVIOUS
<1> HIDE DEF a, b
<1>3. a = b
  BY <1>1, <1>2, SeqEqual
<1>4. QED
  BY <1>3 DEF a, b

LEMMA ClientRun ==
  ASSUME BoundInv, ClientInv, NEW t \in Task, NEW j \in Job, Run(t, j), client.pc # "off"
  PROVE  ClientInv'
<1> DEFINE n == [type |-> "New", job |-> j]
           m == [type |-> "Start", job |-> j]
           q == client.rx.queue
           p == q \o <<n>>
           s == p \o <<m>>
<1>1. n \in Notification /\ n.type = "New" /\ n.job = j
      /\ m \in Notification /\ m.type = "Start" /\ m.job = j
  BY DEF Notification
<1>2. Send(<<n, m>>) /\ UNCHANGED <<following, missed>> /\ index' = [index EXCEPT ![j] = 0]
      /\ last' = [last EXCEPT ![j] = "Running"] /\ reran' = reran \cup {k \in {j} : last[j] # None}
  BY DEF Run, Sent
<1> HIDE DEF n, m
<1>3. <<n, m>> \in Seq(Notification) /\ q \in Seq(Notification)
  <2>1. client.rx \in Receiver
    BY DEF BoundInv, TypeOK
  <2>2. QED
    BY <1>1, <2>1 DEF Receiver
<1>4. Appended(p, q, n) /\ Appended(s, p, m) /\ Extended(s, q, <<n, m>>) /\ p \in Seq(Notification)
  <2> HIDE DEF q
  <2>1. p \in Seq(Notification)
    BY <1>1, <1>3
  <2>2. s = q \o <<n, m>>
    BY <1>1, <1>3, TwoAppended
  <2>3. QED
    BY <2>1, <2>2, Zenon DEF Appended, Extended
<1> HIDE DEF q, p, s
<1>5. ASSUME NEW k \in Job \ reran'
      PROVE  /\ QueueSound(s, k, last'[k], index'[k])
             /\ LeadsTo(q, k, client.tracker.jobs[k], last[k], index[k]) =>
                  LeadsTo(s, k, client.tracker.jobs[k], last'[k], index'[k])
  <2>1. QueueSound(q, k, last[k], index[k])
    BY <1>2, <1>5 DEF ClientInv, q
  <2>2. CASE k = j
    <3>1. last[j] = None /\ last'[j] = "Running" /\ index'[j] = 0
      BY <1>2, <1>5, <2>2 DEF BoundInv, TypeOK
    <3>2. QueueSound(s, j, "Running", 0) /\ LeadsTo(s, j, None, "Running", 0)
      BY <1>1, <1>3, <1>4, <2>1, <2>2, <3>1, AppendRun
    <3>3. LeadsTo(q, j, client.tracker.jobs[j], last[j], index[j]) => client.tracker.jobs[j] = None
      BY <3>1 DEF LeadsTo
    <3>4. QED
      BY <2>2, <3>1, <3>2, <3>3, Zenon
  <2>3. CASE k # j
    <3>1. last'[k] = last[k] /\ index'[k] = index[k]
      BY <1>2, <2>3 DEF BoundInv, TypeOK
    <3>2. /\ QueueSound(p, k, last[k], index[k])
          /\ LeadsTo(q, k, client.tracker.jobs[k], last[k], index[k]) =>
               LeadsTo(p, k, client.tracker.jobs[k], last[k], index[k])
      BY <1>1, <1>3, <1>4, <2>1, <2>3, AppendOther
    <3>3. /\ QueueSound(s, k, last[k], index[k])
          /\ LeadsTo(p, k, client.tracker.jobs[k], last[k], index[k]) =>
               LeadsTo(s, k, client.tracker.jobs[k], last[k], index[k])
      BY <1>1, <1>4, <2>3, <3>2, AppendOther
    <3>4. QED
      BY <3>1, <3>2, <3>3, Zenon
  <2>4. QED
    BY <2>2, <2>3
<1>6. ASSUME following /\ ~rx.lagged /\ client.pc = "on" /\ ~client.rx.lagged
      PROVE  \A k \in Job \ (reran' \cup missed) :
               LeadsTo(s, k, client.tracker.jobs[k], last'[k], index'[k])
  <2> SUFFICES ASSUME NEW k \in Job \ (reran' \cup missed)
               PROVE  LeadsTo(s, k, client.tracker.jobs[k], last'[k], index'[k])
    OBVIOUS
  <2>1. k \in Job \ (reran \cup missed) /\ k \in Job \ reran'
    BY <1>2
  <2>2. LeadsTo(q, k, client.tracker.jobs[k], last[k], index[k])
    BY <1>6, <2>1, Zenon DEF ClientInv, q
  <2>3. QED
    BY <1>5, <2>1, <2>2
<1>7. Extended(s, client.rx.queue, <<n, m>>)
  BY <1>4 DEF q
<1>8. QED
  BY <1>2, <1>3, <1>5, <1>6, <1>7, SendClient

\* The part that Progress and Finish have in common.
LEMMA ClientSent ==
  ASSUME BoundInv, ClientInv, client.pc # "off", NEW n \in Notification, Send(<<n>>),
         UNCHANGED <<following, missed, reran>>,
         NEW p, Appended(p, client.rx.queue, n),
         \A k \in Job \ {n.job} : last'[k] = last[k] /\ index'[k] = index[k],
         n.job \notin reran =>
           /\ QueueSound(p, n.job, last'[n.job], index'[n.job])
           /\ LeadsTo(client.rx.queue, n.job, client.tracker.jobs[n.job], last[n.job], index[n.job]) =>
                LeadsTo(p, n.job, client.tracker.jobs[n.job], last'[n.job], index'[n.job])
  PROVE  ClientInv'
<1> DEFINE q == client.rx.queue
<1>1. q \in Seq(Notification)
  <2>1. client.rx \in Receiver
    BY DEF BoundInv, TypeOK
  <2>2. QED
    BY <2>1 DEF Receiver
<1>2. <<n>> \in Seq(Notification) /\ Extended(p, q, <<n>>)
  BY DEF Extended, Appended
<1>3. Appended(p, q, n)
  OBVIOUS
<1>4. ASSUME NEW k \in Job \ reran
      PROVE  /\ QueueSound(p, k, last'[k], index'[k])
             /\ LeadsTo(q, k, client.tracker.jobs[k], last[k], index[k]) =>
                  LeadsTo(p, k, client.tracker.jobs[k], last'[k], index'[k])
  <2>1. QueueSound(q, k, last[k], index[k])
    BY <1>4 DEF ClientInv
  <2> HIDE DEF q
  <2>2. CASE k = n.job
    BY <1>4, <2>2, Zenon DEF q
  <2>3. CASE k # n.job
    <3>1. last'[k] = last[k] /\ index'[k] = index[k]
      BY <2>3
    <3>2. /\ QueueSound(p, k, last[k], index[k])
          /\ LeadsTo(q, k, client.tracker.jobs[k], last[k], index[k]) =>
               LeadsTo(p, k, client.tracker.jobs[k], last[k], index[k])
      BY <1>1, <1>3, <1>4, <2>1, <2>3, AppendOther
    <3>3. QED
      BY <3>1, <3>2, Zenon
  <2>4. QED
    BY <2>2, <2>3
<1>5. ASSUME following /\ ~rx.lagged /\ client.pc = "on" /\ ~client.rx.lagged
      PROVE  \A k \in Job \ (reran' \cup missed) :
               LeadsTo(p, k, client.tracker.jobs[k], last'[k], index'[k])
  <2> SUFFICES ASSUME NEW k \in Job \ (reran' \cup missed)
               PROVE  LeadsTo(p, k, client.tracker.jobs[k], last'[k], index'[k])
    OBVIOUS
  <2>1. k \in Job \ (reran \cup missed) /\ k \in Job \ reran
    OBVIOUS
  <2>2. LeadsTo(q, k, client.tracker.jobs[k], last[k], index[k])
    BY <1>5, <2>1, Zenon DEF ClientInv
  <2> HIDE DEF q
  <2>3. QED
    BY <1>4, <2>1, <2>2
<1>6. \A k \in Job \ reran' : QueueSound(p, k, last'[k], index'[k])
  BY <1>4
<1>7. QED
  BY <1>2, <1>5, <1>6, SendClient

LEMMA ClientProgress ==
  ASSUME BoundInv, RunOnce, ClientInv, NEW t \in Task, NEW j \in Job, Progress(t, j), client.pc # "off"
  PROVE  ClientInv'
<1> DEFINE i == IF index[j] = 0 THEN 2 ELSE index[j] + 1
           n == [type |-> "Update", job |-> j, index |-> i]
           q == client.rx.queue
           p == q \o <<n>>
<1>1. i \in 2..MaxIndex /\ index' = [index EXCEPT ![j] = i] /\ Send(<<n>>) /\ index[j] < i
      /\ index[j] \in Nat /\ UNCHANGED <<following, missed, reran, last>> /\ <<t, j>> \in running
  BY DEF Progress, Sent, BoundInv, TypeOK
<1> HIDE DEF i
<1>2. n \in Notification /\ n.job = j /\ n.type = "Update" /\ n.index = i
  BY <1>1 DEF Notification
<1> HIDE DEF n
<1>3. Appended(p, q, n)
  BY DEF Appended
<1> HIDE DEF p
<1>4. q \in Seq(Notification) /\ client.tracker \in Tracker
  <2>1. client.rx \in Receiver /\ client.tracker \in Tracker
    BY DEF BoundInv, TypeOK
  <2>2. QED
    BY <2>1 DEF Receiver
<1>5. client.tracker.jobs[j] \in JobInfo \cup {None}
  BY <1>4 DEF Tracker
<1>6. \A k \in Job \ {n.job} : last'[k] = last[k] /\ index'[k] = index[k]
  BY <1>1, <1>2 DEF BoundInv, TypeOK
<1>7. ASSUME j \notin reran
      PROVE  /\ QueueSound(p, j, last'[j], index'[j])
             /\ LeadsTo(q, j, client.tracker.jobs[j], last[j], index[j]) =>
                  LeadsTo(p, j, client.tracker.jobs[j], last'[j], index'[j])
  <2>1. last[j] = "Running" /\ last'[j] = "Running" /\ index'[j] = i
    BY <1>1, <1>7 DEF RunOnce, BoundInv, TypeOK
  <2>2. QueueSound(q, j, "Running", index[j])
    BY <1>7, <2>1 DEF ClientInv
  <2> HIDE DEF q
  <2>3. /\ QueueSound(p, j, "Running", n.index)
        /\ LeadsTo(q, j, client.tracker.jobs[j], "Running", index[j]) =>
             LeadsTo(p, j, client.tracker.jobs[j], "Running", n.index)
    BY <1>1, <1>2, <1>3, <1>4, <1>5, <2>2, AppendUpdate
  <2>4. QED
    BY <1>2, <2>1, <2>3, Zenon
<1>8. QED
  BY <1>1, <1>2, <1>3, <1>6, <1>7, ClientSent

LEMMA ClientFinish ==
  ASSUME BoundInv, RunOnce, ClientInv, NEW t \in Task, NEW j \in Job,
         NEW result \in {"Done", "Abandoned", "Failed"}, Finish(t, j, result), client.pc # "off"
  PROVE  ClientInv'
<1> DEFINE f == IF result = "Failed" /\ t \in cancelled THEN "Cancelled" ELSE result
           n == [type |-> "Finish", job |-> j, progress |-> f]
           q == client.rx.queue
           p == q \o <<n>>
<1>1. f \in Finished /\ last' = [last EXCEPT ![j] = f] /\ Send(<<n>>)
      /\ UNCHANGED <<following, missed, reran, index>> /\ <<t, j>> \in running
  BY DEF Finish, Finished, Sent
<1> HIDE DEF f
<1>2. n \in Notification /\ n.job = j /\ n.type = "Finish" /\ n.progress = f
  BY <1>1 DEF Notification
<1> HIDE DEF n
<1>3. Appended(p, q, n)
  BY DEF Appended
<1> HIDE DEF p
<1>4. q \in Seq(Notification)
  <2>1. client.rx \in Receiver
    BY DEF BoundInv, TypeOK
  <2>2. QED
    BY <2>1 DEF Receiver
<1>5. \A k \in Job \ {n.job} : last'[k] = last[k] /\ index'[k] = index[k]
  BY <1>1, <1>2 DEF BoundInv, TypeOK
<1>6. ASSUME j \notin reran
      PROVE  /\ QueueSound(p, j, last'[j], index'[j])
             /\ LeadsTo(p, j, client.tracker.jobs[j], last'[j], index'[j])
  <2>1. last[j] = "Running" /\ last'[j] = f /\ index'[j] = index[j]
    BY <1>1, <1>6 DEF RunOnce, BoundInv, TypeOK
  <2>2. QueueSound(q, j, "Running", index[j])
    BY <1>6, <2>1 DEF ClientInv
  <2> HIDE DEF q
  <2>3. QueueSound(p, j, n.progress, index[j]) /\ LeadsTo(p, j, client.tracker.jobs[j], n.progress, index[j])
    BY <1>2, <1>3, <1>4, <2>2, AppendFinish
  <2>4. QED
    BY <1>2, <2>1, <2>3, Zenon
<1>7. QED
  BY <1>1, <1>2, <1>3, <1>5, <1>6, ClientSent

LEMMA ClientSame ==
  ASSUME ClientInv, UNCHANGED <<rx, client, following, last, index, missed>>, reran \subseteq reran'
  PROVE  ClientInv'
  BY Zenon DEF ClientInv

LEMMA ClientOff == ASSUME client'.pc = "off" PROVE ClientInv'
  BY DEF ClientInv

\* The daemon's list reads on; the client's queue is as before.
LEMMA ClientWaits ==
  ASSUME BoundInv, ClientInv, Follow
  PROVE  ClientInv'
<1>1. /\ following /\ ~rx.lagged /\ rx.queue # <<>> /\ rx' = [rx EXCEPT !.queue = Tail(@)]
      /\ UNCHANGED <<client, following, last, index, missed, reran>>
  BY DEF Follow, churten
<1>2. rx \in Receiver /\ client.rx \in Receiver
  BY DEF BoundInv, TypeOK
<1>3. rx.queue \in Seq(Notification) /\ client.rx.queue \in Seq(Notification)
  BY <1>2 DEF Receiver
<1>4. rx'.queue = Tail(rx.queue) /\ ~rx'.lagged
  BY <1>1, <1>2, TailTypes
<1>5. Suffix(Tail(rx.queue), rx.queue) /\ Tail(rx.queue) \in Seq(Notification)
  BY <1>1, <1>3, TailSuffix
<1>6. Aligned(rx.queue, client.rx.queue) => Aligned(Tail(rx.queue), client.rx.queue)
  BY <1>3, <1>5, AlignedLeft
<1>7. Aligned(rx.queue, client.rx.queue) => Aligned(rx'.queue, client.rx.queue)
  BY <1>4, <1>6, Zenon
<1>8. QED
  BY <1>1, <1>7, Zenon DEF ClientInv

LEMMA ClientSubscribes ==
  ASSUME BoundInv, Subscribe PROVE ClientInv'
<1>1. client'.pc = "reset" /\ client'.rx.queue = <<>> /\ ~client'.rx.lagged
  BY DEF Subscribe, NoClient, NoMessage
<1>2. \A j, l, x : QueueSound(<<>>, j, l, x)
  BY DEF QueueSound, About, Of
<1>3. \A r : Aligned(r, <<>>)
  BY DEF Aligned
<1>4. QED
  BY <1>1, <1>2, <1>3, Zenon DEF ClientInv

\* Snapshot and CatchUp.
LEMMA ClientReset ==
  ASSUME BoundInv, FollowInv, ClientInv, client.pc # "off", NEW r, SendReset(r),
         r.queue = client.rx.queue, client.rx.lagged \/ ~r.lagged, r.lagged => Len(r.queue) = Capacity,
         UNCHANGED <<rx, tracker, following, last, index, reran>>,
         ~r.lagged => client.rx.lagged \/ TooEarly \subseteq missed'
  PROVE  ClientInv'
<1> DEFINE c == client.rx.queue
<1>1. client'.pc = "on" /\ client'.rx = r /\ client'.tracker = InitFrom(ActiveJobs)
  BY DEF SendReset
<1>2. rx \in Receiver /\ client.rx \in Receiver /\ TypeOK /\ Len(rx.queue) <= Capacity
  BY DEF BoundInv, TypeOK
<1>3. rx.queue \in Seq(Notification) /\ c \in Seq(Notification) /\ Len(rx.queue) \in Nat /\ Len(c) \in Nat
  BY <1>2, LenProperties DEF Receiver
<1>4. /\ \A j \in Job \ reran : QueueSound(c, j, last[j], index[j])
      /\ client.rx.lagged => Len(c) = Capacity
      /\ following /\ ~rx.lagged => Aligned(rx.queue, c)
  BY DEF ClientInv
<1>5. ASSUME following, ~rx.lagged, ~r.lagged, NEW j \in Job \ (reran \cup missed')
      PROVE  LeadsTo(c, j, InitFrom(ActiveJobs).jobs[j], last[j], index[j])
  <2> DEFINE v == InitFrom(ActiveJobs).jobs[j]
  <2>1. v = IF j \in Active(tracker) THEN tracker.jobs[j] ELSE None
    BY <1>2, SnapshotShows
  <2> HIDE DEF v
  <2>2. JobFollowed(j)
    BY <1>5 DEF FollowInv
  <2>3. ASSUME NEW i \in Unread(j) PROVE i + Len(c) - Len(rx.queue) \in 1..Len(c)
    <3>1. i \in 1..Len(rx.queue) /\ rx.queue[i].job = j
      BY DEF Unread
    <3>2. CASE client.rx.lagged
      <4>1. Len(rx.queue) <= Len(c)
        BY <1>2, <1>4, <3>2
      <4> HIDE DEF c
      <4>2. QED
        BY <1>3, <3>1, <4>1
    <3>3. CASE ~client.rx.lagged
      <4>1. j \notin TooEarly
        BY <1>5, <3>3
      <4>2. ~(i \in 1..(Len(rx.queue) - Len(c)))
        BY <3>1, <4>1 DEF TooEarly
      <4> HIDE DEF c
      <4>3. QED
        BY <1>3, <3>1, <4>2
    <3>4. QED
      BY <3>2, <3>3
  <2>4. QueueSound(c, j, last[j], index[j]) /\ Aligned(rx.queue, c)
    BY <1>4, <1>5
  <2> HIDE DEF c
  <2>5. LeadsTo(c, j, v, last[j], index[j])
    BY <1>2, <1>3, <2>1, <2>2, <2>3, <2>4, ResetLeads
  <2>6. QED
    BY <2>5 DEF v
<1>6. client'.rx.queue = c /\ (client'.rx.lagged <=> r.lagged) /\ client'.pc # "off"
  BY <1>1
<1> HIDE DEF c
<1>7. r.lagged => Len(c) = Capacity
  BY DEF c
<1>8. QED
  BY <1>1, <1>4, <1>5, <1>6, <1>7, Zenon DEF ClientInv

LEMMA ClientSnapshot ==
  ASSUME BoundInv, FollowInv, ClientInv, Snapshot \/ CatchUp
  PROVE  ClientInv'
<1>1. CASE Snapshot
  <2>1. client.pc # "off" /\ SendReset(client.rx)
        /\ UNCHANGED <<rx, tracker, following, last, index, reran>>
    BY <1>1 DEF Snapshot, churten
  <2>2. client.rx.lagged => Len(client.rx.queue) = Capacity
    BY <2>1 DEF ClientInv
  <2>3. ~client.rx.lagged => TooEarly \subseteq missed'
    BY <1>1 DEF Snapshot
  <2>4. QED
    BY <2>1, <2>2, <2>3, ClientReset
<1>2. CASE CatchUp
  <2> DEFINE r == [client.rx EXCEPT !.lagged = FALSE]
  <2>1. client.pc # "off" /\ client.rx.lagged /\ SendReset(r)
        /\ UNCHANGED <<rx, tracker, following, last, index, reran>>
    BY <1>2 DEF CatchUp, churten
  <2>2. client.rx \in Receiver
    BY DEF BoundInv, TypeOK
  <2>3. r.queue = client.rx.queue /\ ~r.lagged
    BY <2>2 DEF Receiver
  <2> HIDE DEF r
  <2>4. QED
    BY <2>1, <2>3, ClientReset
<1>3. QED
  BY <1>1, <1>2

LEMMA ClientForward ==
  ASSUME BoundInv, ClientInv, Forward PROVE ClientInv'
<1> DEFINE q == client.rx.queue
           h == Head(q)
           p == Tail(q)
           u == Update(client.tracker, h)
<1>1. /\ client.pc = "on" /\ ~client.rx.lagged /\ q # <<>>
      /\ client' = [client EXCEPT !.rx.queue = p, !.tracker = u]
      /\ UNCHANGED <<rx, following, last, index, missed, reran>>
  BY DEF Forward, churten
<1>2. /\ client \in [pc : {"off", "reset", "on"}, rx : Receiver, tracker : Tracker]
      /\ rx \in Receiver /\ TrackerSound(client.tracker)
  BY DEF BoundInv, TypeOK
<1>3. client.rx \in Receiver /\ client.tracker \in Tracker
  BY <1>2
<1>4. q \in Seq(Notification) /\ rx.queue \in Seq(Notification) /\ client.rx.lagged \in BOOLEAN
  BY <1>2, <1>3 DEF Receiver
<1>5. h \in Notification /\ p \in Seq(Notification) /\ Suffix(p, q) /\ Taken(h, p, q)
  BY <1>1, <1>3, <1>4, TailTypes, TailSuffix DEF Taken
<1> HIDE DEF u, p, h
<1>6. client'.pc = "on" /\ client'.rx.queue = p /\ ~client'.rx.lagged /\ client'.tracker = u
  BY <1>1, <1>2, <1>3 DEF Receiver
<1>7. \A j \in Job \ reran : QueueSound(q, j, last[j], index[j])
  BY <1>1 DEF ClientInv
<1> HIDE DEF q
<1>8. \A j \in Job \ reran : QueueSound(p, j, last[j], index[j])
  BY <1>4, <1>5, <1>7, SuffixSound
<1>9. following /\ ~rx.lagged => Aligned(rx.queue, p)
  <2>1. following /\ ~rx.lagged => Aligned(rx.queue, q)
    BY <1>1, Zenon DEF ClientInv, q
  <2>2. QED
    BY <1>4, <1>5, <2>1, AlignedRight
<1>10. ASSUME following, ~rx.lagged, NEW j \in Job \ (reran \cup missed)
       PROVE  LeadsTo(p, j, u.jobs[j], last[j], index[j])
  <2> DEFINE v == client.tracker.jobs[j]
             w == u.jobs[j]
  <2>1. LeadsTo(q, j, v, last[j], index[j])
    BY <1>1, <1>10, Zenon DEF ClientInv, q
  <2>2. v \in JobInfo \cup {None}
    BY <1>3 DEF Tracker
  <2>3. QueueSound(q, j, last[j], index[j]) /\ index[j] \in Nat
    BY <1>7 DEF BoundInv, TypeOK
  <2>4. CASE h.job = j
    <3>1. /\ ~IsNews(client.tracker.jobs[h.job], h) => u = client.tracker
          /\ IsNews(client.tracker.jobs[h.job], h) /\ h.type # "Finish" =>
               u.jobs[h.job] = Updated(client.tracker.jobs[h.job], h)
          /\ IsNews(client.tracker.jobs[h.job], h) /\ h.type = "Finish" =>
               u.jobs[h.job] \in {None, Updated(client.tracker.jobs[h.job], h)}
      BY <1>2, <1>3, <1>5, UpdateSound DEF u
    <3>2. /\ ~IsNews(v, h) => w = v
          /\ IsNews(v, h) /\ h.type # "Finish" => w = Updated(v, h)
          /\ IsNews(v, h) /\ h.type = "Finish" => w \in {None, Updated(v, h)}
      BY <2>4, <3>1, Zenon
    <3> HIDE DEF v, w
    <3>3. LeadsTo(p, j, w, last[j], index[j])
      BY <1>4, <1>5, <2>1, <2>2, <2>3, <2>4, <3>2, ForwardHead
    <3>4. QED
      BY <3>3 DEF w
  <2>5. CASE h.job # j
    <3>1. w = v \/ (w = None /\ v # None /\ v.progress \in Finished)
      BY <1>2, <1>3, <1>5, <2>5, UpdateSound DEF u
    <3> HIDE DEF v, w
    <3>2. LeadsTo(p, j, w, last[j], index[j])
      BY <1>4, <1>5, <2>1, <2>5, <3>1, ForwardOther
    <3>3. QED
      BY <3>2 DEF w
  <2>6. QED
    BY <2>4, <2>5
<1>11. client'.pc # "off" /\ rx' = rx /\ following' = following /\ last' = last /\ index' = index
       /\ missed' = missed /\ reran' = reran
  BY <1>1, <1>6
<1>12. QED
  BY <1>6, <1>8, <1>9, <1>10, <1>11, Zenon DEF ClientInv

LEMMA ClientStep ==
  ASSUME BoundInv, RunOnce, FollowInv, ClientInv, [Next]_vars
  PROVE  ClientInv'
<1>1. ASSUME NEW t \in Task, NEW j \in Job,
             \/ Run(t, j) \/ Progress(t, j)
             \/ \E result \in {"Done", "Abandoned", "Failed"} : Finish(t, j, result)
      PROVE  ClientInv'
  <2>1. CASE client.pc = "off"
    <3>1. client' = client
      BY <1>1, <2>1 DEF Run, Progress, Finish, Send
    <3>2. QED
      BY <2>1, <3>1, ClientOff
  <2>2. CASE client.pc # "off"
    BY <1>1, <2>2, ClientRun, ClientProgress, ClientFinish
  <2>3. QED
    BY <2>1, <2>2
<1>2. ASSUME Start \/ Shutdown \/ (\E t \in Task : End(t)) \/ UNCHANGED vars PROVE ClientInv'
  <2>1. UNCHANGED <<rx, client, following, last, index, missed>> /\ reran \subseteq reran'
    BY <1>2 DEF Start, Shutdown, End, Sent, vars, churten
  <2>2. QED
    BY <2>1, ClientSame
<1>3. ASSUME StopFollowing PROVE ClientInv'
  <2>1. UNCHANGED <<client, last, index, reran>> /\ ~following'
    BY <1>3 DEF StopFollowing, churten
  <2>2. QED
    BY <2>1, Zenon DEF ClientInv
<1>4. ASSUME Unsubscribe PROVE ClientInv'
  <2>1. client'.pc = "off"
    BY <1>4 DEF Unsubscribe, NoClient
  <2>2. QED
    BY <2>1, ClientOff
<1>5. QED
  BY <1>1, <1>2, <1>3, <1>4, ClientWaits, ClientSubscribes, ClientSnapshot, ClientForward DEF Next

\* Churten's invariant: the lists are sound, no job outside reran has two runs,
\* and what the list of recent jobs says of a job and what it has not received
\* of it make what really happened, as do what a client knows and its queue.
THEOREM InvCorrect == Spec => []ChurtenInv
<1>1. Init => ChurtenInv
  <2> SUFFICES ASSUME Init PROVE ChurtenInv
    OBVIOUS
  <2>1. client.pc = "off"
    BY DEF Init, NoClient
  <2>2. ClientInv
    BY <2>1 DEF ClientInv
  <2>3. QED
    BY <2>2, BoundInit, RunOnceInit, FollowInit DEF BoundInv, ChurtenInv
<1>2. ChurtenInv /\ [Next]_vars => ChurtenInv'
  <2> SUFFICES ASSUME ChurtenInv, [Next]_vars PROVE ChurtenInv'
    OBVIOUS
  <2>1. BoundInv /\ RunOnce /\ FollowInv /\ ClientInv
    BY DEF BoundInv, ChurtenInv
  <2>2. BoundInv'
    BY <2>1, BoundStep
  <2>3. RunOnce'
    BY <2>1, RunOnceStep DEF BoundInv
  <2>4. FollowInv'
    BY <2>1, <2>2, FollowStep DEF BoundInv
  <2>5. ClientInv'
    BY <2>1, ClientStep
  <2>6. QED
    BY <2>2, <2>3, <2>4, <2>5 DEF BoundInv, ChurtenInv
<1>3. QED
  BY <1>1, <1>2, PTL DEF Spec

\* The list of recent jobs follows the jobs: once it has received everything it
\* shows, of every job it has not trimmed, what happened last, however the
\* tasks, the notifications and the reader interleave.
THEOREM TrackerFollowsCorrect == Spec => []TrackerFollows
<1>1. ChurtenInv => TrackerFollows
  <2> SUFFICES ASSUME ChurtenInv, following, rx = NoMessage, NEW j \in Job \ reran
               PROVE  LET info == tracker.jobs[j]
                      IN IF info = None THEN last[j] \in {None} \cup Finished
                         ELSE info.progress = last[j] /\ (last[j] = "Running" => info.index = index[j])
    BY DEF TrackerFollows
  <2> DEFINE info == tracker.jobs[j]
  <2>1. rx.queue = <<>> /\ ~rx.lagged
    BY DEF NoMessage
  <2>2. JobFollowed(j)
    BY <2>1 DEF ChurtenInv, FollowInv
  <2>3. \A type : UnreadOf(j, type) = {}
    BY <2>1 DEF UnreadOf, Unread
  <2>4. last[j] \in {None, "Running"} \cup Finished /\ index[j] \in Nat
        /\ (info # None => info.index \in Nat)
    BY DEF ChurtenInv, TypeOK, Tracker, JobInfo
  <2>5. CASE last[j] = "Running"
    <3>1. InfoLeadsOn(j)
      BY <2>2, <2>5 DEF JobFollowed, Unsettled
    <3>2. info # None /\ info.progress = "Running" /\ info.index <= index[j]
          /\ (index[j] = 0 \/ info.index = index[j])
      BY <2>3, <3>1 DEF InfoLeadsOn
    <3>3. QED
      BY <2>4, <2>5, <3>2
  <2>6. CASE last[j] # "Running"
    <3>1. InfoFinal(j)
      BY <2>2, <2>3, <2>6 DEF JobFollowed, Unsettled
    <3>2. QED
      BY <2>4, <2>6, <3>1 DEF InfoFinal
  <2>7. QED
    BY <2>5, <2>6
<1>2. QED
  BY <1>1, InvCorrect, PTL

\* A client that has received everything agrees with the daemon about the active
\* jobs and how far they are, whatever it lost by lagging and although the
\* notifications that follow a snapshot repeat what is in it; only a job
\* announced just before the client subscribed can be missing.
THEOREM ClientFollowsCorrect == Spec => []ClientFollows
<1>1. ChurtenInv => ClientFollows
  <2> SUFFICES ASSUME ChurtenInv, following, rx = NoMessage, client.pc = "on", client.rx = NoMessage,
                      NEW j \in Job \ (reran \cup missed)
               PROVE  /\ j \in Active(client.tracker) <=> j \in Active(tracker)
                      /\ j \in Active(tracker) => client.tracker.jobs[j] = tracker.jobs[j]
    BY DEF ClientFollows
  <2> DEFINE v == client.tracker.jobs[j]
             info == tracker.jobs[j]
  <2>1. rx.queue = <<>> /\ ~rx.lagged /\ client.rx.queue = <<>> /\ ~client.rx.lagged
    BY DEF NoMessage
  <2>2. JobFollowed(j)
    BY <2>1 DEF ChurtenInv, FollowInv
  <2>3. LeadsTo(<<>>, j, v, last[j], index[j])
    BY <2>1, Zenon DEF ChurtenInv, ClientInv
  <2>4. (\A type : UnreadOf(j, type) = {}) /\ (\A type : Of(<<>>, j, type) = {})
    BY <2>1 DEF UnreadOf, Unread, Of, About
  <2>5. /\ index[j] \in Nat
        /\ info \in JobInfo \cup {None} /\ v \in JobInfo \cup {None}
    BY DEF ChurtenInv, TypeOK, Tracker
  <2>6. /\ j \in Active(tracker) <=> info # None /\ info.progress \notin Finished
        /\ j \in Active(client.tracker) <=> v # None /\ v.progress \notin Finished
    BY DEF Active, Known
  <2>7. CASE last[j] = "Running"
    <3>1. InfoLeadsOn(j)
      BY <2>2, <2>7 DEF JobFollowed, Unsettled
    <3>2. info # None /\ info.progress = "Running" /\ info.index <= index[j]
          /\ (index[j] = 0 \/ info.index = index[j])
      BY <2>4, <3>1 DEF InfoLeadsOn
    <3>3. v # None /\ v.progress = "Running" /\ v.index <= index[j]
          /\ (index[j] = 0 \/ v.index = index[j])
      BY <2>3, <2>4, <2>7 DEF LeadsTo
    <3>4. info.index = v.index
      <4>1. info.index \in Nat /\ v.index \in Nat
        BY <2>5, <3>2, <3>3 DEF JobInfo
      <4>2. QED
        BY <2>5, <3>2, <3>3, <4>1
    <3>5. v = info
      <4>1. v \in JobInfo /\ info \in JobInfo
        BY <2>5, <3>2, <3>3
      <4>2. QED
        BY <3>2, <3>3, <3>4, <4>1 DEF JobInfo
    <3>6. QED
      BY <2>6, <3>2, <3>5, NoneApart
  <2>8. CASE last[j] # "Running"
    <3>1. InfoFinal(j)
      BY <2>2, <2>4, <2>8 DEF JobFollowed, Unsettled
    <3>2. info = None \/ info.progress \in Finished
      BY <2>8, <3>1 DEF InfoFinal, ChurtenInv, TypeOK
    <3>3. v = None \/ v.progress \in Finished
      BY <2>3, <2>4, <2>8 DEF LeadsTo
    <3>4. QED
      BY <2>6, <3>2, <3>3
  <2>9. QED
    BY <2>7, <2>8
<1>2. QED
  BY <1>1, InvCorrect, PTL
=============================================================================
