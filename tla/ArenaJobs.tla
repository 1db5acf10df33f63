------------------------------- MODULE ArenaJobs ------------------------------
(***************************************************************************)
(* What the engine of an arena finds to do: build_job (realize-storage/src/*)
(* arena/engine.rs) on the tables of UnrealCache, and the jobs that change *)
(* what it finds (realize-core/src/consensus/jobs.rs, arena.rs).           *)
(*                                                                         *)
(* Engine takes the paths that have a job as a variable and assumes that a *)
(* transaction that gives a path a job marks it dirty.  JobsReachEngine    *)
(* states which transactions do.  Of a blob, all that counts here is       *)
(* whether it is complete and verified; Blobstore describes how it becomes *)
(* so.  One job runs at a time, and any time after it was built.           *)
(***************************************************************************)
EXTENDS UnrealCache

VARIABLES
  verified,     \* per arena, inodes of files whose blob is verified
  moved,        \* pairs <<arena, path>> realize has put a file at that the
                \* watcher has not added to the index yet
  job           \* the job being run, or None

jobVars == <<verified, moved, job>>
arenaVars == <<vars, jobVars>>

ArenaInit ==
  /\ Init
  /\ verified = [a \in Arena |-> {}]
  /\ moved = {} /\ job = None

-----------------------------------------------------------------------------
(* The engine.                                                             *)

\* A job of Engine::build_job; old is the local version Realize replaces.
Job(type, a, p, hash, old) == [type |-> type, arena |-> a, path |-> p, hash |-> hash, old |-> old]

\* The job for path p, whose file in the cache is i: what the mark makes of the
\* version in the cache and of the local one.
JobFor(a, p, i) ==
  LET mark == GetMark(marks[a], p)
      cached == file[a][i].default
      local == indexed[a][p]
      same == local # None /\ local.hash = cached
  IN CASE mark \in {"Watch", "Keep"} /\ same -> Job("Unrealize", a, p, cached, None)
       [] mark = "Keep" /\ ~same /\ i \notin verified[a] -> Job("Download", a, p, cached, None)
       [] mark = "Own" /\ local = None -> Job("Realize", a, p, cached, None)
       [] mark = "Own" /\ local # None /\ local.outdated = cached ->
            Job("Realize", a, p, cached, local.hash)
       [] OTHER -> None

\* build_job: without a file in the cache there is nothing to do.
BuildJob(a, p) ==
  LET found == FileAt(a, p) IN IF found = {} THEN None ELSE JobFor(a, p, CHOOSE i \in found : TRUE)

TakesJob(a, p) ==
  /\ Op(a, "jobs")
  /\ job = None
  /\ BuildJob(a, p) # None
  /\ job' = BuildJob(a, p)
  /\ Silent
  /\ UNCHANGED <<globalVars, processVars, treeVars, peerVars, marks, indexed, updating, listing,
                 verified, moved>>

-----------------------------------------------------------------------------
(* The jobs.                                                               *)

Running(types) == Serving /\ job # None /\ job.arena \in registered /\ job.type \in types

\* The file of the job, if the cache still shows its version.
JobFile == {i \in FileAt(job.arena, job.path) : file[job.arena][i].default = job.hash}

\* jobs::download and verify, alone or as the first part of jobs::realize.
Downloads ==
  /\ Running({"Download", "Realize"})
  /\ JobFile # {} /\ ~(JobFile \subseteq verified[job.arena])
  /\ verified' = [verified EXCEPT ![job.arena] = @ \cup JobFile]
  /\ Silent
  /\ UNCHANGED <<globalVars, processVars, treeVars, peerVars, marks, indexed, updating, listing,
                 budget, moved, job>>

\* get_indexed_file: the local file is the one the job is for.
IndexedFile(old) ==
  LET local == indexed[job.arena][job.path]
  IN /\ <<job.arena, job.path>> \notin moved
     /\ IF old = None THEN local = None ELSE local # None /\ local.hash = old

\* ArenaStorage::realize: the blob becomes the local file.
Realizes ==
  /\ Running({"Realize"})
  /\ JobFile # {} /\ JobFile \subseteq verified[job.arena]
  /\ IndexedFile(job.old)
  /\ verified' = [verified EXCEPT ![job.arena] = @ \ JobFile]
  /\ moved' = moved \cup {<<job.arena, job.path>>}
  /\ job' = None
  /\ Silent
  /\ UNCHANGED <<globalVars, processVars, treeVars, peerVars, marks, indexed, updating, listing,
                 budget>>

\* ArenaStorage::unrealize: the local file becomes the blob, which is verified
\* if it was before (move_into_blob).  drop_file_if_matches marks the path dirty.
Unrealizes ==
  /\ Running({"Unrealize"})
  /\ JobFile # {} /\ IndexedFile(job.hash)
  /\ indexed' = [indexed EXCEPT ![job.arena][job.path] = None]
  /\ dirtied' = {<<job.arena, job.path>>}
  /\ job' = None /\ applied' = None
  /\ UNCHANGED <<globalVars, processVars, treeVars, peerVars, marks, updating, listing,
                 budget, verified, moved>>

\* The job is done, abandoned, failed or lost with the process.
EndsJob ==
  /\ job # None
  /\ job' = None
  /\ Silent
  /\ UNCHANGED <<globalVars, processVars, treeVars, peerVars, marks, indexed, updating, listing,
                 budget, verified, moved>>

\* A transaction of UnrealCache: the blob goes with the version it is for
\* (do_write_default_file_entry, do_rm_file_entry), and the watcher reports what
\* it finds.
Follows ==
  /\ verified' = [a \in Arena |->
       {i \in verified[a] : i \in DOMAIN file'[a] /\ file'[a][i].default = file[a][i].default}]
  /\ moved' = {m \in moved : indexed'[m[1]][m[2]] = indexed[m[1]][m[2]] \/ updating' # updating}
  /\ UNCHANGED job

ArenaNext ==
  \/ Next /\ Follows
  \/ \E a \in Arena, p \in Path : TakesJob(a, p)
  \/ Downloads \/ Realizes \/ Unrealizes \/ EndsJob

ArenaSpec == ArenaInit /\ [][ArenaNext]_arenaVars

-----------------------------------------------------------------------------

\* A transaction that gives a path a job, or another job than it had, marks the
\* path dirty, whether it changes a mark the path inherits, the index or the
\* version in the cache, so that the engine finds the job (PathMarks::mark_dirty,
\* do_write_default_file_entry, add_file, drop_file_if_matches).  Two do not:
\* RealIndexBlocking::update, which leaves it to the update of the cache that
\* follows, and realize, whose file the watcher adds to the index.
JobsReachEngine ==
  [][\A a \in registered, p \in Path :
       \/ <<a, p>> \in dirtied'
       \/ updating' # None /\ updating = None
       \/ <<a, p>> \in moved' \ moved
       \/ BuildJob(a, p)' \in {None, BuildJob(a, p)}]_<<dirs, file, marks, indexed, verified>>

=============================================================================
