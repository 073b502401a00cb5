------------------------------ MODULE TickLock ------------------------------
(***************************************************************************)
(* The lock file of "tick", system call by system call (cmd/tickets/       *)
(* tick.go, from acquireLock on).  A process opens the path, creating the  *)
(* file if there is none, and tries flock; it writes its pid when it gets  *)
(* the lock, and looks at the pid when it does not.  The lock belongs to   *)
(* the file that was opened; the path may name another one by then.        *)
(*                                                                         *)
(* A process is its pid, which is in use again when the same process       *)
(* starts another tick.  flock goes with the descriptor, so also when the  *)
(* process dies.  A file nobody can reach any more may be used again.      *)
(***************************************************************************)

CONSTANTS Procs, Files, None

ASSUME NoneAssumption == None \notin Procs \cup Files

VARIABLES
  path,       \* the file .tick.lock names, or None
  content,    \* the pid written in each file, or None for an empty one
  fd,         \* the file each process has open, or None
  pc,         \* where each process is
  seen,       \* the pid reclaimStaleLock has read, per process
  unlinked    \* history: whether the path was ever removed

vars == <<path, content, fd, pc, seen, unlinked>>

\* Where a process has the lock file open.
HasOpen == {"opened", "locked", "truncated", "running"}

\* No descriptor leaks out of a refusal or a release, and only a pid that was
\* read is judged.
TypeOK ==
  /\ path \in Files \cup {None}
  /\ content \in [Files -> Procs \cup {None}]
  /\ fd \in [Procs -> Files \cup {None}]
  /\ pc \in [Procs -> {"idle", "dead", "start", "opened", "refused", "judging", "stale",
                       "locked", "truncated", "running", "released"}]
  /\ seen \in [Procs -> Procs \cup {None}]
  /\ unlinked \in BOOLEAN
  /\ \A p \in Procs : fd[p] # None <=> pc[p] \in HasOpen
  /\ \A p \in Procs : seen[p] # None <=> pc[p] = "judging"

Init ==
  /\ path = None
  /\ content = [f \in Files |-> None]
  /\ fd = [p \in Procs |-> None]
  /\ pc = [p \in Procs |-> "idle"]
  /\ seen = [p \in Procs |-> None]
  /\ unlinked = FALSE

Go(p, from, to) == pc[p] = from /\ pc' = [pc EXCEPT ![p] = to]

\* processAlive: the pid is in use.  A process that was killed is kept apart
\* from one that came to its end.
Alive(p) == pc[p] \notin {"idle", "dead"}

\* Holding the flock, and being allowed to run the phases.
Holding == {p \in Procs : pc[p] \in {"locked", "truncated", "running"}}
Running == {p \in Procs : pc[p] = "running"}

Unreachable(f) == f # path /\ \A p \in Procs : fd[p] # f

Unlink == path' = None /\ unlinked' = (unlinked \/ path # None)

-----------------------------------------------------------------------------
Start(p) ==
  /\ ~Alive(p)
  /\ pc' = [pc EXCEPT ![p] = "start"]
  /\ UNCHANGED <<path, content, fd, seen, unlinked>>

\* Bug: the file is opened with O_EXCL too, as if its presence were the lock.
OpenExclusive(p) ==
  /\ \/ path # None /\ Go(p, "start", "refused") /\ UNCHANGED <<path, content, fd>>
     \/ /\ path = None
        /\ Go(p, "start", "opened")
        /\ \E f \in Files :
             /\ Unreachable(f)
             /\ path' = f
             /\ content' = [content EXCEPT ![f] = None]
             /\ fd' = [fd EXCEPT ![p] = f]
  /\ UNCHANGED <<seen, unlinked>>

\* OpenFile with O_CREATE: the file at the path, or a new, empty one.
Open(p) ==
  /\ Go(p, "start", "opened")
  /\ \/ path # None /\ UNCHANGED <<path, content>> /\ fd' = [fd EXCEPT ![p] = path]
     \/ /\ path = None
        /\ \E f \in Files :
             /\ Unreachable(f)
             /\ path' = f
             /\ content' = [content EXCEPT ![f] = None]
             /\ fd' = [fd EXCEPT ![p] = f]
  /\ UNCHANGED <<seen, unlinked>>

\* Bug: LOCK_SH for LOCK_EX.
LockShared(p) ==
  Go(p, "opened", "locked") /\ UNCHANGED <<path, content, fd, seen, unlinked>>

Lock(p) ==
  /\ \A q \in Holding : fd[q] # fd[p]
  /\ Go(p, "opened", "locked")
  /\ UNCHANGED <<path, content, fd, seen, unlinked>>

\* Bug: the descriptor is not closed on the way out.
RefuseLeaking(p) ==
  /\ \E q \in Holding : fd[q] = fd[p]
  /\ Go(p, "opened", "refused")
  /\ UNCHANGED <<path, content, fd, seen, unlinked>>

\* EWOULDBLOCK: close the file and see who has it.
Refuse(p) ==
  /\ \E q \in Holding : fd[q] = fd[p]
  /\ Go(p, "opened", "refused")
  /\ fd' = [fd EXCEPT ![p] = None]
  /\ UNCHANGED <<path, content, seen, unlinked>>

\* reclaimStaleLock reads whatever file the path names now: with no file it
\* tries again, with no pid in it it gives up.
Read(p) ==
  /\ \/ path = None /\ Go(p, "refused", "start") /\ UNCHANGED seen
     \/ /\ path # None /\ content[path] = None
        /\ Go(p, "refused", "idle") /\ UNCHANGED seen
     \/ /\ path # None /\ content[path] # None
        /\ Go(p, "refused", "judging")
        /\ seen' = [seen EXCEPT ![p] = content[path]]
  /\ UNCHANGED <<path, content, fd, unlinked>>

Judge(p) ==
  /\ Go(p, "judging", IF Alive(seen[p]) THEN "idle" ELSE "stale")
  /\ seen' = [seen EXCEPT ![p] = None]
  /\ UNCHANGED <<path, content, fd, unlinked>>

\* Remove whatever the path names, and try again.
Reclaim(p) ==
  /\ Go(p, "stale", "start")
  /\ Unlink
  /\ UNCHANGED <<content, fd, seen>>

Truncate(p) ==
  /\ Go(p, "locked", "truncated")
  /\ content' = [content EXCEPT ![fd[p]] = None]
  /\ UNCHANGED <<path, fd, seen, unlinked>>

WritePid(p) ==
  /\ Go(p, "truncated", "running")
  /\ content' = [content EXCEPT ![fd[p]] = p]
  /\ UNCHANGED <<path, fd, seen, unlinked>>

\* releaseLock: unlock and close, and only then remove the path.
Release(p) ==
  /\ Go(p, "running", "released")
  /\ fd' = [fd EXCEPT ![p] = None]
  /\ UNCHANGED <<path, content, seen, unlinked>>

RemovePath(p) ==
  /\ Go(p, "released", "idle")
  /\ Unlink
  /\ UNCHANGED <<content, fd, seen>>

\* Killed, or an error before the lock was complete: the kernel closes fd.
Dies(p) ==
  /\ Alive(p)
  /\ pc' = [pc EXCEPT ![p] = "dead"]
  /\ fd' = [fd EXCEPT ![p] = None]
  /\ seen' = [seen EXCEPT ![p] = None]
  /\ UNCHANGED <<path, content, unlinked>>

Tick(p) ==
  \/ Start(p) \/ Open(p) \/ Lock(p) \/ Refuse(p) \/ Read(p) \/ Judge(p) \/ Reclaim(p)
  \/ Truncate(p) \/ WritePid(p) \/ Release(p) \/ RemovePath(p)

Next == \E p \in Procs : Tick(p) \/ Dies(p)

Spec == Init /\ [][Next]_vars

\* The timer starts ticks for ever, and a process that lives goes on.
LiveSpec == Spec /\ \A p \in Procs : WF_vars(Tick(p))

-----------------------------------------------------------------------------
\* Until the path is first removed, whoever starts, overlaps or dies, at most
\* one tick is between lock and release: flock alone would do, and what can
\* break it is the removal of the path.
AloneUntilUnlinked ==
  ~unlinked => \A p, q \in Holding : p = q

\* Unless processes keep dying, ticks keep running: no lock file left behind,
\* empty, stale or locked on a file without a path, stops them for good.
TicksKeepRunning ==
  <>[][\A p \in Procs : ~Dies(p)]_vars => []<>(Running # {})

\* The help of "tick": a file lock prevents concurrent tick runs.
OneTickAtATime == \A p, q \in Running : p = q
=============================================================================
