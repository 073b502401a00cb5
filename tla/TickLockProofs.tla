--------------------------- MODULE TickLockProofs ---------------------------
(***************************************************************************)
(* TickLock for any number of processes: until the path is first removed,  *)
(* flock keeps ticks apart.                                                *)
(***************************************************************************)
EXTENDS TickLock, TLAPS

\* flock's own promise, and what the missing removals add to it: every open
\* descriptor still leads to the file at the path.
Inv ==
  /\ TypeOK
  /\ \A p, q \in Holding : fd[p] = fd[q] => p = q
  /\ ~unlinked => \A p \in Procs : fd[p] \in {path, None}

LEMMA InitInv == Init => Inv
BY NoneAssumption DEF Init, Inv, TypeOK, Holding, HasOpen

LEMMA TypeKept ==
  ASSUME TypeOK, NEW p \in Procs, Tick(p) \/ Dies(p)
  PROVE  TypeOK'
<1> USE NoneAssumption DEF TypeOK, HasOpen, Go
<1>1. CASE Start(p)
  BY <1>1 DEF Start, Alive
<1>2. CASE Open(p)
  BY <1>2 DEF Open
<1>3. CASE Lock(p)
  BY <1>3 DEF Lock
<1>4. CASE Refuse(p)
  BY <1>4 DEF Refuse
<1>5. CASE Read(p)
  BY <1>5 DEF Read
<1>6. CASE Judge(p)
  BY <1>6 DEF Judge
<1>7. CASE Reclaim(p)
  BY <1>7 DEF Reclaim, Unlink
<1>8. CASE Truncate(p)
  BY <1>8 DEF Truncate
<1>9. CASE WritePid(p)
  BY <1>9 DEF WritePid
<1>10. CASE Release(p)
  BY <1>10 DEF Release
<1>11. CASE RemovePath(p)
  BY <1>11 DEF RemovePath, Unlink
<1>12. CASE Dies(p)
  BY <1>12 DEF Dies, Alive
<1> QED
  BY <1>1, <1>2, <1>3, <1>4, <1>5, <1>6, <1>7, <1>8, <1>9, <1>10, <1>11, <1>12 DEF Tick

LEMMA LocksKept ==
  ASSUME Inv, NEW p \in Procs, Tick(p) \/ Dies(p)
  PROVE  (\A q, r \in Holding : fd[q] = fd[r] => q = r)'
<1>1. CASE Lock(p)
  BY <1>1 DEF Lock, Go, Inv, TypeOK, Holding
<1>2. CASE Truncate(p) \/ WritePid(p)
  BY <1>2 DEF Truncate, WritePid, Go, Inv, TypeOK, Holding
<1>3. CASE Open(p)
  BY <1>3 DEF Open, Go, Inv, TypeOK, Holding
<1>4. CASE Refuse(p) \/ Release(p) \/ Dies(p)
  BY <1>4 DEF Refuse, Release, Dies, Go, Inv, TypeOK, Holding
<1>5. CASE Start(p) \/ Read(p) \/ Judge(p) \/ Reclaim(p) \/ RemovePath(p)
  BY <1>5 DEF Start, Read, Judge, Reclaim, RemovePath, Go, Inv, TypeOK, Holding
<1> QED BY <1>1, <1>2, <1>3, <1>4, <1>5 DEF Tick

LEMMA DescriptorsKept ==
  ASSUME Inv, NEW p \in Procs, Tick(p) \/ Dies(p), ~unlinked'
  PROVE  \A q \in Procs : fd'[q] \in {path', None}
<1>1. CASE Open(p)
  BY <1>1 DEF Open, Go, Inv, TypeOK
<1>2. CASE Reclaim(p) \/ RemovePath(p)
  BY <1>2 DEF Reclaim, RemovePath, Unlink, Inv, TypeOK
<1>3. CASE Refuse(p) \/ Release(p) \/ Dies(p)
  BY <1>3 DEF Refuse, Release, Dies, Inv, TypeOK
<1>4. CASE Start(p) \/ Lock(p) \/ Read(p) \/ Judge(p) \/ Truncate(p) \/ WritePid(p)
  BY <1>4 DEF Start, Lock, Read, Judge, Truncate, WritePid, Inv
<1> QED BY <1>1, <1>2, <1>3, <1>4 DEF Tick

LEMMA NextInv == Inv /\ [Next]_vars => Inv'
<1> SUFFICES ASSUME Inv, [Next]_vars PROVE Inv'
  OBVIOUS
<1>1. ASSUME NEW p \in Procs, Tick(p) \/ Dies(p) PROVE Inv'
  BY <1>1, TypeKept, LocksKept, DescriptorsKept DEF Inv
<1>2. CASE UNCHANGED vars
  BY <1>2 DEF vars, Inv, TypeOK, Holding
<1> QED BY <1>1, <1>2 DEF Next

\* The types, and that no descriptor leaks.
THEOREM TickLockTypeOK == Spec => []TypeOK
<1>1. Inv => TypeOK
  BY DEF Inv
<1> QED BY InitInv, NextInv, <1>1, PTL DEF Spec

\* Any number of ticks may start, overlap and die: as long as nobody removes
\* the path, at most one is past the lock.
THEOREM TickLockAlone == Spec => []AloneUntilUnlinked
<1>1. Inv => AloneUntilUnlinked
  BY DEF Inv, AloneUntilUnlinked, TypeOK, Holding, HasOpen
<1> QED BY InitInv, NextInv, <1>1, PTL DEF Spec
=============================================================================
