--------------------------- MODULE RootDirsProofs ---------------------------
(***************************************************************************)
(* Proofs about RootDirs, for any number of processes and shared roots:    *)
(* no two processes work on one shared root, no lock is orphaned, and no   *)
(* temporary root is left behind unaccounted for.                          *)
(***************************************************************************)
EXTENDS RootDirs, TLAPS

Owning(p) == pc[p] \in {"ready", "using", "used"}

\* Whoever has a shared root to work on has its lock, ...
OwnersHold ==
  \A p \in Procs : Owning(p) /\ place[p] = "shared" => holder[SharedRoot[p]] = p

\* ... whoever has a lock is such an owner, ...
HoldersOwn ==
  \A r \in Roots, p \in Procs :
    holder[r] = p => Owning(p) /\ place[p] = "shared" /\ SharedRoot[p] = r

\* ... and a temporary root belongs to a process that made it and works on it.
TempsPlaced ==
  \A p \in temps : pc[p] \notin {"start", "fallback"} /\ place[p] = "temp"

IInv == TypeOK /\ OwnersHold /\ HoldersOwn /\ TempsPlaced /\ TempsAccounted

LEMMA InitIInv == Init => IInv
  BY RootDirsAssumption
     DEF Init, IInv, TypeOK, OwnersHold, HoldersOwn, TempsPlaced, TempsAccounted, Owning

\* What a process's unlock, or its end, does to the table of locks.
LEMMA UnlockedType ==
  ASSUME TypeOK, NEW p \in Procs
  PROVE  /\ Unlocked(p) \in [Roots -> Procs \cup {Nobody}]
         /\ \A r \in Roots :
              Unlocked(p)[r] = IF holder[r] = p THEN Nobody ELSE holder[r]
  BY RootDirsAssumption DEF TypeOK, Unlocked

LEMMA StepIInv ==
  ASSUME IInv, NEW p \in Procs, Step(p)
  PROVE  IInv'
<1> USE RootDirsAssumption DEF Go, Owning
<1>1. CASE Lock(p)
  BY <1>1 DEF IInv, TypeOK, OwnersHold, HoldersOwn, TempsPlaced, TempsAccounted, Lock
<1>2. CASE FallBack(p)
  BY <1>2 DEF IInv, TypeOK, OwnersHold, HoldersOwn, TempsPlaced, TempsAccounted, FallBack
<1>10. CASE GiveUp(p)
  BY <1>10 DEF IInv, TypeOK, OwnersHold, HoldersOwn, TempsPlaced, TempsAccounted, GiveUp
<1>3. CASE StartFails(p)
  BY <1>3 DEF IInv, TypeOK, OwnersHold, HoldersOwn, TempsPlaced, TempsAccounted, StartFails
<1>4. CASE MkdirTemp(p)
  BY <1>4 DEF IInv, TypeOK, OwnersHold, HoldersOwn, TempsPlaced, TempsAccounted, MkdirTemp
<1>5. CASE Use(p)
  BY <1>5 DEF IInv, TypeOK, OwnersHold, HoldersOwn, TempsPlaced, TempsAccounted, Use
<1>6. CASE Finish(p)
  BY <1>6 DEF IInv, TypeOK, OwnersHold, HoldersOwn, TempsPlaced, TempsAccounted, Finish
<1>7. CASE Release(p)
  <2>0. /\ Unlocked(p) \in [Roots -> Procs \cup {Nobody}]
        /\ \A r \in Roots :
             Unlocked(p)[r] = IF holder[r] = p THEN Nobody ELSE holder[r]
    BY UnlockedType DEF IInv
  <2>1. TypeOK'
    BY <1>7, <2>0 DEF IInv, TypeOK, Release
  <2>2. OwnersHold'
    BY <1>7, <2>0 DEF IInv, TypeOK, OwnersHold, HoldersOwn, Release
  <2>3. HoldersOwn'
    BY <1>7, <2>0 DEF IInv, TypeOK, OwnersHold, HoldersOwn, Release
  <2>4. TempsPlaced' /\ TempsAccounted'
    BY <1>7 DEF IInv, TypeOK, TempsPlaced, TempsAccounted, Release
  <2> QED BY <2>1, <2>2, <2>3, <2>4 DEF IInv
<1>8. CASE Exit(p)
  <2>0. /\ Unlocked(p) \in [Roots -> Procs \cup {Nobody}]
        /\ \A r \in Roots :
             Unlocked(p)[r] = IF holder[r] = p THEN Nobody ELSE holder[r]
    BY UnlockedType DEF IInv
  <2>1. TypeOK'
    BY <1>8, <2>0 DEF IInv, TypeOK, Exit
  <2>2. OwnersHold'
    BY <1>8, <2>0 DEF IInv, TypeOK, OwnersHold, HoldersOwn, Exit
  <2>3. HoldersOwn'
    BY <1>8, <2>0 DEF IInv, TypeOK, OwnersHold, HoldersOwn, Exit
  <2>4. TempsPlaced' /\ TempsAccounted'
    BY <1>8 DEF IInv, TypeOK, TempsPlaced, TempsAccounted, Exit
  <2> QED BY <2>1, <2>2, <2>3, <2>4 DEF IInv
<1>11. CASE Leave(p)
  <2>0. /\ Unlocked(p) \in [Roots -> Procs \cup {Nobody}]
        /\ \A r \in Roots :
             Unlocked(p)[r] = IF holder[r] = p THEN Nobody ELSE holder[r]
    BY UnlockedType DEF IInv
  <2>1. TypeOK'
    BY <1>11, <2>0 DEF IInv, TypeOK, Leave
  <2>2. OwnersHold'
    BY <1>11, <2>0 DEF IInv, TypeOK, OwnersHold, HoldersOwn, Leave
  <2>3. HoldersOwn'
    BY <1>11, <2>0 DEF IInv, TypeOK, OwnersHold, HoldersOwn, Leave
  <2>4. TempsPlaced' /\ TempsAccounted'
    BY <1>11 DEF IInv, TypeOK, TempsPlaced, TempsAccounted, Leave
  <2> QED BY <2>1, <2>2, <2>3, <2>4 DEF IInv
<1>9. CASE Kill(p)
  <2>0. /\ Unlocked(p) \in [Roots -> Procs \cup {Nobody}]
        /\ \A r \in Roots :
             Unlocked(p)[r] = IF holder[r] = p THEN Nobody ELSE holder[r]
    BY UnlockedType DEF IInv
  <2>1. TypeOK'
    BY <1>9, <2>0 DEF IInv, TypeOK, Kill
  <2>2. OwnersHold'
    BY <1>9, <2>0 DEF IInv, TypeOK, OwnersHold, HoldersOwn, Kill
  <2>3. HoldersOwn'
    BY <1>9, <2>0 DEF IInv, TypeOK, OwnersHold, HoldersOwn, Kill
  <2>4. TempsPlaced' /\ TempsAccounted'
    BY <1>9 DEF IInv, TypeOK, TempsPlaced, TempsAccounted, Kill
  <2> QED BY <2>1, <2>2, <2>3, <2>4 DEF IInv
<1> QED
  BY <1>1, <1>2, <1>3, <1>4, <1>5, <1>6, <1>7, <1>8, <1>9, <1>10, <1>11 DEF Step

\* The inductive invariant holds of every behaviour of the processes.
THEOREM Invariance == Spec => []IInv
<1>1. IInv /\ UNCHANGED vars => IInv'
  BY DEF IInv, TypeOK, OwnersHold, HoldersOwn, TempsPlaced, TempsAccounted,
         Owning, vars
<1>2. IInv /\ [Next]_vars => IInv'
  BY <1>1, StepIInv DEF Next
<1> QED BY InitIInv, <1>2, PTL DEF Spec

\* Two processes never work on the same shared root
\* (main.go, tryLockOnBuildKitRootDir and its callers).
THEOREM RootsAreExclusive == Spec => []RootIsExclusive
<1>1. IInv => RootIsExclusive
  BY RootDirsAssumption
     DEF IInv, TypeOK, OwnersHold, RootIsExclusive, Working, Owning
<1> QED BY <1>1, Invariance, PTL

\* A shared root is locked only by a live process that still owns it, so a
\* crash never locks the later ones out (main.go, tryLockOnBuildKitRootDir).
THEOREM LocksNotOrphaned == Spec => []LockNotOrphaned
<1>1. IInv => LockNotOrphaned
  BY RootDirsAssumption DEF IInv, TypeOK, HoldersOwn, LockNotOrphaned, Owning
<1> QED BY <1>1, Invariance, PTL

\* A temporary root is left behind only by a kill, a failed removal or a dap
\* server whose connection ended before its build (main.go, debugAction and
\* dapServeAction).
THEOREM TempsAreAccounted == Spec => []TempsAccounted
<1>1. IInv => TempsAccounted
  BY DEF IInv
<1> QED BY <1>1, Invariance, PTL
=============================================================================
