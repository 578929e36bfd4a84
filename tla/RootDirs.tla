------------------------------ MODULE RootDirs ------------------------------
(***************************************************************************)
(* main.go: how the processes started from one buildg root directory share *)
(* it.  debug --cache-reuse and dap serve try to take a flock on a shared  *)
(* BuildKit root (one for the commands, one for dap) and fall back to a    *)
(* temporary root when another process has it; prune and du give up        *)
(* instead; debug without --cache-reuse always takes a temporary root.     *)
(* A process may be killed between any two steps; the kernel then drops    *)
(* its flock, and nobody removes its temporary root.                       *)
(***************************************************************************)
CONSTANTS
  Procs,
  Roots,           \* the shared roots: data, dap/buildg
  Kind,            \* of each process: "debug", "reuse", "dap", "maintain" (prune, du)
  SharedRoot,      \* the shared root of each process's command
  Nobody

ASSUME RootDirsAssumption ==
  /\ Kind \in [Procs -> {"debug", "reuse", "dap", "maintain"}]
  /\ SharedRoot \in [Procs -> Roots]
  /\ Nobody \notin Procs

VARIABLES
  pc,              \* "start", "fallback", "ready", "using", "used", "released", "ended",
                   \* "left" (a dap server that ended before its cleanupFunc), "killed"
  place,           \* the root the process works on: "none", "shared", "temp"
  holder,          \* of each shared root's lock
  temps,           \* processes whose temporary root exists
  failed           \* processes whose RemoveAll failed

vars == <<pc, place, holder, temps, failed>>

TypeOK ==
  /\ pc \in [Procs -> {"start", "fallback", "ready", "using", "used", "released", "ended",
                     "left", "killed"}]
  /\ place \in [Procs -> {"none", "shared", "temp"}]
  /\ holder \in [Roots -> Procs \cup {Nobody}]
  /\ temps \subseteq Procs
  /\ failed \subseteq Procs

Init ==
  /\ pc = [p \in Procs |-> "start"]
  /\ place = [p \in Procs |-> "none"]
  /\ holder = [r \in Roots |-> Nobody]
  /\ temps = {} /\ failed = {}

Go(p, from, to) ==
  /\ pc[p] = from
  /\ pc' = [pc EXCEPT ![p] = to]

\* Dropped by unlock, and by the kernel when the process is gone.
Unlocked(p) == [r \in Roots |-> IF holder[r] = p THEN Nobody ELSE holder[r]]

-----------------------------------------------------------------------------
(* tryLockOnBuildKitRootDir *)

Lock(p) ==
  /\ Kind[p] # "debug"
  /\ holder[SharedRoot[p]] = Nobody
  /\ Go(p, "start", "ready")
  /\ holder' = [holder EXCEPT ![SharedRoot[p]] = p]
  /\ place' = [place EXCEPT ![p] = "shared"]
  /\ UNCHANGED <<temps, failed>>

FallBack_GoOnBug(p) ==
  /\ Kind[p] \in {"reuse", "dap"}
  /\ holder[SharedRoot[p]] # Nobody
  /\ Go(p, "start", "ready")
  /\ place' = [place EXCEPT ![p] = "shared"]
  /\ UNCHANGED <<holder, temps, failed>>

\* EWOULDBLOCK: a session goes on without the cache.
FallBack(p) ==
  /\ Kind[p] \in {"reuse", "dap"}
  /\ holder[SharedRoot[p]] # Nobody
  /\ Go(p, "start", "fallback")
  /\ UNCHANGED <<place, holder, temps, failed>>

\* EWOULDBLOCK: prune and du end with an error.
GiveUp(p) ==
  /\ Kind[p] = "maintain"
  /\ holder[SharedRoot[p]] # Nobody
  /\ Go(p, "start", "ended")
  /\ UNCHANGED <<place, holder, temps, failed>>

\* The options do not parse, the root cannot be made, or flock fails.
StartFails(p) ==
  /\ \/ Go(p, "start", "ended")
     \/ Go(p, "fallback", "ended")
  /\ UNCHANGED <<place, holder, temps, failed>>

-----------------------------------------------------------------------------
(* debugAction, dapServeAction, pruneAction, duAction *)

MkdirTemp(p) ==
  /\ \/ Go(p, "fallback", "ready")
     \/ Kind[p] = "debug" /\ Go(p, "start", "ready")
  /\ place' = [place EXCEPT ![p] = "temp"]
  /\ temps' = temps \cup {p}
  /\ UNCHANGED <<holder, failed>>

\* buildkit.Debug, Prune or Du is called; in dap serve, by a launch request.
Use(p) ==
  /\ Go(p, "ready", "using")
  /\ UNCHANGED <<place, holder, temps, failed>>

\* It returns; or debugAction fails before it calls Debug.  The deferred
\* functions, onFinishHook in dap serve, are next.
Finish(p) ==
  /\ \/ Go(p, "using", "used")
     \/ Kind[p] # "dap" /\ Go(p, "ready", "used")
  /\ UNCHANGED <<place, holder, temps, failed>>

Release_KeepBug(p) ==
  /\ Go(p, "used", "released")
  /\ holder' = Unlocked(p)
  /\ UNCHANGED <<place, temps, failed>>

\* unlock, or RemoveAll, whose failure is only logged.
Release(p) ==
  /\ Go(p, "used", "released")
  /\ \/ /\ place[p] = "shared"
        /\ holder' = Unlocked(p)
        /\ UNCHANGED <<temps, failed>>
     \/ /\ place[p] = "temp"
        /\ temps' = temps \ {p}
        /\ UNCHANGED <<holder, failed>>
     \/ /\ place[p] = "temp"
        /\ failed' = failed \cup {p}
        /\ UNCHANGED <<holder, temps>>
  /\ UNCHANGED place

\* The process ends.
Exit(p) ==
  /\ Go(p, "released", "ended")
  /\ holder' = Unlocked(p)
  /\ UNCHANGED <<place, temps, failed>>

\* dap serve ends with its connection: Serve returns and so does the process,
\* whatever the build is doing, and cleanupFunc is called by onFinishHook only.
\* A disconnect before a launch ends it in the same state.
Leave(p) ==
  /\ Kind[p] = "dap"
  /\ Go(p, "ready", "left") \/ Go(p, "using", "left") \/ Go(p, "used", "left")
  /\ holder' = Unlocked(p)
  /\ UNCHANGED <<place, temps, failed>>

Kill_KeepsLockBug(p) ==
  /\ pc[p] \notin {"ended", "left", "killed"}
  /\ pc' = [pc EXCEPT ![p] = "killed"]
  /\ UNCHANGED <<place, holder, temps, failed>>

\* A signal that is not handled, a panic.
Kill(p) ==
  /\ pc[p] \notin {"ended", "left", "killed"}
  /\ pc' = [pc EXCEPT ![p] = "killed"]
  /\ holder' = Unlocked(p)
  /\ UNCHANGED <<place, temps, failed>>

Step(p) ==
  \/ Lock(p) \/ FallBack(p) \/ GiveUp(p) \/ StartFails(p)
  \/ MkdirTemp(p) \/ Use(p) \/ Finish(p)
  \/ Release(p) \/ Exit(p) \/ Leave(p) \/ Kill(p)

Next == \E p \in Procs : Step(p)

Spec == Init /\ [][Next]_vars

-----------------------------------------------------------------------------
(* Properties *)

Working(p) == pc[p] \in {"using", "used"}

\* Two processes never work on the same root: not two sessions, and no prune
\* beside a session (main.go:678-703).
RootIsExclusive ==
  \A p, q \in Procs :
    /\ Working(p) /\ place[p] = "shared"
    /\ Working(q) /\ place[q] = "shared"
    /\ SharedRoot[p] = SharedRoot[q]
    => p = q

\* A shared root is locked only by a process that is alive and has not
\* released it: no crash makes the later sessions lose their cache
\* (main.go:678-703).
LockNotOrphaned ==
  \A r \in Roots :
    holder[r] # Nobody => pc[holder[r]] \in {"ready", "using", "used"}

\* A temporary root outlives its process only if the process was killed, its
\* removal failed, or it is a dap server whose connection ended before its
\* build did (main.go:346-353, 476-498).
TempsAccounted ==
  \A p \in temps : pc[p] \in {"released", "ended"} => p \in failed
=============================================================================
