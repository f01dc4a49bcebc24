---------------------------- MODULE ServerProcesses ----------------------------
(***************************************************************************)
(* Processes of the server and their port: the start of src/src/index.ts,  *)
(* from the command line or by the desktop application                     *)
(* (packages/electron/electron/main.ts), the orderly end, and hardRestart  *)
(* (self-update.ts), where a process spawns the one that replaces it.      *)
(*                                                                         *)
(* listen of node is asynchronous: startServer has returned its handle     *)
(* when the port turns out to be in use, and what comes then is an error   *)
(* event without a listener, which ends a process of the command line.     *)
(* The port may be taken by another program.  Bound: Process.              *)
(***************************************************************************)
EXTENDS Integers, FiniteSets

CONSTANT LastProcess

ASSUME ProcessesAssumption == LastProcess \in Nat

VARIABLES
    port,       \* who listens on the configured port
    process,    \* by number: kind, where it is, what spawned it and what ended it
    flushed     \* processes whose close has run its destroy calls

processVars == <<port, process, flushed>>

Free == 0
Stranger == -1
Process == 1 .. LastProcess

Unborn == [kind |-> "cli", at |-> "unborn", parent |-> 0, ended |-> "none", tried |-> 0]

Goes(p, at) == process' = [process EXCEPT ![p].at = at]
Dead(p, why) == process' = [process EXCEPT ![p].at = "gone", ![p].ended = why]
Released(p) == IF port = p THEN Free ELSE port
NextUnborn == {q \in Process : process[q].at = "unborn" /\ \A r \in 1 .. q - 1 : process[r].at # "unborn"}

-----------------------------------------------------------------------------
(* Starting *)

\* An operator starts a process; of the desktop application there is one (gotLock).
Launch(q, kind) ==
    /\ q \in NextUnborn
    /\ kind = "desktop" =>
          \A p \in Process : process[p].at \in {"unborn", "gone"} \/ process[p].kind = "cli"
    /\ process' = [process EXCEPT ![q] = [Unborn EXCEPT !.kind = kind, !.at = "starting"]]
    /\ UNCHANGED <<port, flushed>>

\* startServer returns once it has asked for the port.
StartServer(p) ==
    /\ process[p].at = "starting"
    /\ Goes(p, "asking")
    /\ UNCHANGED <<port, flushed>>

\* A bad configuration and the like: the command line gives up, the desktop tries once
\* more with any port and then quits.
StartThrows(p) ==
    /\ process[p].at = "starting"
    /\ IF process[p].kind = "desktop" /\ process[p].tried = 0
       THEN process' = [process EXCEPT ![p].tried = 1] ELSE Dead(p, "failed")
    /\ UNCHANGED <<port, flushed>>

\* The port, or any port on the desktop's second try.
Bound(p) ==
    /\ process[p].at = "asking"
    /\ \/ process[p].tried = 0 /\ port = Free /\ port' = p
       \/ process[p].tried = 1 /\ UNCHANGED port
    /\ Goes(p, "up")
    /\ UNCHANGED flushed

\* The desktop application shows the error and goes on without a server.
InUse(p) ==
    /\ process[p].at = "asking" /\ process[p].tried = 0 /\ port # Free
    /\ IF process[p].kind = "cli"
       THEN process' = [process EXCEPT ![p].at = "gone",
                                       ![p].ended = IF port = process[p].parent THEN "parentHasPort"
                                                    ELSE "inUse"]
       ELSE Goes(p, "deaf")
    /\ UNCHANGED <<port, flushed>>

StrangerComesOrGoes ==
    /\ port \in {Free, Stranger}
    /\ port' = IF port = Free THEN Stranger ELSE Free
    /\ UNCHANGED <<process, flushed>>

-----------------------------------------------------------------------------
(* Ending: close gives the port free at once and resolves with the last connection *)

\* SIGINT or SIGTERM, or Quit in the tray.
Shutdown(p) ==
    /\ process[p].at \in {"asking", "up"}
    /\ Goes(p, "closing") /\ port' = Released(p)
    /\ UNCHANGED flushed

Closed(p) ==
    /\ process[p].at = "closing"
    /\ Dead(p, "closed") /\ flushed' = flushed \cup {p}
    /\ UNCHANGED port

\* After ten seconds, five on the desktop.
ForceExit(p) ==
    /\ process[p].at = "closing"
    /\ Dead(p, "forced")
    /\ UNCHANGED <<port, flushed>>

\* Quit from the dock, or a crash.
ProcessKilled(p) ==
    /\ process[p].at \notin {"unborn", "gone"}
    /\ Dead(p, "killed") /\ port' = Released(p)
    /\ UNCHANGED flushed

-----------------------------------------------------------------------------
(* hardRestart: when the server has closed, or after three seconds *)

HardRestart(p) ==
    /\ process[p].at = "up" /\ process[p].kind = "cli"
    /\ Goes(p, "restarting") /\ port' = Released(p)
    /\ UNCHANGED flushed

Spawned(q, p) == [Unborn EXCEPT !.at = "starting", !.parent = p]

\* Mutant: the process goes on after the spawn.
DoRestartAndStay(p) ==
    \E q \in NextUnborn : process' = [process EXCEPT ![q] = Spawned(q, p)]

DoRestart(p) ==
    \E q \in NextUnborn :
        process' = [process EXCEPT ![q] = Spawned(q, p), ![p].at = "gone", ![p].ended = "replaced"]

\* Without the node executable nothing is spawned and the process stays, closed.  A signal
\* changes nothing now: the callback of the restart comes before that of the shutdown.  If
\* the signal came first the restart may still overtake the end, with its three seconds.
Restarts(p, closed) ==
    /\ \/ process[p].at = "restarting"
       \/ process[p].at = "closing" /\ process[p].kind = "cli" /\ ~closed
    /\ DoRestart(p) \/ (closed /\ Goes(p, "deaf")) \/ (~closed /\ UNCHANGED process)
    /\ flushed' = flushed \cup IF closed THEN {p} ELSE {}
    /\ UNCHANGED port

ProcessesInit ==
    /\ port \in {Free, Stranger}
    /\ process = [p \in Process |-> Unborn]
    /\ flushed = {}

ProcessesNext ==
    \/ StrangerComesOrGoes
    \/ \E p \in Process :
          \/ \E kind \in {"cli", "desktop"} : Launch(p, kind)
          \/ StartServer(p) \/ StartThrows(p) \/ Bound(p) \/ InUse(p)
          \/ Shutdown(p) \/ Closed(p) \/ ForceExit(p) \/ ProcessKilled(p) \/ HardRestart(p)
          \/ \E closed \in BOOLEAN : Restarts(p, closed)

ProcessesSpec == ProcessesInit /\ [][ProcessesNext]_processVars

-----------------------------------------------------------------------------
(* Properties *)

\* Processes and the holder of the port are of their kinds.
ProcessesTypeOK ==
    /\ port \in {Free, Stranger} \cup Process
    /\ port \in Process => process[port].at = "up"
    /\ flushed \subseteq {p \in Process : process[p].at \in {"gone", "deaf"}}
    /\ \A p \in Process : process[p].parent < p

\* A restart hands over to one process: however the three seconds and the last connection
\* race, no process is replaced twice, none serves beside the one that replaces it, and
\* none ends because the process it replaces still has the port.
OneSuccessor ==
    /\ ProcessesTypeOK
    /\ \A p \in Process :
           /\ Cardinality({q \in Process : process[q].parent = p}) <= 1
           /\ process[p].ended # "parentHasPort"
           /\ process[p].parent # 0 => process[process[p].parent].at = "gone"

\* "Retry on EADDRINUSE -- the previous process may still be releasing the port"
\* (index.ts:191; self-update.ts:25, CHANGELOG.md:254): a process of the command line
\* that finds its port in use tries again, ten times.
RetriesWhilePortTaken == \A p \in Process : process[p].ended # "inUse"

\* "try configured port first, fall back to random if occupied" (main.ts:133).
DesktopFallsBack == \A p \in Process : process[p].kind = "desktop" => process[p].at # "deaf"
=============================================================================
