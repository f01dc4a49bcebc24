------------------------------ MODULE Server_proofs ------------------------------
(***************************************************************************)
(* The parts of the server outside of a request, proved for every value of *)
(* the constants: its processes and their port, the transports and the     *)
(* fallback to HTTP/1.1, the updates of the checkout, of the version and   *)
(* of the desktop application, the catalogue of models and their names.    *)
(*                                                                         *)
(* Each part has an inductive invariant of its own.                        *)
(***************************************************************************)
EXTENDS Server, ModelCatalogue, FiniteSetTheorems, SequenceTheorems, TLAPS

-----------------------------------------------------------------------------
(* Processes *)

ProcessRecord ==
    [kind : {"cli", "desktop"},
     at : {"unborn", "starting", "asking", "up", "deaf", "closing", "restarting", "gone"},
     parent : 0 .. LastProcess,
     ended : {"none", "failed", "parentHasPort", "inUse", "closed", "forced", "killed",
              "replaced"},
     tried : {0, 1}]

ProcessTypes ==
    /\ port \in {Free, Stranger} \cup Process
    /\ process \in [Process -> ProcessRecord]
    /\ flushed \subseteq Process

\* Processes are numbered as they are born.
BornInOrder ==
    \A p, q \in Process : q < p /\ process[q].at = "unborn" => process[p].at = "unborn"

\* A process is younger than the one that spawned it, which is gone and spawned no other;
\* so whoever has the port is nobody's parent.
Lineage ==
    /\ \A p \in Process :
          /\ process[p].parent < p
          /\ process[p].at = "unborn" => process[p].parent = 0
          /\ process[p].parent # 0 => process[process[p].parent].at = "gone"
          /\ process[p].ended # "parentHasPort"
    /\ \A p, q \in Process :
          process[p].parent = process[q].parent /\ process[p].parent # 0 => p = q

PortIsServed == port \in Process => process[port].at = "up"

FlushedEnded == \A p \in flushed : process[p].at \in {"gone", "deaf"}

ProcessInv == ProcessTypes /\ BornInOrder /\ Lineage /\ PortIsServed /\ FlushedEnded

\* A process that is not born.
LEMMA UnbornTyped ==
    /\ Unborn \in ProcessRecord /\ Unborn.at = "unborn" /\ Unborn.parent = 0
    /\ Unborn.ended = "none"
BY ProcessesAssumption DEF Unborn, ProcessRecord

\* The first state has it.
LEMMA ProcessesStart == ProcessesInit => ProcessInv
<1> SUFFICES ASSUME ProcessesInit PROVE ProcessInv
  OBVIOUS
<1> USE ProcessesAssumption DEF ProcessesInit, Free, Stranger, Process
<1>1. Unborn \in ProcessRecord /\ Unborn.at = "unborn" /\ Unborn.parent = 0 /\ Unborn.ended = "none"
  BY DEF Unborn, ProcessRecord
<1>2. ProcessTypes
  BY <1>1 DEF ProcessTypes
<1>3. \A p \in Process : process[p] = Unborn /\ p \in Nat \ {0}
  OBVIOUS
<1>4. port \notin Process
  OBVIOUS
<1>5. BornInOrder /\ Lineage /\ PortIsServed /\ FlushedEnded
  <2> HIDE DEF ProcessesInit, Process
  <2>1. flushed = {}
    BY DEF ProcessesInit
  <2>2. QED
    BY <1>1, <1>3, <1>4, <2>1 DEF BornInOrder, Lineage, PortIsServed, FlushedEnded
<1>6. QED
  BY <1>2, <1>5 DEF ProcessInv

\* A process that is alive may go anywhere but out of the world, as long as it keeps its
\* parent and does not give the port as the reason of its end.
LEMMA ProcessMoves ==
    ASSUME ProcessInv, NEW p \in Process, NEW new \in ProcessRecord,
           process' = [process EXCEPT ![p] = new],
           process[p].at \notin {"unborn", "gone"}, new.at # "unborn",
           new.parent = process[p].parent, new.ended # "parentHasPort"
    PROVE  process' \in [Process -> ProcessRecord] /\ BornInOrder' /\ Lineage'
<1> USE DEF ProcessInv, ProcessTypes
<1>1. process' \in [Process -> ProcessRecord]
  OBVIOUS
<1>2. \A q \in Process : /\ process'[q].parent = process[q].parent
                         /\ (process'[q].at = "unborn") <=> (process[q].at = "unborn")
                         /\ process[q].at = "gone" => process'[q].at = "gone"
                         /\ process'[q].ended # "parentHasPort"
  BY DEF Lineage
<1>3. BornInOrder'
  BY <1>2 DEF BornInOrder
<1>4. \A q \in Process : process[q].parent # 0 => process[q].parent \in Process
  <2> TAKE q \in Process
  <2>1. process[q].parent \in 0 .. LastProcess
    BY DEF ProcessRecord
  <2>2. QED
    BY <2>1, ProcessesAssumption DEF Process
<1>5. Lineage'
  BY ONLY <1>2, <1>4, Lineage DEF Lineage
<1>6. QED
  BY <1>1, <1>3, <1>5

\* Every step keeps it.
LEMMA ProcessesStep == ProcessInv /\ [ProcessesNext]_processVars => ProcessInv'
<1> SUFFICES ASSUME ProcessInv, [ProcessesNext]_processVars PROVE ProcessInv'
  OBVIOUS
<1> USE DEF Free, Stranger
<1>t. ProcessTypes /\ BornInOrder /\ Lineage /\ PortIsServed /\ FlushedEnded
  BY DEF ProcessInv
<1>n. \A p \in Process : p \in Nat \ {0}
  BY ProcessesAssumption DEF Process
<1>s. CASE UNCHANGED processVars
  BY <1>s, <1>t DEF ProcessInv, ProcessTypes, BornInOrder, Lineage, PortIsServed, FlushedEnded,
     processVars, Process
<1>o. CASE StrangerComesOrGoes
  BY <1>o, <1>t, <1>n DEF StrangerComesOrGoes, ProcessInv, ProcessTypes, BornInOrder, Lineage,
     PortIsServed, FlushedEnded
<1>l. ASSUME NEW p \in Process, NEW kind \in {"cli", "desktop"}, Launch(p, kind) PROVE ProcessInv'
  <2> DEFINE new == [Unborn EXCEPT !.kind = kind, !.at = "starting"]
  <2>1. /\ new \in ProcessRecord /\ new.at = "starting" /\ new.parent = 0 /\ new.ended = "none"
    BY UnbornTyped DEF ProcessRecord
  <2>2. /\ process' = [process EXCEPT ![p] = new] /\ port' = port /\ flushed' = flushed
        /\ p \in NextUnborn
    BY <1>l DEF Launch
  <2> HIDE DEF new
  <2>3. process[p].at = "unborn" /\ \A r \in 1 .. p - 1 : process[r].at # "unborn"
    BY <2>2 DEF NextUnborn
  <2>4. ProcessTypes'
    BY <1>t, <2>1, <2>2 DEF ProcessTypes
  <2>5. BornInOrder'
    <3> SUFFICES ASSUME NEW a \in Process, NEW b \in Process, b < a, process'[b].at = "unborn"
                 PROVE  process'[a].at = "unborn"
      BY DEF BornInOrder
    <3>1. b # p /\ process[b].at = "unborn"
      BY <1>t, <2>1, <2>2 DEF ProcessTypes
    <3>2. process[a].at = "unborn"
      BY <1>t, <3>1 DEF BornInOrder
    <3>3. b \notin 1 .. p - 1
      BY <2>3, <3>1
    <3>4. a # p
      BY <3>3, <1>n
    <3>5. QED
      BY <3>2, <3>4, <2>2, <1>t DEF ProcessTypes
  <2>6. Lineage'
    <3>1. \A q \in Process : /\ process'[q].parent = process[q].parent
                             /\ process'[q].at = "unborn" => process[q].at = "unborn"
                             /\ process[q].at = "gone" => process'[q].at = "gone"
                             /\ process'[q].ended # "parentHasPort"
      BY <1>t, <2>1, <2>2, <2>3 DEF Lineage, ProcessTypes
    <3>2. \A q \in Process : process[q].parent # 0 => process[q].parent \in Process
      <4> TAKE q \in Process
      <4>1. process[q].parent \in 0 .. LastProcess
        BY <1>t DEF ProcessRecord, ProcessTypes
      <4>2. QED
        BY <4>1, ProcessesAssumption DEF Process
    <3>3. QED
      BY ONLY <3>1, <3>2, <1>t DEF Lineage
  <2>7. PortIsServed' /\ FlushedEnded'
    BY <1>t, <2>1, <2>2, <2>3 DEF ProcessTypes, PortIsServed, FlushedEnded
  <2>8. QED
    BY <2>4, <2>5, <2>6, <2>7 DEF ProcessInv
<1>a. ASSUME NEW p \in Process, NEW new \in ProcessRecord,
             process' = [process EXCEPT ![p] = new],
             process[p].at \notin {"unborn", "gone"}, new.at # "unborn",
             new.parent = process[p].parent, new.ended # "parentHasPort",
             port' \in {port, Free, p}, port' = p => new.at = "up",
             flushed' \subseteq flushed \cup {p},
             p \in flushed' => new.at \in {"gone", "deaf"}
      PROVE  ProcessInv'
  <2>1. process' \in [Process -> ProcessRecord] /\ BornInOrder' /\ Lineage'
    BY <1>a, ProcessMoves
  <2>2. ProcessTypes'
    <3>1. port' \in {Free, Stranger} \cup Process /\ flushed' \subseteq Process
      BY <1>a, <1>t DEF ProcessTypes
    <3>2. Process' = Process /\ Free' = Free /\ Stranger' = Stranger
      BY DEF Process
    <3>3. QED
      BY <2>1, <3>1, <3>2 DEF ProcessTypes
  <2>3. PortIsServed'
    BY <1>a, <1>t, <1>n DEF PortIsServed, ProcessTypes
  <2>4. FlushedEnded'
    BY <1>a, <1>t DEF FlushedEnded, ProcessTypes
  <2>5. QED
    BY <2>1, <2>2, <2>3, <2>4 DEF ProcessInv
<1>g. ASSUME NEW p \in Process, NEW at \in {"starting", "asking", "up", "deaf", "closing", "restarting"},
             Goes(p, at), process[p].at \notin {"unborn", "gone"},
             port' \in {port, Free, p}, port' = p => at = "up",
             flushed' \subseteq flushed \cup {p},
             p \in flushed' => at = "deaf"
      PROVE  ProcessInv'
  <2> DEFINE new == [process[p] EXCEPT !.at = at]
  <2>1. new \in ProcessRecord /\ new.at = at /\ new.parent = process[p].parent
        /\ new.ended = process[p].ended
    BY <1>t, <1>g DEF ProcessTypes, ProcessRecord
  <2>2. process' = [process EXCEPT ![p] = new]
    BY <1>t, <1>g DEF Goes, ProcessTypes
  <2> HIDE DEF new
  <2>3. new.ended # "parentHasPort"
    BY <1>t, <2>1 DEF Lineage
  <2>4. QED
    BY <1>a, <1>g, <2>1, <2>2, <2>3
<1>d. ASSUME NEW p \in Process, NEW why \in {"failed", "inUse", "closed", "forced", "killed", "replaced"},
             Dead(p, why), process[p].at \notin {"unborn", "gone"},
             (port' = port /\ port # p) \/ port' = Released(p),
             flushed' = flushed \/ flushed' = flushed \cup {p}
      PROVE  ProcessInv'
  <2> DEFINE new == [process[p] EXCEPT !.at = "gone", !.ended = why]
  <2>1. new \in ProcessRecord /\ new.at = "gone" /\ new.parent = process[p].parent
        /\ new.ended = why
    BY <1>t, <1>d DEF ProcessTypes, ProcessRecord
  <2>2. process' = [process EXCEPT ![p] = new]
    BY <1>t, <1>d DEF Dead, ProcessTypes
  <2> HIDE DEF new
  <2>3. /\ port' \in {port, Free, p}
        /\ port' # p /\ flushed' \subseteq flushed \cup {p}
    BY <1>d, <1>t, <1>n DEF Released, ProcessTypes
  <2>4. new.at # "unborn" /\ new.ended # "parentHasPort" /\ new.at \in {"gone", "deaf"}
    BY <1>d, <2>1
  <2>5. QED
    BY ONLY <1>a, <1>d, <2>1, <2>2, <2>3, <2>4
<1>p. \A p \in Process : process[p].at # "up" => port # p
  BY <1>t DEF PortIsServed
<1>f. \A p \in Process : process[p].at \notin {"gone", "deaf"} => p \notin flushed
  BY <1>t DEF FlushedEnded
<1>1. ASSUME NEW p \in Process, StartServer(p) PROVE ProcessInv'
  BY <1>1, <1>g, <1>p, <1>f, <1>t DEF StartServer, ProcessTypes
<1>2. ASSUME NEW p \in Process, StartThrows(p) PROVE ProcessInv'
  <2>1. CASE Dead(p, "failed")
    BY <1>2, <1>d, <1>p, <2>1 DEF StartThrows
  <2>2. CASE process' = [process EXCEPT ![p].tried = 1]
    <3> DEFINE new == [process[p] EXCEPT !.tried = 1]
    <3>1. new \in ProcessRecord /\ new.at = process[p].at /\ new.parent = process[p].parent
          /\ new.ended = process[p].ended
      BY <1>t DEF ProcessTypes, ProcessRecord
    <3>2. process' = [process EXCEPT ![p] = new]
      BY <1>t, <2>2 DEF ProcessTypes
    <3> HIDE DEF new
    <3>3. new.ended # "parentHasPort"
      BY <1>t, <3>1 DEF Lineage
    <3>4. port' = port /\ flushed' = flushed /\ process[p].at = "starting"
      BY <1>2 DEF StartThrows
    <3>5. QED
      BY <1>a, <1>p, <1>f, <1>t, <3>1, <3>2, <3>3, <3>4 DEF ProcessTypes
  <2>3. QED
    BY <1>2, <2>1, <2>2 DEF StartThrows
<1>3. ASSUME NEW p \in Process, Bound(p) PROVE ProcessInv'
  <2>1. port' = p \/ port' = port
    BY <1>3 DEF Bound
  <2>2. QED
    BY <1>3, <1>g, <1>p, <1>f, <1>t, <2>1 DEF Bound, ProcessTypes
<1>4. ASSUME NEW p \in Process, InUse(p) PROVE ProcessInv'
  <2>1. process[p].at = "asking" /\ port # Free /\ port' = port /\ flushed' = flushed
    BY <1>4 DEF InUse
  <2>2. CASE Goes(p, "deaf")
    BY <1>g, <1>p, <1>f, <1>t, <2>1, <2>2 DEF ProcessTypes
  <2>3. port # process[p].parent
    <3>1. process[p].parent \in 0 .. LastProcess
      BY <1>t DEF ProcessTypes, ProcessRecord
    <3>2. process[p].parent # 0 => process[p].parent \in Process
      BY <3>1, ProcessesAssumption DEF Process
    <3>3. process[p].parent # 0 => process[process[p].parent].at = "gone"
      BY <1>t DEF Lineage
    <3>4. QED
      BY <2>1, <3>2, <3>3, <1>p
  <2>4. CASE process[p].kind = "cli"
    <3>1. Dead(p, "inUse")
      BY <1>4, <2>3, <2>4 DEF InUse, Dead
    <3>2. QED
      BY <1>d, <1>p, <2>1, <3>1
  <2>5. QED
    BY <1>4, <2>2, <2>4 DEF InUse
<1>5. ASSUME NEW p \in Process, Shutdown(p) PROVE ProcessInv'
  <2>1. /\ process[p].at \notin {"unborn", "gone", "deaf"} /\ Goes(p, "closing")
        /\ port' = Released(p) /\ flushed' = flushed
    BY <1>5 DEF Shutdown
  <2>2. port' \in {port, Free, p} /\ port' # p
    BY <1>t, <1>n, <2>1 DEF Released, ProcessTypes
  <2>3. flushed' \subseteq flushed \cup {p} /\ p \notin flushed'
    BY <1>t, <1>f, <2>1 DEF ProcessTypes
  <2>4. QED
    BY ONLY <1>g, <2>1, <2>2, <2>3
<1>6. ASSUME NEW p \in Process, Closed(p) PROVE ProcessInv'
  BY <1>6, <1>d, <1>p DEF Closed
<1>7. ASSUME NEW p \in Process, ForceExit(p) PROVE ProcessInv'
  BY <1>7, <1>d, <1>p DEF ForceExit
<1>8. ASSUME NEW p \in Process, ProcessKilled(p) PROVE ProcessInv'
  BY <1>8, <1>d DEF ProcessKilled
<1>9. ASSUME NEW p \in Process, HardRestart(p) PROVE ProcessInv'
  <2>1. /\ process[p].at \notin {"unborn", "gone", "deaf"} /\ Goes(p, "restarting")
        /\ port' = Released(p) /\ flushed' = flushed
    BY <1>9 DEF HardRestart
  <2>2. port' \in {port, Free, p} /\ port' # p
    BY <1>t, <1>n, <2>1 DEF Released, ProcessTypes
  <2>3. flushed' \subseteq flushed \cup {p} /\ p \notin flushed'
    BY <1>t, <1>f, <2>1 DEF ProcessTypes
  <2>4. QED
    BY ONLY <1>g, <2>1, <2>2, <2>3
<1>10. ASSUME NEW p \in Process, NEW closed \in BOOLEAN, Restarts(p, closed) PROVE ProcessInv'
  <2>1. /\ process[p].at \in {"restarting", "closing"} /\ port' = port
        /\ flushed' \in {flushed, flushed \cup {p}} /\ flushed' = flushed \cup IF closed THEN {p} ELSE {}
    BY <1>10 DEF Restarts
  <2>2. CASE closed /\ Goes(p, "deaf")
    BY <1>g, <1>p, <1>t, <2>1, <2>2 DEF ProcessTypes
  <2>3. CASE ~closed /\ UNCHANGED process
    BY <1>t, <2>1, <2>3 DEF ProcessInv, ProcessTypes, BornInOrder, Lineage, PortIsServed,
       FlushedEnded
  <2>4. CASE DoRestart(p)
    <3>1. PICK q \in NextUnborn :
              process' = [process EXCEPT ![q] = Spawned(q, p), ![p].at = "gone", ![p].ended = "replaced"]
      BY <2>4 DEF DoRestart
    <3>2. /\ q \in Process /\ process[q].at = "unborn" /\ q # p
          /\ \A r \in 1 .. q - 1 : process[r].at # "unborn"
      BY <2>1 DEF NextUnborn
    <3> DEFINE child == Spawned(q, p)
               dead == [process[p] EXCEPT !.at = "gone", !.ended = "replaced"]
    <3>3. /\ child \in ProcessRecord /\ child.at = "starting" /\ child.parent = p
          /\ child.ended = "none"
      <4>1. p \in 0 .. LastProcess
        BY ProcessesAssumption DEF Process
      <4>2. QED
        BY <4>1, UnbornTyped DEF Spawned, ProcessRecord
    <3>4. /\ dead \in ProcessRecord /\ dead.at = "gone" /\ dead.parent = process[p].parent
          /\ dead.ended = "replaced"
      <4>1. process[p] \in ProcessRecord
        BY <1>t DEF ProcessTypes
      <4>2. QED
        BY <4>1 DEF ProcessRecord
    <3>5. process' = [process EXCEPT ![q] = child, ![p] = dead]
      BY <1>t, <3>1, <3>2 DEF ProcessTypes
    <3> HIDE DEF child, dead
    <3>6. /\ process' \in [Process -> ProcessRecord] /\ process'[q] = child /\ process'[p] = dead
          /\ \A r \in Process \ {p, q} : process'[r] = process[r]
      BY <1>t, <3>2, <3>3, <3>4, <3>5 DEF ProcessTypes
    <3>7. ProcessTypes'
      BY <1>t, <2>1, <3>6 DEF ProcessTypes
    <3>8. p < q
      BY <1>t, <1>n, <2>1, <3>2 DEF BornInOrder
    <3>9. BornInOrder'
      <4> SUFFICES ASSUME NEW a \in Process, NEW b \in Process, b < a, process'[b].at = "unborn"
                   PROVE  process'[a].at = "unborn"
        BY DEF BornInOrder
      <4>1. b # p /\ b # q /\ process[b].at = "unborn"
        BY <3>3, <3>4, <3>6
      <4>2. process[a].at = "unborn"
        BY <1>t, <4>1 DEF BornInOrder
      <4>3. b \notin 1 .. q - 1
        BY <3>2, <4>1
      <4>4. a # q
        BY <4>3, <1>n
      <4>5. a # p
        BY <4>2, <2>1
      <4>6. QED
        BY <4>2, <4>4, <4>5, <3>6
    <3>10. \A r \in Process : process[r].parent # p
      BY <1>t, <1>n, <2>1 DEF Lineage
    <3>11. \A r \in Process \ {q} : process'[r].parent = process[r].parent
      BY <3>4, <3>6
    <3>12. process'[q].parent = p
      BY <3>3, <3>6
    <3>13. \A r \in Process : /\ process[r].at = "gone" => process'[r].at = "gone"
                              /\ process'[r].ended # "parentHasPort"
                              /\ process'[r].at = "unborn" => r # q /\ process[r].at = "unborn"
      BY <1>t, <2>1, <3>2, <3>3, <3>4, <3>6 DEF Lineage
    <3>14. \A r \in Process : process[r].parent # 0 => process[r].parent \in Process
      <4> TAKE r \in Process
      <4>1. process[r].parent \in 0 .. LastProcess
        BY <1>t DEF ProcessRecord, ProcessTypes
      <4>2. QED
        BY <4>1, ProcessesAssumption DEF Process
    <3>15. process'[p].at = "gone"
      BY <3>4, <3>6
    <3>16. ASSUME NEW r \in Process
           PROVE  /\ process'[r].parent < r
                  /\ process'[r].at = "unborn" => process'[r].parent = 0
                  /\ process'[r].parent # 0 => process'[process'[r].parent].at = "gone"
                  /\ process'[r].ended # "parentHasPort"
      <4>1. CASE r = q
        BY <4>1, <3>8, <3>12, <3>13, <3>15
      <4>2. CASE r # q
        BY <4>2, <1>t, <3>11, <3>13, <3>14 DEF Lineage
      <4>3. QED
        BY <4>1, <4>2
    <3>17. ASSUME NEW a \in Process, NEW b \in Process,
                  process'[a].parent = process'[b].parent, process'[a].parent # 0
           PROVE  a = b
      BY <3>17, <1>t, <3>10, <3>11, <3>12 DEF Lineage
    <3>18. Lineage'
      BY <3>16, <3>17 DEF Lineage
    <3>19. PortIsServed'
      BY <1>t, <2>1, <3>2, <3>6 DEF PortIsServed
    <3>20. FlushedEnded'
      BY <1>t, <2>1, <3>2, <3>6, <3>15 DEF FlushedEnded, ProcessTypes
    <3>21. QED
      BY <3>7, <3>9, <3>18, <3>19, <3>20 DEF ProcessInv
  <2>5. QED
    BY <1>10, <2>2, <2>3, <2>4 DEF Restarts
<1>11. QED
  BY <1>s, <1>o, <1>l, <1>1, <1>2, <1>3, <1>4, <1>5, <1>6, <1>7, <1>8, <1>9, <1>10 DEF
     ProcessesNext

\* What the invariant says is what the properties say.
LEMMA ProcessesMeans == ProcessInv => ProcessesTypeOK /\ OneSuccessor
<1> SUFFICES ASSUME ProcessInv PROVE ProcessesTypeOK /\ OneSuccessor
  OBVIOUS
<1>t. ProcessTypes /\ Lineage /\ PortIsServed /\ FlushedEnded
  BY DEF ProcessInv
<1>1. ProcessesTypeOK
  BY <1>t DEF ProcessesTypeOK, ProcessTypes, Lineage, PortIsServed, FlushedEnded
<1>2. ASSUME NEW p \in Process
      PROVE  Cardinality({q \in Process : process[q].parent = p}) <= 1
  <2> DEFINE Successors == {q \in Process : process[q].parent = p}
  <2>0. p # 0
    BY ProcessesAssumption DEF Process
  <2>1. Successors = {} \/ \E q \in Process : Successors = {q}
    BY <1>t, <2>0 DEF Lineage
  <2>2. Cardinality({}) = 0
    BY FS_EmptySet
  <2>3. \A q \in Process : Cardinality({q}) = 1
    BY FS_Singleton
  <2> HIDE DEF Successors
  <2>4. Cardinality(Successors) <= 1
    BY <2>1, <2>2, <2>3
  <2>5. QED
    BY <2>4 DEF Successors
<1>3. OneSuccessor
  BY <1>t, <1>1, <1>2 DEF OneSuccessor, Lineage
<1>4. QED
  BY <1>1, <1>3

\* Of any number of processes, starts, ends, crashes and restarts: a restart hands over to
\* one process, which finds its parent gone and never the parent with the port.
THEOREM ProcessesTheorem == ProcessesSpec => []OneSuccessor
<1>1. ProcessesSpec => []ProcessInv
  BY ProcessesStart, ProcessesStep, PTL DEF ProcessesSpec
<1>2. QED
  BY <1>1, ProcessesMeans, PTL
-----------------------------------------------------------------------------
(* The fallback to HTTP/1.1 *)

SentRecord == [http11 : BOOLEAN, args : {"none", "flag", "manual", "rustls"}, simple : BOOLEAN]

CurlTypes ==
    /\ clock \in 0 .. LastTime /\ chosen \in {"none", "native", "ffi", "cli", "refused"}
    /\ resolved \in {"none", "impersonate", "plain"} /\ tlsArgs \in {"none", "flag", "manual"}
    /\ curlSetting \in {"auto", "impersonate", "plain"}
    /\ http11Fallback \in BOOLEAN /\ forced \in BOOLEAN /\ noticed \in BOOLEAN
    /\ fallbackUntil \in 0 .. LastTime + FallbackTtl
    /\ trouble \in 0 .. LastTime \cup {Never}
    /\ flying \in [Request -> SentRecord]

\* A fallback ends FallbackTtl after the failure it began with, and not before.
FallbackFollows ==
    /\ clock < trouble + FallbackTtl => http11Fallback
    /\ http11Fallback => fallbackUntil = trouble + FallbackTtl

CurlInv == CurlTypes /\ FallbackFollows

\* The first state has it.
LEMMA CurlStart == CurlInit => CurlInv
<1> SUFFICES ASSUME CurlInit PROVE CurlInv
  OBVIOUS
<1>1. NotSent \in SentRecord
  BY DEF NotSent, SentRecord
<1>2. CurlTypes
  <2>1. flying \in [Request -> SentRecord]
    BY <1>1 DEF CurlInit
  <2>2. clock \in 0 .. LastTime /\ fallbackUntil \in 0 .. LastTime + FallbackTtl
    BY CurlAssumption DEF CurlInit
  <2>3. QED
    BY <2>1, <2>2 DEF CurlInit, CurlTypes
<1>3. FallbackFollows
  BY CurlAssumption DEF CurlInit, FallbackFollows, Never
<1>4. QED
  BY <1>2, <1>3 DEF CurlInv

\* Whatever is sent is of its type; and what goes over HTTP/1.1 by curl-impersonate without
\* being forced to finds the fallback active.
LEMMA SendSound ==
    ASSUME CurlInv, NEW r \in Request, NEW simple \in BOOLEAN, Send(r, simple)
    PROVE  /\ CurlInv'
           /\ \A q \in Request \ {r} : flying'[q] = flying[q]
           /\ flying'[r].http11 /\ ~forced /\ resolved' = "impersonate"
                 => clock < trouble + FallbackTtl
<1> DEFINE binary == ResolveCurlBinary
           lasting == http11Fallback /\ ~Expires(binary)
           told == chosen = "ffi" \/ (chosen = "cli" /\ binary = "impersonate")
           how(args) == [http11 |-> forced \/ (lasting /\ told), args |-> args, simple |-> simple]
<1>t. CurlTypes /\ FallbackFollows
  BY DEF CurlInv
<1>1. /\ lasting \in BOOLEAN
      /\ lasting => http11Fallback
      /\ http11Fallback => lasting \/ (binary = "impersonate" /\ clock >= fallbackUntil)
      /\ lasting /\ binary = "impersonate" => ~(clock >= fallbackUntil)
  BY <1>t DEF CurlTypes, Expires
<1>2. binary \in {"impersonate", "plain"}
  BY <1>t DEF CurlTypes, ResolveCurlBinary
<1>3. UNCHANGED <<clock, settingVars, chosen, fallbackUntil, trouble, noticed>>
  BY DEF Send
<1>4. clock \in Int /\ fallbackUntil \in Int /\ trouble \in Int /\ FallbackTtl \in Int
  BY <1>t, CurlAssumption DEF CurlTypes, Never
<1>5. PICK args \in {"none", "flag", "manual", "rustls"} :
          /\ flying' = [flying EXCEPT ![r] = how(args)]
          /\ \/ chosen = "native" /\ UNCHANGED <<resolved, tlsArgs, http11Fallback>>
             \/ /\ chosen # "native" /\ resolved' = binary /\ http11Fallback' = lasting
                /\ tlsArgs' \in {"none", "flag", "manual"}
  <2>1. CASE chosen = "native"
    BY <2>1 DEF Send
  <2>2. CASE chosen # "native"
    <3>1. PICK args \in IF binary = "impersonate" THEN DetectedArgs ELSE {"none"} :
              /\ tlsArgs' = IF binary = "impersonate" THEN args ELSE tlsArgs
              /\ flying' = [flying EXCEPT ![r] = how(args)]
      BY <2>2 DEF Send
    <3>2. args \in {"none", "flag", "manual"}
      BY <1>t, <3>1 DEF CurlTypes, DetectedArgs
    <3>3. resolved' = binary /\ http11Fallback' = lasting
      BY <2>2 DEF Send
    <3>4. tlsArgs' \in {"none", "flag", "manual"}
      BY <1>t, <3>1, <3>2 DEF CurlTypes
    <3> HIDE DEF binary, lasting, told, how
    <3>5. QED
      BY <2>2, <3>1, <3>2, <3>3, <3>4
  <2>3. QED
    BY <2>1, <2>2
<1> HIDE DEF binary, lasting
<1>6. told \in BOOLEAN /\ how(args) \in SentRecord /\ how(args).http11 = (forced \/ (lasting /\ told))
  BY <1>t, <1>1 DEF SentRecord, CurlTypes
<1> HIDE DEF told, how
<1>7. flying' \in [Request -> SentRecord] /\ flying'[r] = how(args)
      /\ \A q \in Request \ {r} : flying'[q] = flying[q]
  BY <1>t, <1>5, <1>6 DEF CurlTypes
<1>8. clock' = clock /\ fallbackUntil' = fallbackUntil /\ trouble' = trouble /\ forced' = forced
      /\ curlSetting' = curlSetting /\ chosen' = chosen /\ noticed' = noticed
  BY <1>3 DEF settingVars
<1>9. resolved' \in {"none", "impersonate", "plain"} /\ tlsArgs' \in {"none", "flag", "manual"}
      /\ http11Fallback' \in BOOLEAN
  BY <1>t, <1>1, <1>2, <1>5 DEF CurlTypes
<1>10. CurlTypes'
  BY <1>t, <1>7, <1>8, <1>9 DEF CurlTypes, Never
<1>11. FallbackFollows'
  BY <1>t, <1>1, <1>4, <1>5, <1>8 DEF FallbackFollows
<1>12. ASSUME flying'[r].http11, ~forced, resolved' = "impersonate"
       PROVE  clock < trouble + FallbackTtl
  <2>1. lasting /\ told
    BY <1>6, <1>7, <1>12
  <2>2. binary = "impersonate"
    BY <1>5, <1>12, <2>1 DEF told
  <2>3. QED
    BY <1>t, <1>1, <1>4, <2>1, <2>2 DEF FallbackFollows
<1>13. QED
  BY <1>7, <1>10, <1>11, <1>12 DEF CurlInv

\* A failure begins a fallback exactly when none is active, and the history with it.
LEMMA FailSound ==
    ASSUME CurlInv, NEW r \in Request, NEW text \in BOOLEAN, NEW code16 \in BOOLEAN,
           Fail(r, text, code16)
    PROVE  CurlInv' /\ flying' = [flying EXCEPT ![r] = NotSent]
<1> DEFINE textTold == text /\ chosen = "cli"
           codeTold == code16 /\ (flying[r].simple <=> chosen = "ffi")
           told == CheckHttp2Fallback(textTold, codeTold)
           counts == (textTold \/ codeTold) /\ clock >= trouble + FallbackTtl
<1>t. CurlTypes /\ FallbackFollows
  BY DEF CurlInv
<1>1. /\ http11Fallback' = (http11Fallback \/ told)
      /\ fallbackUntil' = IF told THEN clock + FallbackTtl ELSE fallbackUntil
      /\ trouble' = IF counts THEN clock ELSE trouble
      /\ noticed' = (noticed /\ (code16 /\ ~flying[r].http11 => http11Fallback' /\ clock < fallbackUntil'))
      /\ flying' = [flying EXCEPT ![r] = NotSent]
      /\ UNCHANGED <<clock, settingVars, chosen, resolved, tlsArgs>>
  BY DEF Fail
<1>2. told <=> ~(http11Fallback /\ clock < fallbackUntil) /\ (textTold \/ codeTold)
  BY DEF CheckHttp2Fallback
<1>3. told \in BOOLEAN
  BY DEF CheckHttp2Fallback
<1> DEFINE any == textTold \/ codeTold
<1>4. counts <=> any /\ clock >= trouble + FallbackTtl
  OBVIOUS
<1>5. told <=> ~(http11Fallback /\ clock < fallbackUntil) /\ any
  BY <1>2
<1> HIDE DEF told, any, counts
<1>6. clock \in Int /\ fallbackUntil \in Int /\ trouble \in Int /\ FallbackTtl \in Int
      /\ http11Fallback \in BOOLEAN
  BY <1>t, CurlAssumption DEF CurlTypes, Never
<1>7. told <=> counts
  BY <1>t, <1>4, <1>5, <1>6 DEF FallbackFollows
<1>8. clock' = clock /\ forced' = forced /\ curlSetting' = curlSetting /\ chosen' = chosen
      /\ resolved' = resolved /\ tlsArgs' = tlsArgs
  BY <1>1 DEF settingVars
<1>9. FallbackFollows'
  BY <1>t, <1>1, <1>6, <1>7, <1>8 DEF FallbackFollows
<1>10. NotSent \in SentRecord
  BY DEF NotSent, SentRecord
<1>11. flying' \in [Request -> SentRecord]
  BY <1>t, <1>1, <1>10 DEF CurlTypes
<1>12. noticed' \in BOOLEAN /\ http11Fallback' \in BOOLEAN
  BY <1>t, <1>1, <1>3 DEF CurlTypes
<1>13. fallbackUntil' \in 0 .. LastTime + FallbackTtl /\ trouble' \in 0 .. LastTime \cup {Never}
  BY <1>t, <1>1, CurlAssumption DEF CurlTypes
<1>14. CurlTypes'
  BY <1>t, <1>8, <1>11, <1>12, <1>13 DEF CurlTypes, Never
<1>15. QED
  BY <1>1, <1>9, <1>14 DEF CurlInv

\* Every step keeps the invariant and has the property.
LEMMA CurlStep ==
    CurlInv /\ [CurlNext]_curlVars
        => /\ CurlInv'
           /\ [\A r \in Request :
                 flying[r] = NotSent /\ flying'[r].http11 /\ ~forced /\ resolved' = "impersonate"
                 => clock < trouble + FallbackTtl]_curlVars
<1> DEFINE Fine == \A r \in Request :
                 flying[r] = NotSent /\ flying'[r].http11 /\ ~forced /\ resolved' = "impersonate"
                 => clock < trouble + FallbackTtl
<1> SUFFICES ASSUME CurlInv, [CurlNext]_curlVars PROVE CurlInv' /\ [Fine]_curlVars
  OBVIOUS
<1>t. CurlTypes /\ FallbackFollows
  BY DEF CurlInv
<1>r. NotSent \in SentRecord /\ NotSent.http11 = FALSE
  BY DEF NotSent, SentRecord
<1>i. clock \in Int /\ trouble \in Int /\ FallbackTtl \in Int
  BY <1>t, CurlAssumption DEF CurlTypes, Never
<1>q. ASSUME \A r \in Request : flying'[r] \in {flying[r], NotSent} PROVE Fine
  BY <1>q, <1>r
<1>s. CASE UNCHANGED curlVars
  BY <1>s, <1>t DEF CurlInv, CurlTypes, FallbackFollows, curlVars, settingVars, Never
<1>1. CASE InitTransport
  <2>1. /\ chosen' \in {"none", "native", "ffi", "cli", "refused"}
        /\ UNCHANGED <<clock, settingVars, resolved, tlsArgs, http11Fallback, fallbackUntil, flying,
                       trouble, noticed>>
    BY <1>1 DEF InitTransport
  <2>2. CurlInv'
    BY <1>t, <2>1 DEF CurlInv, CurlTypes, FallbackFollows, settingVars, Never
  <2>3. Fine
    BY <1>q, <2>1
  <2> HIDE DEF Fine
  <2>4. QED
    BY <2>2, <2>3
<1>2. CASE Install
  <2>1. UNCHANGED <<clock, curlSetting, forced, chosen, resolved, tlsArgs, http11Fallback,
                    fallbackUntil, flying, trouble, noticed>>
    BY <1>2 DEF Install
  <2>2. CurlInv'
    BY <1>t, <2>1 DEF CurlInv, CurlTypes, FallbackFollows, Never
  <2>3. Fine
    BY <1>q, <2>1
  <2> HIDE DEF Fine
  <2>4. QED
    BY <2>2, <2>3
<1>3. CASE Passes
  <2>1. /\ clock' = clock + 1 /\ clock < LastTime
        /\ UNCHANGED <<settingVars, chosen, resolved, tlsArgs, http11Fallback, fallbackUntil, flying,
                       trouble, noticed>>
    BY <1>3 DEF Passes
  <2>2. clock' \in 0 .. LastTime
    BY <1>t, <2>1, CurlAssumption DEF CurlTypes
  <2>3. CurlTypes'
    BY <1>t, <2>1, <2>2 DEF CurlTypes, settingVars, Never
  <2>4. FallbackFollows'
    BY <1>t, <1>i, <2>1 DEF FallbackFollows
  <2>5. Fine
    BY <1>q, <2>1
  <2> HIDE DEF Fine
  <2>6. QED
    BY <2>3, <2>4, <2>5 DEF CurlInv
<1>4. ASSUME NEW r \in Request, NEW simple \in BOOLEAN, Send(r, simple) PROVE CurlInv' /\ [Fine]_curlVars
  <2>1. /\ CurlInv'
        /\ \A q \in Request \ {r} : flying'[q] = flying[q]
        /\ flying'[r].http11 /\ ~forced /\ resolved' = "impersonate"
              => clock < trouble + FallbackTtl
    BY <1>4, SendSound
  <2>2. Fine
    BY <1>r, <2>1
  <2> HIDE DEF Fine
  <2>3. QED
    BY <2>1, <2>2
<1>5. ASSUME NEW r \in Request, Succeed(r) PROVE CurlInv' /\ [Fine]_curlVars
  <2>1. /\ flying' = [flying EXCEPT ![r] = NotSent]
        /\ UNCHANGED <<clock, settingVars, chosen, resolved, tlsArgs, http11Fallback, fallbackUntil,
                       trouble, noticed>>
    BY <1>5 DEF Succeed
  <2>2. flying' \in [Request -> SentRecord] /\ \A q \in Request : flying'[q] \in {flying[q], NotSent}
    BY <1>t, <1>r, <2>1 DEF CurlTypes
  <2>3. CurlInv'
    BY <1>t, <2>1, <2>2 DEF CurlInv, CurlTypes, FallbackFollows, settingVars, Never
  <2>4. Fine
    BY <1>q, <2>2
  <2> HIDE DEF Fine
  <2>5. QED
    BY <2>3, <2>4
<1>6. ASSUME NEW r \in Request, NEW text \in BOOLEAN, NEW code16 \in BOOLEAN, Fail(r, text, code16)
      PROVE  CurlInv' /\ [Fine]_curlVars
  <2>1. CurlInv' /\ flying' = [flying EXCEPT ![r] = NotSent]
    BY <1>6, FailSound
  <2>2. \A q \in Request : flying'[q] \in {flying[q], NotSent}
    BY <1>t, <2>1 DEF CurlTypes
  <2>3. Fine
    BY <1>q, <2>2
  <2> HIDE DEF Fine
  <2>4. QED
    BY <2>1, <2>3
<1>7. QED
  BY <1>s, <1>1, <1>2, <1>3, <1>4, <1>5, <1>6 DEF CurlNext

\* Of any number of requests that are sent and fail in any order: curl-impersonate leaves
\* HTTP/2 for no longer than FallbackTtl after a failure of it, which later failures do
\* not prolong.
THEOREM CurlTheorem == CurlSpec => Http2Retried
<1>1. CurlSpec => []CurlInv
  BY CurlStart, CurlStep, PTL DEF CurlSpec
<1>2. CurlInv => CurlTypeOK
  BY DEF CurlInv, CurlTypes, CurlTypeOK, SentRecord
<1>3. QED
  BY <1>1, <1>2, CurlStep, PTL DEF CurlSpec, Http2Retried
-----------------------------------------------------------------------------
(* Transports *)

NetworkTypes ==
    /\ http \in Http /\ way \in {http, "ws"} /\ proxied \in BOOLEAN
    /\ link \in {"connecting", "tunnelled", "requested", "answered"}
    /\ transfer \in {"running", "ended", "failed", "killed", "over"}

PromiseTypes ==
    /\ real \in {0, OK, Limited} /\ statusCode \in {0, OK, Limited} /\ reported \in {0, OK, Limited}
    /\ outcome \in {"pending", "answered", "rejected"}

BodyTypes ==
    /\ body \in {"open", "closed", "errored", "cancelled"}
    /\ sent \in 0 .. MaxChunks /\ enqueued \in 0 .. MaxChunks /\ received \in {0, 1}

FlagTypes ==
    /\ signal \in BOOLEAN /\ aborted \in BOOLEAN /\ timer \in BOOLEAN /\ complete \in BOOLEAN
    /\ thrown \in BOOLEAN

TransportTypes == NetworkTypes /\ PromiseTypes /\ BodyTypes /\ FlagTypes

\* As long as a body is open everything sent is in it; without the signal it closes with
\* the transfer.
BodyKeepsUp ==
    /\ enqueued <= sent
    /\ body = "open" => enqueued = sent
    /\ body = "closed" /\ ~signal => transfer = "over" /\ enqueued = sent

\* Why a body behind the command line closes.
CutIsKnown ==
    /\ transfer = "ended" => complete
    /\ way = "cli" /\ transfer = "killed" => aborted
    /\ way = "cli" /\ body = "closed" => complete \/ aborted

\* The backend has nothing before the connection stands; a WebSocket that was not answered
\* has sent nothing, unless its caller gave up, which ends it.
NotYetRequested ==
    /\ link \in {"connecting", "tunnelled"} /\ transfer = "running" => received = 0
    /\ way = "ws" => ~timer
    /\ way = "ws" /\ signal => transfer # "running"
    /\ way = "ws" /\ ~signal /\ transfer = "running" => outcome # "rejected"
    /\ way = "ws" /\ ~signal /\ outcome # "answered" => received = 0

TransportInv ==
    TransportTypes /\ NobodyLeftWaiting /\ BodyKeepsUp /\ CutIsKnown /\ NotYetRequested
\* The first state has it.
LEMMA TransportStart == TransportInit => TransportInv
<1> SUFFICES ASSUME TransportInit PROVE TransportInv
  OBVIOUS
<1>1. NetworkTypes
  BY DEF TransportInit, NetworkTypes
<1>2. PromiseTypes
  BY DEF TransportInit, PromiseTypes
<1>3. BodyTypes
  BY TransportsAssumption DEF TransportInit, BodyTypes
<1>4. timer = (way \in {"cli", "ffi"})
  BY DEF TransportInit
<1>5. FlagTypes
  <2>1. timer \in BOOLEAN
    BY <1>4
  <2>2. signal = FALSE /\ aborted = FALSE /\ complete = FALSE /\ thrown = FALSE
    BY DEF TransportInit
  <2>3. QED
    BY <2>1, <2>2 DEF FlagTypes
<1>6. way = "ws" => ~timer
  BY <1>4
<1>7. NobodyLeftWaiting /\ BodyKeepsUp /\ CutIsKnown
  BY DEF TransportInit, NobodyLeftWaiting, BodyKeepsUp, CutIsKnown
<1>8. NotYetRequested
  BY <1>6 DEF TransportInit, NotYetRequested
<1>9. QED
  BY <1>1, <1>2, <1>3, <1>5, <1>7, <1>8 DEF TransportInv, TransportTypes

\* Every step keeps it.
LEMMA TransportStep == TransportInv /\ [TransportNext]_transportVars => TransportInv'
<1> SUFFICES ASSUME TransportInv, [TransportNext]_transportVars PROVE TransportInv'
  OBVIOUS
<1>t. TransportTypes /\ NobodyLeftWaiting /\ BodyKeepsUp /\ CutIsKnown /\ NotYetRequested
  BY DEF TransportInv
<1> USE DEF transportVars, routeVars, networkVars, promiseVars, bodyVars
<1>s. CASE UNCHANGED transportVars
  BY <1>s, <1>t DEF TransportInv, TransportTypes, NetworkTypes, PromiseTypes, BodyTypes,
     FlagTypes, NobodyLeftWaiting, BodyKeepsUp, CutIsKnown,
     NotYetRequested
<1>b. ASSUME NEW established \in BOOLEAN, TunnelOpens(established) PROVE TransportInv'
  <2>1. TransportTypes'
    <3>1. NetworkTypes'
      BY <1>b, <1>t DEF TransportTypes, NetworkTypes, TunnelOpens, Settled
    <3>2. PromiseTypes'
      BY <1>b, <1>t DEF TransportTypes, PromiseTypes, TunnelOpens, Settled, OK, Limited
    <3>3. BodyTypes'
      BY <1>b, <1>t DEF TransportTypes, BodyTypes, BodyKeepsUp, NotYetRequested, TunnelOpens,
         Settled
    <3>4. FlagTypes'
      BY <1>b, <1>t DEF TransportTypes, FlagTypes, TunnelOpens, Settled
    <3>5. QED
      BY <3>1, <3>2, <3>3, <3>4 DEF TransportTypes
  <2>2. NobodyLeftWaiting'
    BY <1>b, <1>t DEF NobodyLeftWaiting, TransportTypes, NetworkTypes, PromiseTypes,
       BodyTypes, FlagTypes, TunnelOpens, Settled
  <2>3. BodyKeepsUp'
    BY <1>b, <1>t DEF BodyKeepsUp, NobodyLeftWaiting, TransportTypes, NetworkTypes,
       PromiseTypes, BodyTypes, FlagTypes, TunnelOpens, Settled
  <2>4. CutIsKnown'
    BY <1>b, <1>t DEF CutIsKnown, TransportTypes, NetworkTypes, PromiseTypes, BodyTypes,
       FlagTypes, TunnelOpens, Settled
  <2>5. NotYetRequested'
    BY <1>b, <1>t DEF NotYetRequested, TransportTypes, NetworkTypes, PromiseTypes, BodyTypes,
       FlagTypes, TunnelOpens, Settled
  <2>6. QED
    BY <2>1, <2>2, <2>3, <2>4, <2>5 DEF TransportInv
<1>1. CASE RequestArrives
  <2>1. TransportTypes'
    <3>1. NetworkTypes'
      BY <1>1, <1>t DEF TransportTypes, NetworkTypes, RequestArrives
    <3>2. PromiseTypes'
      BY <1>1, <1>t DEF TransportTypes, PromiseTypes, RequestArrives, OK, Limited
    <3>3. BodyTypes'
      BY <1>1, <1>t DEF TransportTypes, BodyTypes, BodyKeepsUp, NotYetRequested, RequestArrives
    <3>4. FlagTypes'
      BY <1>1, <1>t DEF TransportTypes, FlagTypes, RequestArrives
    <3>5. QED
      BY <3>1, <3>2, <3>3, <3>4 DEF TransportTypes
  <2>2. NobodyLeftWaiting'
    BY <1>1, <1>t DEF NobodyLeftWaiting, TransportTypes, NetworkTypes, PromiseTypes,
       BodyTypes, FlagTypes, RequestArrives
  <2>3. BodyKeepsUp'
    BY <1>1, <1>t DEF BodyKeepsUp, NobodyLeftWaiting, TransportTypes, NetworkTypes,
       PromiseTypes, BodyTypes, FlagTypes, RequestArrives
  <2>4. CutIsKnown'
    BY <1>1, <1>t DEF CutIsKnown, TransportTypes, NetworkTypes, PromiseTypes, BodyTypes,
       FlagTypes, RequestArrives
  <2>5. NotYetRequested'
    BY <1>1, <1>t DEF NotYetRequested, TransportTypes, NetworkTypes, PromiseTypes, BodyTypes,
       FlagTypes, RequestArrives
  <2>6. QED
    BY <2>1, <2>2, <2>3, <2>4, <2>5 DEF TransportInv
<1>2. CASE SocketOpens
  <2>1. TransportTypes'
    <3>1. NetworkTypes'
      BY <1>2, <1>t DEF TransportTypes, NetworkTypes, SocketOpens, Settled, AnswersAtOnce
    <3>2. PromiseTypes'
      BY <1>2, <1>t DEF TransportTypes, PromiseTypes, SocketOpens, Settled, AnswersAtOnce, OK,
         Limited
    <3>3. BodyTypes'
      BY <1>2, <1>t DEF TransportTypes, BodyTypes, BodyKeepsUp, NotYetRequested, SocketOpens,
         Settled, AnswersAtOnce
    <3>4. FlagTypes'
      BY <1>2, <1>t DEF TransportTypes, FlagTypes, SocketOpens, Settled, AnswersAtOnce
    <3>5. QED
      BY <3>1, <3>2, <3>3, <3>4 DEF TransportTypes
  <2>2. NobodyLeftWaiting'
    BY <1>2, <1>t DEF NobodyLeftWaiting, TransportTypes, NetworkTypes, PromiseTypes,
       BodyTypes, FlagTypes, SocketOpens, Settled, AnswersAtOnce
  <2>3. BodyKeepsUp'
    BY <1>2, <1>t DEF BodyKeepsUp, NobodyLeftWaiting, TransportTypes, NetworkTypes,
       PromiseTypes, BodyTypes, FlagTypes, SocketOpens, Settled, AnswersAtOnce
  <2>4. CutIsKnown'
    BY <1>2, <1>t DEF CutIsKnown, TransportTypes, NetworkTypes, PromiseTypes, BodyTypes,
       FlagTypes, SocketOpens, Settled, AnswersAtOnce
  <2>5. NotYetRequested'
    BY <1>2, <1>t DEF NotYetRequested, TransportTypes, NetworkTypes, PromiseTypes, BodyTypes,
       FlagTypes, SocketOpens, Settled, AnswersAtOnce
  <2>6. QED
    BY <2>1, <2>2, <2>3, <2>4, <2>5 DEF TransportInv
<1>3. CASE ChunkArrives
  <2>1. TransportTypes'
    <3>1. NetworkTypes'
      BY <1>3, <1>t DEF TransportTypes, NetworkTypes, ChunkArrives, Enqueue
    <3>2. PromiseTypes'
      BY <1>3, <1>t DEF TransportTypes, PromiseTypes, ChunkArrives, Enqueue, OK, Limited
    <3>3. BodyTypes'
      BY <1>3, <1>t, TransportsAssumption DEF TransportTypes, BodyTypes, BodyKeepsUp,
         NotYetRequested, ChunkArrives, Enqueue
    <3>4. FlagTypes'
      BY <1>3, <1>t DEF TransportTypes, FlagTypes, ChunkArrives, Enqueue
    <3>5. QED
      BY <3>1, <3>2, <3>3, <3>4 DEF TransportTypes
  <2>2. NobodyLeftWaiting'
    BY <1>3, <1>t DEF NobodyLeftWaiting, TransportTypes, NetworkTypes, PromiseTypes,
       BodyTypes, FlagTypes, ChunkArrives, Enqueue
  <2>3. BodyKeepsUp'
    BY <1>3, <1>t DEF BodyKeepsUp, NobodyLeftWaiting, TransportTypes, NetworkTypes,
       PromiseTypes, BodyTypes, FlagTypes, ChunkArrives, Enqueue
  <2>4. CutIsKnown'
    BY <1>3, <1>t DEF CutIsKnown, TransportTypes, NetworkTypes, PromiseTypes, BodyTypes,
       FlagTypes, ChunkArrives, Enqueue
  <2>5. NotYetRequested'
    BY <1>3, <1>t DEF NotYetRequested, TransportTypes, NetworkTypes, PromiseTypes, BodyTypes,
       FlagTypes, ChunkArrives, Enqueue
  <2>6. QED
    BY <2>1, <2>2, <2>3, <2>4, <2>5 DEF TransportInv
<1>4. CASE ResponseEnds
  <2>1. TransportTypes'
    <3>1. NetworkTypes'
      BY <1>4, <1>t DEF TransportTypes, NetworkTypes, ResponseEnds
    <3>2. PromiseTypes'
      BY <1>4, <1>t DEF TransportTypes, PromiseTypes, ResponseEnds, OK, Limited
    <3>3. BodyTypes'
      BY <1>4, <1>t DEF TransportTypes, BodyTypes, BodyKeepsUp, NotYetRequested, ResponseEnds
    <3>4. FlagTypes'
      BY <1>4, <1>t DEF TransportTypes, FlagTypes, ResponseEnds
    <3>5. QED
      BY <3>1, <3>2, <3>3, <3>4 DEF TransportTypes
  <2>2. NobodyLeftWaiting'
    BY <1>4, <1>t DEF NobodyLeftWaiting, TransportTypes, NetworkTypes, PromiseTypes,
       BodyTypes, FlagTypes, ResponseEnds
  <2>3. BodyKeepsUp'
    BY <1>4, <1>t DEF BodyKeepsUp, NobodyLeftWaiting, TransportTypes, NetworkTypes,
       PromiseTypes, BodyTypes, FlagTypes, ResponseEnds
  <2>4. CutIsKnown'
    BY <1>4, <1>t DEF CutIsKnown, TransportTypes, NetworkTypes, PromiseTypes, BodyTypes,
       FlagTypes, ResponseEnds
  <2>5. NotYetRequested'
    BY <1>4, <1>t DEF NotYetRequested, TransportTypes, NetworkTypes, PromiseTypes, BodyTypes,
       FlagTypes, ResponseEnds
  <2>6. QED
    BY <2>1, <2>2, <2>3, <2>4, <2>5 DEF TransportInv
<1>5. ASSUME NEW status \in {OK, Limited}, HeadersArrive(status) PROVE TransportInv'
  <2>1. TransportTypes'
    <3>1. NetworkTypes'
      BY <1>5, <1>t DEF TransportTypes, NetworkTypes, HeadersArrive, Settled, AnswersAtOnce
    <3>2. PromiseTypes'
      BY <1>5, <1>t DEF TransportTypes, PromiseTypes, HeadersArrive, Settled, AnswersAtOnce,
         OK, Limited
    <3>3. BodyTypes'
      BY <1>5, <1>t DEF TransportTypes, BodyTypes, BodyKeepsUp, NotYetRequested,
         HeadersArrive, Settled, AnswersAtOnce
    <3>4. FlagTypes'
      BY <1>5, <1>t DEF TransportTypes, FlagTypes, HeadersArrive, Settled, AnswersAtOnce
    <3>5. QED
      BY <3>1, <3>2, <3>3, <3>4 DEF TransportTypes
  <2>2. NobodyLeftWaiting'
    BY <1>5, <1>t DEF NobodyLeftWaiting, TransportTypes, NetworkTypes, PromiseTypes,
       BodyTypes, FlagTypes, HeadersArrive, Settled, AnswersAtOnce
  <2>3. BodyKeepsUp'
    BY <1>5, <1>t DEF BodyKeepsUp, NobodyLeftWaiting, TransportTypes, NetworkTypes,
       PromiseTypes, BodyTypes, FlagTypes, HeadersArrive, Settled, AnswersAtOnce
  <2>4. CutIsKnown'
    BY <1>5, <1>t DEF CutIsKnown, TransportTypes, NetworkTypes, PromiseTypes, BodyTypes,
       FlagTypes, HeadersArrive, Settled, AnswersAtOnce
  <2>5. NotYetRequested'
    BY <1>5, <1>t DEF NotYetRequested, TransportTypes, NetworkTypes, PromiseTypes, BodyTypes,
       FlagTypes, HeadersArrive, Settled, AnswersAtOnce
  <2>6. QED
    BY <2>1, <2>2, <2>3, <2>4, <2>5 DEF TransportInv
<1>6. CASE ConnectionFails
  <2>1. TransportTypes'
    <3>1. NetworkTypes'
      BY <1>6, <1>t DEF TransportTypes, NetworkTypes, ConnectionFails
    <3>2. PromiseTypes'
      BY <1>6, <1>t DEF TransportTypes, PromiseTypes, ConnectionFails, OK, Limited
    <3>3. BodyTypes'
      BY <1>6, <1>t DEF TransportTypes, BodyTypes, BodyKeepsUp, NotYetRequested, ConnectionFails
    <3>4. FlagTypes'
      BY <1>6, <1>t DEF TransportTypes, FlagTypes, ConnectionFails
    <3>5. QED
      BY <3>1, <3>2, <3>3, <3>4 DEF TransportTypes
  <2>2. NobodyLeftWaiting'
    BY <1>6, <1>t DEF NobodyLeftWaiting, TransportTypes, NetworkTypes, PromiseTypes,
       BodyTypes, FlagTypes, ConnectionFails
  <2>3. BodyKeepsUp'
    BY <1>6, <1>t DEF BodyKeepsUp, NobodyLeftWaiting, TransportTypes, NetworkTypes,
       PromiseTypes, BodyTypes, FlagTypes, ConnectionFails
  <2>4. CutIsKnown'
    BY <1>6, <1>t DEF CutIsKnown, TransportTypes, NetworkTypes, PromiseTypes, BodyTypes,
       FlagTypes, ConnectionFails
  <2>5. NotYetRequested'
    BY <1>6, <1>t DEF NotYetRequested, TransportTypes, NetworkTypes, PromiseTypes, BodyTypes,
       FlagTypes, ConnectionFails
  <2>6. QED
    BY <2>1, <2>2, <2>3, <2>4, <2>5 DEF TransportInv
<1>7. CASE Killed
  <2>1. TransportTypes'
    <3>1. NetworkTypes'
      BY <1>7, <1>t DEF TransportTypes, NetworkTypes, Killed
    <3>2. PromiseTypes'
      BY <1>7, <1>t DEF TransportTypes, PromiseTypes, Killed, OK, Limited
    <3>3. BodyTypes'
      BY <1>7, <1>t DEF TransportTypes, BodyTypes, BodyKeepsUp, NotYetRequested, Killed
    <3>4. FlagTypes'
      BY <1>7, <1>t DEF TransportTypes, FlagTypes, Killed
    <3>5. QED
      BY <3>1, <3>2, <3>3, <3>4 DEF TransportTypes
  <2>2. NobodyLeftWaiting'
    BY <1>7, <1>t DEF NobodyLeftWaiting, TransportTypes, NetworkTypes, PromiseTypes,
       BodyTypes, FlagTypes, Killed
  <2>3. BodyKeepsUp'
    BY <1>7, <1>t DEF BodyKeepsUp, NobodyLeftWaiting, TransportTypes, NetworkTypes,
       PromiseTypes, BodyTypes, FlagTypes, Killed
  <2>4. CutIsKnown'
    BY <1>7, <1>t DEF CutIsKnown, TransportTypes, NetworkTypes, PromiseTypes, BodyTypes,
       FlagTypes, Killed
  <2>5. NotYetRequested'
    BY <1>7, <1>t DEF NotYetRequested, TransportTypes, NetworkTypes, PromiseTypes, BodyTypes,
       FlagTypes, Killed
  <2>6. QED
    BY <2>1, <2>2, <2>3, <2>4, <2>5 DEF TransportInv
<1>8. CASE LoopResolves
  <2>1. TransportTypes'
    <3>1. NetworkTypes'
      BY <1>8, <1>t DEF TransportTypes, NetworkTypes, LoopResolves
    <3>2. PromiseTypes'
      BY <1>8, <1>t DEF TransportTypes, PromiseTypes, LoopResolves, OK, Limited
    <3>3. BodyTypes'
      BY <1>8, <1>t DEF TransportTypes, BodyTypes, BodyKeepsUp, NotYetRequested, LoopResolves
    <3>4. FlagTypes'
      BY <1>8, <1>t DEF TransportTypes, FlagTypes, LoopResolves
    <3>5. QED
      BY <3>1, <3>2, <3>3, <3>4 DEF TransportTypes
  <2>2. NobodyLeftWaiting'
    BY <1>8, <1>t DEF NobodyLeftWaiting, TransportTypes, NetworkTypes, PromiseTypes,
       BodyTypes, FlagTypes, LoopResolves
  <2>3. BodyKeepsUp'
    BY <1>8, <1>t DEF BodyKeepsUp, NobodyLeftWaiting, TransportTypes, NetworkTypes,
       PromiseTypes, BodyTypes, FlagTypes, LoopResolves
  <2>4. CutIsKnown'
    BY <1>8, <1>t DEF CutIsKnown, TransportTypes, NetworkTypes, PromiseTypes, BodyTypes,
       FlagTypes, LoopResolves
  <2>5. NotYetRequested'
    BY <1>8, <1>t DEF NotYetRequested, TransportTypes, NetworkTypes, PromiseTypes, BodyTypes,
       FlagTypes, LoopResolves
  <2>6. QED
    BY <2>1, <2>2, <2>3, <2>4, <2>5 DEF TransportInv
<1>9. CASE HeaderTimeout
  <2>1. TransportTypes'
    <3>1. NetworkTypes'
      BY <1>9, <1>t DEF TransportTypes, NetworkTypes, HeaderTimeout
    <3>2. PromiseTypes'
      BY <1>9, <1>t DEF TransportTypes, PromiseTypes, HeaderTimeout, OK, Limited
    <3>3. BodyTypes'
      BY <1>9, <1>t DEF TransportTypes, BodyTypes, BodyKeepsUp, NotYetRequested, HeaderTimeout
    <3>4. FlagTypes'
      BY <1>9, <1>t DEF TransportTypes, FlagTypes, HeaderTimeout
    <3>5. QED
      BY <3>1, <3>2, <3>3, <3>4 DEF TransportTypes
  <2>2. NobodyLeftWaiting'
    BY <1>9, <1>t DEF NobodyLeftWaiting, TransportTypes, NetworkTypes, PromiseTypes,
       BodyTypes, FlagTypes, HeaderTimeout
  <2>3. BodyKeepsUp'
    BY <1>9, <1>t DEF BodyKeepsUp, NobodyLeftWaiting, TransportTypes, NetworkTypes,
       PromiseTypes, BodyTypes, FlagTypes, HeaderTimeout
  <2>4. CutIsKnown'
    BY <1>9, <1>t DEF CutIsKnown, TransportTypes, NetworkTypes, PromiseTypes, BodyTypes,
       FlagTypes, HeaderTimeout
  <2>5. NotYetRequested'
    BY <1>9, <1>t DEF NotYetRequested, TransportTypes, NetworkTypes, PromiseTypes, BodyTypes,
       FlagTypes, HeaderTimeout
  <2>6. QED
    BY <2>1, <2>2, <2>3, <2>4, <2>5 DEF TransportInv
<1>10. CASE Abort
  <2>1. TransportTypes'
    <3>1. NetworkTypes'
      BY <1>10, <1>t DEF TransportTypes, NetworkTypes, Abort, Listens, Settled
    <3>2. PromiseTypes'
      BY <1>10, <1>t DEF TransportTypes, PromiseTypes, Abort, Listens, Settled, OK, Limited
    <3>3. BodyTypes'
      BY <1>10, <1>t DEF TransportTypes, BodyTypes, BodyKeepsUp, NotYetRequested, Abort,
         Listens, Settled
    <3>4. FlagTypes'
      BY <1>10, <1>t DEF TransportTypes, FlagTypes, Abort, Listens, Settled
    <3>5. QED
      BY <3>1, <3>2, <3>3, <3>4 DEF TransportTypes
  <2>2. NobodyLeftWaiting'
    BY <1>10, <1>t DEF NobodyLeftWaiting, TransportTypes, NetworkTypes, PromiseTypes,
       BodyTypes, FlagTypes, Abort, Listens, Settled
  <2>3. BodyKeepsUp'
    BY <1>10, <1>t DEF BodyKeepsUp, NobodyLeftWaiting, TransportTypes, NetworkTypes,
       PromiseTypes, BodyTypes, FlagTypes, Abort, Listens, Settled
  <2>4. CutIsKnown'
    BY <1>10, <1>t DEF CutIsKnown, TransportTypes, NetworkTypes, PromiseTypes, BodyTypes,
       FlagTypes, Abort, Listens, Settled
  <2>5. NotYetRequested'
    BY <1>10, <1>t DEF NotYetRequested, TransportTypes, NetworkTypes, PromiseTypes, BodyTypes,
       FlagTypes, Abort, Listens, Settled
  <2>6. QED
    BY <2>1, <2>2, <2>3, <2>4, <2>5 DEF TransportInv
<1>11. CASE CancelErrorBody
  <2>1. TransportTypes'
    <3>1. NetworkTypes'
      BY <1>11, <1>t DEF TransportTypes, NetworkTypes, CancelErrorBody
    <3>2. PromiseTypes'
      BY <1>11, <1>t DEF TransportTypes, PromiseTypes, CancelErrorBody, OK, Limited
    <3>3. BodyTypes'
      BY <1>11, <1>t DEF TransportTypes, BodyTypes, BodyKeepsUp, NotYetRequested,
         CancelErrorBody
    <3>4. FlagTypes'
      BY <1>11, <1>t DEF TransportTypes, FlagTypes, CancelErrorBody
    <3>5. QED
      BY <3>1, <3>2, <3>3, <3>4 DEF TransportTypes
  <2>2. NobodyLeftWaiting'
    BY <1>11, <1>t DEF NobodyLeftWaiting, TransportTypes, NetworkTypes, PromiseTypes,
       BodyTypes, FlagTypes, CancelErrorBody
  <2>3. BodyKeepsUp'
    BY <1>11, <1>t DEF BodyKeepsUp, NobodyLeftWaiting, TransportTypes, NetworkTypes,
       PromiseTypes, BodyTypes, FlagTypes, CancelErrorBody
  <2>4. CutIsKnown'
    BY <1>11, <1>t DEF CutIsKnown, TransportTypes, NetworkTypes, PromiseTypes, BodyTypes,
       FlagTypes, CancelErrorBody
  <2>5. NotYetRequested'
    BY <1>11, <1>t DEF NotYetRequested, TransportTypes, NetworkTypes, PromiseTypes, BodyTypes,
       FlagTypes, CancelErrorBody
  <2>6. QED
    BY <2>1, <2>2, <2>3, <2>4, <2>5 DEF TransportInv
<1>12. CASE TransferOver
  <2>1. TransportTypes'
    <3>1. NetworkTypes'
      BY <1>12, <1>t DEF TransportTypes, NetworkTypes, TransferOver, OverOutcome, EndOf, Settled
    <3>2. PromiseTypes'
      BY <1>12, <1>t DEF TransportTypes, PromiseTypes, TransferOver, OverOutcome, EndOf,
         Settled, OK, Limited
    <3>3. BodyTypes'
      BY <1>12, <1>t DEF TransportTypes, BodyTypes, BodyKeepsUp, NotYetRequested,
         TransferOver, OverOutcome, EndOf, Settled
    <3>4. FlagTypes'
      BY <1>12, <1>t DEF TransportTypes, FlagTypes, TransferOver, OverOutcome, EndOf, Settled
    <3>5. QED
      BY <3>1, <3>2, <3>3, <3>4 DEF TransportTypes
  <2>2. NobodyLeftWaiting'
    BY <1>12, <1>t DEF NobodyLeftWaiting, TransportTypes, NetworkTypes, PromiseTypes,
       BodyTypes, FlagTypes, TransferOver, OverOutcome, EndOf, Settled
  <2>3. BodyKeepsUp'
    BY <1>12, <1>t DEF BodyKeepsUp, NobodyLeftWaiting, TransportTypes, NetworkTypes,
       PromiseTypes, BodyTypes, FlagTypes, TransferOver, OverOutcome, EndOf, Settled
  <2>4. CutIsKnown'
    BY <1>12, <1>t DEF CutIsKnown, TransportTypes, NetworkTypes, PromiseTypes, BodyTypes,
       FlagTypes, TransferOver, OverOutcome, EndOf, Settled
  <2>5. NotYetRequested'
    BY <1>12, <1>t DEF NotYetRequested, TransportTypes, NetworkTypes, PromiseTypes, BodyTypes,
       FlagTypes, TransferOver, OverOutcome, EndOf, Settled
  <2>6. QED
    BY <2>1, <2>2, <2>3, <2>4, <2>5 DEF TransportInv
<1>13. CASE FallBackToHttp
  <2>1. TransportTypes'
    <3>1. NetworkTypes'
      BY <1>13, <1>t DEF TransportTypes, NetworkTypes, FallBackToHttp, Http
    <3>2. PromiseTypes'
      BY <1>13, <1>t DEF TransportTypes, PromiseTypes, FallBackToHttp, Http, OK, Limited
    <3>3. BodyTypes'
      BY <1>13, <1>t, TransportsAssumption DEF TransportTypes, BodyTypes, BodyKeepsUp,
         NotYetRequested, FallBackToHttp, Http
    <3>4. FlagTypes'
      BY <1>13, <1>t DEF TransportTypes, FlagTypes, FallBackToHttp, Http
    <3>5. QED
      BY <3>1, <3>2, <3>3, <3>4 DEF TransportTypes
  <2>2. NobodyLeftWaiting'
    BY <1>13, <1>t DEF NobodyLeftWaiting, TransportTypes, NetworkTypes, PromiseTypes,
       BodyTypes, FlagTypes, FallBackToHttp
  <2>3. BodyKeepsUp'
    BY <1>13, <1>t DEF BodyKeepsUp, NobodyLeftWaiting, TransportTypes, NetworkTypes,
       PromiseTypes, BodyTypes, FlagTypes, FallBackToHttp
  <2>4. CutIsKnown'
    BY <1>13, <1>t DEF CutIsKnown, TransportTypes, NetworkTypes, PromiseTypes, BodyTypes,
       FlagTypes, FallBackToHttp
  <2>5. NotYetRequested'
    BY <1>13, <1>t DEF NotYetRequested, TransportTypes, NetworkTypes, PromiseTypes, BodyTypes,
       FlagTypes, FallBackToHttp, Http
  <2>6. QED
    BY <2>1, <2>2, <2>3, <2>4, <2>5 DEF TransportInv
<1>14. QED
  BY <1>s, <1>b, <1>1, <1>2, <1>3, <1>4, <1>5, <1>6, <1>7, <1>8, <1>9, <1>10, <1>11, <1>12,
     <1>13 DEF TransportNext

\* What the invariant says is what the properties say.
LEMMA TransportMeans == TransportInv => TransportTypeOK /\ ResponsesArrive
<1> SUFFICES ASSUME TransportInv PROVE TransportTypeOK /\ ResponsesArrive
  OBVIOUS
<1>t. TransportTypes /\ NobodyLeftWaiting /\ BodyKeepsUp /\ CutIsKnown /\ NotYetRequested
  BY DEF TransportInv
<1>1. enqueued \in 0 .. sent
  BY <1>t, TransportsAssumption DEF TransportTypes, NetworkTypes, PromiseTypes, BodyTypes,
     FlagTypes, BodyKeepsUp
<1>2. received \in 0 .. 2
  BY <1>t DEF TransportTypes, NetworkTypes, PromiseTypes, BodyTypes, FlagTypes
<1>3. TransportTypeOK
  BY <1>t, <1>1, <1>2 DEF TransportTypes, NetworkTypes, PromiseTypes, BodyTypes, FlagTypes,
     TransportTypeOK
<1>4. ResponsesArrive
  BY <1>t, <1>3 DEF ResponsesArrive, TransportTypes, NetworkTypes, PromiseTypes, BodyTypes,
     FlagTypes, BodyWhole, BodyKeepsUp, CutIsSignalled, CutIsKnown,
     RequestedOnce
<1>5. QED
  BY <1>3, <1>4

\* Whichever way a request goes, with and without a proxy, whatever the number of chunks,
\* and however it ends or falls back: nobody is left waiting; a body that closes has all the
\* chunks the backend sent, unless the caller aborted it; behind the command line it closes
\* on a response that was cut only if curl was killed; the backend gets the request once.
THEOREM TransportTheorem == TransportSpec => []ResponsesArrive
<1>1. TransportSpec => []TransportInv
  BY TransportStart, TransportStep, PTL DEF TransportSpec
<1>2. QED
  BY <1>1, TransportMeans, PTL
-----------------------------------------------------------------------------
(* Updates of the checkout and of the version *)

CheckRecord ==
    [at : {"idle", "fetch", "count", "apply", "appcast"}, saw : Version \cup {NoVersion},
     since : Version]

CodeTypes ==
    /\ origin \in Commit /\ fetched \in Commit /\ head \in Commit
    /\ installed \in Commit /\ built \in Commit /\ running \in Commit
    /\ behind \in BOOLEAN /\ inProgress \in BOOLEAN /\ listening \in BOOLEAN
    /\ restart \in {"none", "delayed", "closing"}

VersionTypes ==
    /\ published \in Version /\ baseline \in Version /\ clientVersion \in Version
    /\ override \in Version \cup {NoVersion} /\ reportedVersion \in Version \cup {NoVersion}
    /\ pipelineBusy \in BOOLEAN /\ restartsDone \in 0 .. MaxRestarts

UpdaterTypes == updater \in [{"selfTimer", "admin"} -> {"idle", "pull", "install", "build"}]

CheckerTypes == checker \in [Checker -> CheckRecord]

\* The flag is up whenever an update is at work, and no other is then.
OneAtWork ==
    /\ \A u \in {"selfTimer", "admin"} : updater[u] # "idle" => inProgress
    /\ updater["selfTimer"] = "idle" \/ updater["admin"] = "idle"

\* What outlived its process is of an earlier start, and one command of an update for each.
SurvivorsOwn ==
    /\ \A s \in survivors :
          s.start \in 0 .. restartsDone - 1 /\ s.does \in Command \cup {"pipeline"}
    /\ \A s, t \in survivors :
          s.start = t.start /\ s.does # "pipeline" /\ t.does # "pipeline" => s = t

UpdateInv ==
    /\ CodeTypes /\ VersionTypes /\ UpdaterTypes /\ CheckerTypes
    /\ OneAtWork /\ OnePipelineAtATime /\ SurvivorsOwn

\* The checks' records.
LEMMA ChecksTyped ==
    ASSUME VersionTypes
    PROVE  /\ NoCheck \in CheckRecord /\ Appcast \in CheckRecord
           /\ At("fetch") \in CheckRecord /\ At("count") \in CheckRecord /\ At("apply") \in CheckRecord
<1>1. NoCheck \in CheckRecord
  BY UpdatesAssumption DEF NoCheck, CheckRecord, Version
<1>2. Appcast \in CheckRecord
  <2>1. Current \in Version \cup {NoVersion} /\ published \in Version
    BY DEF VersionTypes, Current
  <2>2. QED
    BY <2>1 DEF Appcast, CheckRecord
<1>3. ASSUME NEW stage \in {"fetch", "count", "apply"} PROVE At(stage) \in CheckRecord
  BY <1>1 DEF At, CheckRecord
<1>4. QED
  BY <1>1, <1>2, <1>3

\* The first state has it.
LEMMA UpdateStart == UpdateInit => UpdateInv
<1> SUFFICES ASSUME UpdateInit PROVE UpdateInv
  OBVIOUS
<1>0. 0 \in Commit /\ 0 \in Version /\ 0 \in 0 .. MaxRestarts
  BY UpdatesAssumption DEF Commit, Version
<1>1. CodeTypes
  BY <1>0 DEF UpdateInit, CodeTypes
<1>2. VersionTypes
  <2>1. published \in Version /\ baseline \in Version /\ clientVersion \in Version
    BY <1>0 DEF UpdateInit
  <2>2. /\ override \in Version \cup {NoVersion} /\ reportedVersion \in Version \cup {NoVersion}
        /\ pipelineBusy \in BOOLEAN /\ restartsDone \in 0 .. MaxRestarts
    BY <1>0 DEF UpdateInit
  <2>3. QED
    BY <2>1, <2>2 DEF VersionTypes
<1>3. UpdaterTypes /\ OneAtWork
  BY DEF UpdateInit, UpdaterTypes, OneAtWork
<1>4. CheckerTypes
  BY <1>2, ChecksTyped DEF UpdateInit, CheckerTypes
<1>5. OnePipelineAtATime /\ SurvivorsOwn
  BY DEF UpdateInit, OnePipelineAtATime, SurvivorsOwn
<1>6. QED
  BY <1>1, <1>2, <1>3, <1>4, <1>5 DEF UpdateInv

\* Every step keeps it.
LEMMA UpdateStepKeeps == UpdateInv /\ [UpdateNext]_updateVars => UpdateInv'
<1> SUFFICES ASSUME UpdateInv, [UpdateNext]_updateVars PROVE UpdateInv'
  OBVIOUS
<1>t. /\ CodeTypes /\ VersionTypes /\ UpdaterTypes /\ CheckerTypes /\ OneAtWork
      /\ OnePipelineAtATime /\ SurvivorsOwn
  BY DEF UpdateInv
<1>k. /\ NoCheck \in CheckRecord /\ Appcast \in CheckRecord
      /\ At("fetch") \in CheckRecord /\ At("count") \in CheckRecord /\ At("apply") \in CheckRecord
  BY <1>t, ChecksTyped
<1>d. DOMAIN updater = {"selfTimer", "admin"}
  BY <1>t DEF UpdaterTypes
<1>c. \A c \in Checker : Continued(c) \in CheckRecord
  BY <1>k DEF Continued
\* What a step leaves alone keeps what is said of it.
<1>l. ASSUME UNCHANGED <<restartsDone, survivors>> PROVE SurvivorsOwn'
  BY <1>l, <1>t DEF SurvivorsOwn
<1>v. ASSUME UNCHANGED <<versionVars, restartsDone, survivors>>
      PROVE  VersionTypes' /\ OnePipelineAtATime' /\ SurvivorsOwn'
  BY <1>v, <1>t, <1>l DEF versionVars, VersionTypes, OnePipelineAtATime, Version, NoVersion
<1>u. ASSUME UNCHANGED <<updater, inProgress>> PROVE UpdaterTypes' /\ OneAtWork'
  BY <1>u, <1>t DEF UpdaterTypes, OneAtWork
<1>w. ASSUME UNCHANGED codeVars PROVE CodeTypes' /\ UpdaterTypes' /\ OneAtWork'
  BY <1>w, <1>t, <1>u DEF codeVars, CodeTypes, Commit
<1>e. ASSUME NEW c \in Checker, NEW new \in CheckRecord, checker' = [checker EXCEPT ![c] = new]
      PROVE  CheckerTypes'
  BY <1>e, <1>t DEF CheckerTypes, CheckRecord, Checker, Version, NoVersion
<1>x. ASSUME UNCHANGED checker PROVE CheckerTypes'
  BY <1>x, <1>t DEF CheckerTypes, CheckRecord, Checker, Version, NoVersion
<1>o. ASSUME NEW u \in {"selfTimer", "admin"}, updater[u] # "idle", UpdateOver(u)
      PROVE  UpdaterTypes' /\ OneAtWork' /\ inProgress' = FALSE /\ CheckerTypes'
  <2>1. /\ inProgress' = FALSE /\ updater' = [updater EXCEPT ![u] = "idle"]
        /\ checker' = IF u = "selfTimer" THEN [checker EXCEPT ![u] = NoCheck] ELSE checker
    BY <1>o DEF UpdateOver
  <2>2. \A v \in {"selfTimer", "admin"} : updater'[v] = "idle"
    BY <1>o, <1>t, <2>1 DEF UpdaterTypes, OneAtWork
  <2>3. UpdaterTypes'
    BY <1>t, <2>1 DEF UpdaterTypes
  <2>4. CheckerTypes'
    BY <1>e, <1>x, <1>k, <2>1 DEF Checker
  <2>5. QED
    BY <2>1, <2>2, <2>3, <2>4 DEF OneAtWork
<1>s. CASE UNCHANGED updateVars
  BY <1>s, <1>v, <1>w, <1>x DEF updateVars, UpdateInv
<1>1. CASE Push
  <2>1. /\ origin' = origin + 1 /\ origin < MaxCommit
        /\ UNCHANGED <<fetched, head, installed, built, running, behind, inProgress, updater,
                       restart, listening, versionVars, checker, restartsDone, survivors>>
    BY <1>1 DEF Push
  <2>2. CodeTypes'
    BY <1>t, <2>1, UpdatesAssumption DEF CodeTypes, Commit
  <2>3. QED
    BY <1>v, <1>u, <1>x, <2>1, <2>2 DEF UpdateInv
<1>2. CASE Publish
  <2>1. /\ published' = published + 1 /\ published < MaxVersion
        /\ UNCHANGED <<codeVars, baseline, override, clientVersion, reportedVersion, pipelineBusy,
                       pipelines, checker, restartsDone, survivors>>
    BY <1>2 DEF Publish
  <2>2. VersionTypes'
    BY <1>t, <2>1, UpdatesAssumption DEF VersionTypes, Version, NoVersion
  <2>3. OnePipelineAtATime'
    BY <1>t, <2>1 DEF OnePipelineAtATime
  <2>4. QED
    BY <1>w, <1>x, <1>l, <2>1, <2>2, <2>3 DEF UpdateInv
<1>3. CASE PollStarts
  BY <1>3, <1>v, <1>w, <1>e, <1>k DEF PollStarts, Checker, UpdateInv
<1>4. CASE ApplyUpdate
  <2>1. /\ ~inProgress /\ inProgress' = TRUE
        /\ updater' = [updater EXCEPT !["admin"] = "pull"]
        /\ UNCHANGED <<origin, fetched, head, installed, built, running, behind, restart,
                       listening, versionVars, checker, restartsDone, survivors>>
    BY <1>4 DEF ApplyUpdate
  <2>2. CodeTypes'
    BY <1>t, <2>1 DEF CodeTypes, Commit
  <2>3. UpdaterTypes' /\ OneAtWork'
    BY <1>t, <2>1 DEF UpdaterTypes, OneAtWork
  <2>4. QED
    BY <1>v, <1>x, <2>1, <2>2, <2>3 DEF UpdateInv
<1>5. ASSUME NEW c \in Checker, CheckStarts(c) PROVE UpdateInv'
  BY <1>5, <1>v, <1>w, <1>e, <1>k DEF CheckStarts, UpdateInv
<1>6. ASSUME NEW c \in Checker, Fetch(c) PROVE UpdateInv'
  <2>1. /\ fetched' = origin /\ checker' = [checker EXCEPT ![c] = At("count")]
        /\ UNCHANGED <<origin, head, installed, built, running, behind, inProgress, updater,
                       restart, listening, versionVars, restartsDone, survivors>>
    BY <1>6 DEF Fetch
  <2>2. CodeTypes'
    BY <1>t, <2>1 DEF CodeTypes, Commit
  <2>3. CheckerTypes'
    BY <1>e, <1>k, <2>1
  <2>4. QED
    BY <1>v, <1>u, <2>1, <2>2, <2>3 DEF UpdateInv
<1>7. ASSUME NEW c \in Checker, CheckFails(c) PROVE UpdateInv'
  <2>1. /\ behind' = FALSE /\ checker' = [checker EXCEPT ![c] = Continued(c)]
        /\ UNCHANGED <<origin, fetched, head, installed, built, running, inProgress, updater,
                       restart, listening, versionVars, restartsDone, survivors>>
    BY <1>7 DEF CheckFails
  <2>2. CodeTypes'
    BY <1>t, <2>1 DEF CodeTypes, Commit
  <2>3. CheckerTypes'
    BY <1>e, <1>c, <2>1
  <2>4. QED
    BY <1>v, <1>u, <2>1, <2>2, <2>3 DEF UpdateInv
<1>8. ASSUME NEW c \in Checker, Count(c) PROVE UpdateInv'
  <2>1. /\ behind' = (head < fetched)
        /\ UNCHANGED <<origin, fetched, head, installed, built, running, restart, listening,
                       versionVars, restartsDone, survivors>>
    BY <1>8 DEF Count
  <2>2. behind' \in BOOLEAN
    BY <2>1
  <2>3. CASE /\ c = "selfTimer" /\ ~inProgress /\ inProgress' = TRUE
             /\ updater' = [updater EXCEPT ![c] = "pull"]
             /\ checker' = [checker EXCEPT ![c] = At("apply")]
    <3>1. CodeTypes'
      BY <1>t, <2>1, <2>2, <2>3 DEF CodeTypes, Commit
    <3>2. UpdaterTypes' /\ OneAtWork'
      BY <1>t, <2>3 DEF UpdaterTypes, OneAtWork
    <3>3. CheckerTypes'
      BY <1>e, <1>k, <2>3
    <3>4. QED
      BY <1>v, <2>1, <3>1, <3>2, <3>3 DEF UpdateInv
  <2>4. CASE /\ checker' = [checker EXCEPT ![c] = Continued(c)]
             /\ UNCHANGED <<inProgress, updater>>
    <3>1. CodeTypes'
      BY <1>t, <2>1, <2>2, <2>4 DEF CodeTypes, Commit
    <3>2. CheckerTypes'
      BY <1>e, <1>c, <2>4
    <3>3. QED
      BY <1>v, <1>u, <2>1, <2>4, <3>1, <3>2 DEF UpdateInv
  <2>5. QED
    BY <1>8, <2>3, <2>4 DEF Count
<1>9. ASSUME NEW c \in Checker, AppcastFails(c) PROVE UpdateInv'
  BY <1>9, <1>v, <1>w, <1>e, <1>k DEF AppcastFails, UpdateInv
<1>10. ASSUME NEW c \in Checker, NEW v \in Version, AppcastAnswers(c, v) PROVE UpdateInv'
  <2>1. /\ checker' = [checker EXCEPT ![c] = NoCheck] /\ reportedVersion' = v
        /\ UNCHANGED <<codeVars, published, baseline, restartsDone, survivors>>
    BY <1>10 DEF AppcastAnswers
  <2>2. CASE UNCHANGED <<override, clientVersion, pipelineBusy, pipelines>>
    <3>1. VersionTypes' /\ OnePipelineAtATime'
      BY <1>t, <2>1, <2>2 DEF VersionTypes, OnePipelineAtATime, Version, NoVersion
    <3>2. QED
      BY <1>w, <1>e, <1>k, <1>l, <2>1, <3>1 DEF UpdateInv
  <2>3. CASE /\ clientVersion' = v /\ override' \in {v, override} /\ pipelineBusy' = TRUE
             /\ pipelines' = IF pipelineBusy THEN pipelines ELSE pipelines + 1
    <3>1. VersionTypes'
      BY <1>t, <2>1, <2>3 DEF VersionTypes, Version, NoVersion
    <3>2. OnePipelineAtATime'
      BY <1>t, <2>3 DEF OnePipelineAtATime
    <3>3. QED
      BY <1>w, <1>e, <1>k, <1>l, <2>1, <3>1, <3>2 DEF UpdateInv
  <2>4. QED
    BY <1>10, <2>2, <2>3 DEF AppcastAnswers
<1>11. ASSUME NEW u \in {"selfTimer", "admin"}, UpdateFails(u) PROVE UpdateInv'
  <2>1. /\ updater[u] # "idle" /\ UpdateOver(u)
        /\ UNCHANGED <<origin, fetched, head, installed, built, running, behind, restart,
                       listening, versionVars, restartsDone, survivors>>
    BY <1>11 DEF UpdateFails
  <2>2. UpdaterTypes' /\ OneAtWork' /\ inProgress' = FALSE /\ CheckerTypes'
    BY <1>o, <2>1
  <2>3. CodeTypes'
    BY <1>t, <2>1, <2>2 DEF CodeTypes, Commit
  <2>4. QED
    BY <1>v, <2>1, <2>2, <2>3 DEF UpdateInv
<1>12. ASSUME NEW u \in {"selfTimer", "admin"}, Pull(u) PROVE UpdateInv'
  <2>1. /\ updater[u] = "pull" /\ fetched' = origin /\ head' = origin
        /\ updater' = [updater EXCEPT ![u] = "install"]
        /\ UNCHANGED <<origin, installed, built, running, behind, inProgress, restart, listening,
                       versionVars, checker, restartsDone, survivors>>
    BY <1>12 DEF Pull
  <2>2. CodeTypes'
    BY <1>t, <2>1 DEF CodeTypes, Commit
  <2>3. UpdaterTypes' /\ OneAtWork'
    BY <1>t, <2>1 DEF UpdaterTypes, OneAtWork
  <2>4. QED
    BY <1>v, <1>x, <2>1, <2>2, <2>3 DEF UpdateInv
<1>13. ASSUME NEW u \in {"selfTimer", "admin"}, InstallModules(u) PROVE UpdateInv'
  <2>1. /\ updater[u] = "install" /\ installed' = head
        /\ updater' = [updater EXCEPT ![u] = "build"]
        /\ UNCHANGED <<origin, fetched, head, built, running, behind, inProgress, restart,
                       listening, versionVars, checker, restartsDone, survivors>>
    BY <1>13 DEF InstallModules
  <2>2. CodeTypes'
    BY <1>t, <2>1 DEF CodeTypes, Commit
  <2>3. UpdaterTypes' /\ OneAtWork'
    BY <1>t, <2>1 DEF UpdaterTypes, OneAtWork
  <2>4. QED
    BY <1>v, <1>x, <2>1, <2>2, <2>3 DEF UpdateInv
<1>14. ASSUME NEW u \in {"selfTimer", "admin"}, Build(u) PROVE UpdateInv'
  <2>1. /\ updater[u] = "build" /\ built' = head
        /\ restart' = IF restart = "none" THEN "delayed" ELSE restart
        /\ UpdateOver(u)
        /\ UNCHANGED <<origin, fetched, head, installed, running, behind, listening, versionVars,
                       restartsDone, survivors>>
    BY <1>14 DEF Build
  <2>2. UpdaterTypes' /\ OneAtWork' /\ inProgress' = FALSE /\ CheckerTypes'
    BY <1>o, <2>1
  <2>3. restart' \in {"none", "delayed", "closing"}
    BY <1>t, <2>1 DEF CodeTypes
  <2>4. CodeTypes'
    BY <1>t, <2>1, <2>2, <2>3 DEF CodeTypes, Commit
  <2>5. QED
    BY <1>v, <2>1, <2>2, <2>4 DEF UpdateInv
<1>15. ASSUME NEW changed \in BOOLEAN, NEW ok \in BOOLEAN, PipelineEnds(changed, ok) PROVE UpdateInv'
  <2>1. /\ pipelines > 0 /\ pipelines' = pipelines - 1 /\ pipelineBusy' = FALSE
        /\ baseline' = IF changed THEN published ELSE baseline
        /\ clientVersion' = IF ok THEN baseline' ELSE clientVersion
        /\ UNCHANGED <<codeVars, published, override, reportedVersion, checker, restartsDone, survivors>>
    BY <1>15 DEF PipelineEnds
  <2>2. baseline' \in Version /\ clientVersion' \in Version
    BY <1>t, <2>1 DEF VersionTypes
  <2>3. VersionTypes'
    BY <1>t, <2>1, <2>2 DEF VersionTypes, Version, NoVersion
  <2>4. OnePipelineAtATime'
    BY <1>t, <2>1 DEF OnePipelineAtATime
  <2>5. QED
    BY <1>w, <1>x, <1>l, <2>1, <2>3, <2>4 DEF UpdateInv
<1>16. CASE RestartBegins \/ RestartAborted
  <2>1. /\ restart' \in {"none", "delayed", "closing"} /\ listening' \in {listening, FALSE}
        /\ UNCHANGED <<origin, fetched, head, installed, built, running, behind, inProgress,
                       updater, versionVars, checker, restartsDone, survivors>>
    BY <1>16 DEF RestartBegins, RestartAborted
  <2>2. CodeTypes'
    BY <1>t, <2>1 DEF CodeTypes, Commit
  <2>3. QED
    BY <1>v, <1>u, <1>x, <2>1, <2>2 DEF UpdateInv
<1>17. CASE NewProcess
  <2>1. /\ restartsDone < MaxRestarts /\ running' = built
        /\ behind' = FALSE /\ inProgress' = FALSE /\ restart' = "none" /\ listening' = TRUE
        /\ updater' = [u \in DOMAIN updater |-> "idle"]
        /\ clientVersion' = baseline
        /\ reportedVersion' = NoVersion /\ pipelineBusy' = FALSE /\ pipelines' = 0
        /\ checker' = [c \in Checker |-> NoCheck]
        /\ restartsDone' = restartsDone + 1
        /\ \E alive \in SUBSET Children : survivors' = survivors \cup alive
        /\ UNCHANGED <<origin, fetched, head, installed, built, published, baseline, override>>
    BY <1>17 DEF NewProcess
  <2>2. CodeTypes'
    BY <1>t, <2>1 DEF CodeTypes, Commit
  <2>3. restartsDone' \in 0 .. MaxRestarts
    BY <1>t, <2>1, UpdatesAssumption DEF VersionTypes
  <2>4. VersionTypes'
    BY <1>t, <2>1, <2>3 DEF VersionTypes, Version, NoVersion
  <2>5. UpdaterTypes' /\ OneAtWork'
    BY <1>d, <2>1 DEF UpdaterTypes, OneAtWork
  <2>6. CheckerTypes'
    BY <1>k, <2>1 DEF CheckerTypes, CheckRecord, Checker, Version, NoVersion
  <2>7. OnePipelineAtATime'
    BY <2>1 DEF OnePipelineAtATime
  <2>8. SurvivorsOwn'
    <3>1. restartsDone \in Nat /\ restartsDone' = restartsDone + 1
      BY <1>t, <2>1, UpdatesAssumption DEF VersionTypes
    <3>2. \A s \in Children :
             s.start = restartsDone /\ s.does \in Command \cup {"pipeline"}
      BY <1>t, <1>d DEF Children, UpdaterTypes, Command
    <3>3. \A s, t \in Children : s.does # "pipeline" /\ t.does # "pipeline" => s = t
      BY <1>t, <1>d DEF Children, OneAtWork
    <3>4. \A s \in survivors' : s \in survivors \/ s \in Children
      BY <2>1
    <3>5. \A s \in survivors' :
             s.start \in 0 .. restartsDone' - 1 /\ s.does \in Command \cup {"pipeline"}
      BY <1>t, <3>1, <3>2, <3>4 DEF SurvivorsOwn
    <3>6. ASSUME NEW s \in survivors', NEW t \in survivors', s.start = t.start,
                 s.does # "pipeline", t.does # "pipeline"
          PROVE  s = t
      <4>1. s \in survivors <=> t \in survivors
        <5>1. \A x \in survivors : x.start < restartsDone
          BY <1>t, <3>1 DEF SurvivorsOwn
        <5>2. QED
          BY <3>1, <3>2, <3>4, <3>6, <5>1
      <4>2. QED
        BY <1>t, <3>3, <3>4, <3>6, <4>1 DEF SurvivorsOwn
    <3>7. QED
      BY <3>5, <3>6 DEF SurvivorsOwn
  <2>9. QED
    BY <2>2, <2>4, <2>5, <2>6, <2>7, <2>8 DEF UpdateInv
<1>18. ASSUME NEW u \in {"selfTimer", "admin"}, UpdateStep(u) PROVE UpdateInv'
  BY <1>11, <1>12, <1>13, <1>14, <1>18 DEF UpdateStep
<1>19. ASSUME NEW s \in survivors, NEW done \in BOOLEAN, SurvivorEnds(s, done) PROVE UpdateInv'
  <2>1. /\ survivors' = survivors \ {s} /\ restartsDone' = restartsDone
        /\ fetched' \in {origin, fetched} /\ head' \in {origin, head}
        /\ installed' \in {head, installed} /\ built' \in {head, built}
        /\ baseline' \in {published, baseline}
        /\ UNCHANGED <<origin, running, behind, inProgress, updater, restart, listening, published,
                       override, clientVersion, reportedVersion, pipelineBusy, pipelines, checker>>
    BY <1>19 DEF SurvivorEnds
  <2>2. CodeTypes'
    BY <1>t, <2>1 DEF CodeTypes, Commit
  <2>3. VersionTypes'
    BY <1>t, <2>1 DEF VersionTypes, Version, NoVersion
  <2>4. SurvivorsOwn'
    BY <1>t, <2>1 DEF SurvivorsOwn
  <2>5. OnePipelineAtATime'
    BY <1>t, <2>1 DEF OnePipelineAtATime
  <2>6. QED
    BY <1>u, <1>x, <2>1, <2>2, <2>3, <2>4, <2>5 DEF UpdateInv
<1>20. QED
  BY <1>s, <1>1, <1>2, <1>3, <1>4, <1>5, <1>6, <1>7, <1>8, <1>9, <1>10, <1>15, <1>16, <1>17,
     <1>18, <1>19, <1>d DEF UpdateNext

\* What the invariant says is what the properties say.
LEMMA UpdateMeans == UpdateInv => UpdateTypeOK /\ OneUpdateAtATime /\ OnePipelineAtATime
<1> SUFFICES ASSUME UpdateInv PROVE UpdateTypeOK /\ OneUpdateAtATime /\ OnePipelineAtATime
  OBVIOUS
<1>t. /\ CodeTypes /\ VersionTypes /\ UpdaterTypes /\ CheckerTypes /\ OneAtWork
      /\ OnePipelineAtATime /\ SurvivorsOwn
  BY DEF UpdateInv
<1>1. pipelines \in 0 .. 1
  BY <1>t DEF OnePipelineAtATime
<1>2. UpdateTypeOK
  BY <1>t, <1>1 DEF CodeTypes, VersionTypes, UpdaterTypes, CheckerTypes, CheckRecord, SurvivorsOwn,
                       UpdateTypeOK
<1>3. OneUpdateAtATime
  <2> DEFINE AtWork == {u \in DOMAIN updater : updater[u] # "idle"}
  <2>1. \/ AtWork = {}
        \/ inProgress /\ \E u \in {"selfTimer", "admin"} : AtWork = {u}
    BY <1>t DEF UpdaterTypes, OneAtWork
  <2>2. Cardinality({}) = 0
    BY FS_EmptySet
  <2>3. \A u \in {"selfTimer", "admin"} : Cardinality({u}) = 1
    BY FS_Singleton
  <2> HIDE DEF AtWork
  <2>4. Cardinality(AtWork) <= IF inProgress THEN 1 ELSE 0
    BY <2>1, <2>2, <2>3
  <2>5. QED
    BY <1>t, <2>4 DEF AtWork, OneUpdateAtATime, SurvivorsOwn
<1>4. QED
  BY <1>t, <1>2, <1>3

\* However checks, timers, the dashboard, crashes and restarts interleave: each process has
\* one update at work on the checkout, and one full-update child, at a time; what outlived
\* earlier processes is of no more than one update of each.
THEOREM UpdateTheorem ==
    UpdateSpec => []UpdateTypeOK /\ []OneUpdateAtATime /\ []OnePipelineAtATime
<1>1. UpdateSpec => []UpdateInv
  BY UpdateStart, UpdateStepKeeps, PTL DEF UpdateSpec
<1>2. QED
  BY <1>1, UpdateMeans, PTL
-----------------------------------------------------------------------------
(* The desktop application's updater *)

Entries == {"check", "download", "progress", "install"}

UpdRecord ==
    [checking : BOOLEAN, updateAvailable : BOOLEAN, downloading : BOOLEAN, downloaded : BOOLEAN,
     version : Releases \cup {NoRelease}]

DesktopTypes ==
    /\ isMac \in BOOLEAN /\ autoDownload \in BOOLEAN
    /\ release \in Releases \cup {NoRelease} /\ dismissedVersion \in Releases \cup {NoRelease}
    /\ onDisk \in Releases \cup {NoRelease} /\ installing \in Releases \cup {NoRelease}
    /\ upd \in UpdRecord
    /\ downloads \subseteq Releases
    /\ trayMenu \in [entry : Entries, version : Releases \cup {NoRelease}]

QuestionTypes ==
    /\ questions \subseteq [kind : {"available", "ready"}, version : Releases]
    /\ IsFiniteSet(questions) /\ Cardinality(questions) <= MaxOpen

\* What can be downloaded was found by a check; what is checked for is being checked.
FoundFirst ==
    /\ upd.updateAvailable \/ trayMenu.entry = "download" => upd.version # NoRelease
    /\ \A q \in questions : q.kind = "available" => upd.version # NoRelease
    /\ upd.checking => checks

\* What is on disk is offered, by the state and by the menu; macOS downloads nothing.
OfferedIsDownloaded ==
    /\ onDisk # NoRelease => upd.downloaded /\ trayMenu.entry = "install"
    /\ isMac => /\ ~autoDownload /\ downloads = {} /\ ~upd.downloading /\ ~upd.downloaded
                /\ trayMenu.entry \notin {"install", "progress"}

DesktopInv == DesktopTypes /\ QuestionTypes /\ FoundFirst /\ OfferedIsDownloaded

\* The menu of a state.
LEMMA MenuOf ==
    ASSUME NEW s \in UpdRecord
    PROVE  /\ BuildTrayMenu(s) \in [entry : Entries, version : Releases \cup {NoRelease}]
           /\ s.downloaded <=> BuildTrayMenu(s).entry = "install"
           /\ BuildTrayMenu(s).entry = "progress" => s.downloading
           /\ BuildTrayMenu(s).entry = "download" => s.updateAvailable
<1>1. /\ s.downloaded \in BOOLEAN /\ s.downloading \in BOOLEAN /\ s.updateAvailable \in BOOLEAN
      /\ s.version \in Releases \cup {NoRelease}
  BY DEF UpdRecord
<1>2. CASE s.downloaded
  <2>1. BuildTrayMenu(s) = [entry |-> "install", version |-> s.version]
    BY <1>2 DEF BuildTrayMenu
  <2>2. QED
    BY <1>1, <1>2, <2>1 DEF Entries
<1>3. CASE ~s.downloaded /\ s.downloading
  <2>1. BuildTrayMenu(s) = [entry |-> "progress", version |-> NoRelease]
    BY <1>3 DEF BuildTrayMenu
  <2>2. QED
    BY <1>1, <1>3, <2>1 DEF Entries
<1>4. CASE ~s.downloaded /\ ~s.downloading /\ s.updateAvailable
  <2>1. BuildTrayMenu(s) = [entry |-> "download", version |-> s.version]
    BY <1>4 DEF BuildTrayMenu
  <2>2. QED
    BY <1>1, <1>4, <2>1 DEF Entries
<1>5. CASE ~s.downloaded /\ ~s.downloading /\ ~s.updateAvailable
  <2>1. BuildTrayMenu(s) = [entry |-> "check", version |-> NoRelease]
    BY <1>5 DEF BuildTrayMenu
  <2>2. QED
    BY <1>1, <1>5, <2>1 DEF Entries
<1>6. QED
  BY <1>1, <1>2, <1>3, <1>4, <1>5

\* The first state has it.
LEMMA DesktopStart == DesktopInit => DesktopInv
<1> SUFFICES ASSUME DesktopInit PROVE DesktopInv
  OBVIOUS
<1>1. /\ upd \in UpdRecord /\ ~upd.downloaded /\ ~upd.downloading /\ ~upd.updateAvailable
      /\ ~upd.checking
  BY DEF DesktopInit, UpdRecord
<1>2. /\ trayMenu \in [entry : Entries, version : Releases \cup {NoRelease}]
      /\ trayMenu.entry \notin {"install", "progress", "download"}
  BY <1>1, MenuOf DEF DesktopInit
<1>3. isMac \in BOOLEAN /\ autoDownload \in BOOLEAN /\ (isMac => ~autoDownload)
  <2>1. isMac \in BOOLEAN /\ autoDownload \in IF isMac THEN {FALSE} ELSE BOOLEAN
    BY DEF DesktopInit
  <2>2. QED
    BY <2>1
<1>4. /\ release = NoRelease /\ dismissedVersion = NoRelease /\ onDisk = NoRelease
      /\ installing = NoRelease /\ downloads = {} /\ questions = {}
  BY DEF DesktopInit
<1>5. DesktopTypes
  BY <1>1, <1>2, <1>3, <1>4 DEF DesktopTypes
<1>6. QuestionTypes
  BY <1>4, FS_EmptySet, DesktopAssumption DEF QuestionTypes
<1>7. FoundFirst /\ OfferedIsDownloaded
  BY <1>1, <1>2, <1>3, <1>4 DEF FoundFirst, OfferedIsDownloaded
<1>8. QED
  BY <1>5, <1>6, <1>7 DEF DesktopInv

\* One question more, while there are fewer than MaxOpen, or one less.
LEMMA QuestionsKept ==
    ASSUME QuestionTypes
    PROVE  /\ \A q \in [kind : {"available", "ready"}, version : Releases] :
                 Cardinality(questions) < MaxOpen /\ questions' = questions \cup {q}
                 => QuestionTypes'
           /\ \A q \in questions : questions' = questions \ {q} => QuestionTypes'
           /\ questions' = questions => QuestionTypes'
<1>n. IsFiniteSet(questions) /\ Cardinality(questions) \in Nat
  BY FS_CardinalityType DEF QuestionTypes
<1>1. ASSUME NEW q \in [kind : {"available", "ready"}, version : Releases],
             Cardinality(questions) < MaxOpen, questions' = questions \cup {q}
      PROVE  QuestionTypes'
  <2> DEFINE n == Cardinality(questions)
             m == Cardinality(questions')
  <2>1. IsFiniteSet(questions') /\ (m = n \/ m = n + 1)
    BY <1>n, <1>1, FS_AddElement
  <2>2. n \in Nat /\ n < MaxOpen
    BY <1>n, <1>1
  <2> HIDE DEF n, m
  <2>3. m <= MaxOpen
    BY <2>1, <2>2, DesktopAssumption
  <2>4. questions' \subseteq [kind : {"available", "ready"}, version : Releases]
    BY <1>1 DEF QuestionTypes
  <2>5. QED
    BY <2>1, <2>3, <2>4 DEF QuestionTypes, m, Releases
<1>2. ASSUME NEW q \in questions, questions' = questions \ {q} PROVE QuestionTypes'
  <2> DEFINE n == Cardinality(questions)
             m == Cardinality(questions')
  <2>1. IsFiniteSet(questions') /\ m = n - 1
    BY <1>n, <1>2, FS_RemoveElement
  <2>2. n \in Nat /\ n <= MaxOpen
    BY <1>n DEF QuestionTypes
  <2> HIDE DEF n, m
  <2>3. m <= MaxOpen
    BY <2>1, <2>2, DesktopAssumption
  <2>4. questions' \subseteq [kind : {"available", "ready"}, version : Releases]
    BY <1>2 DEF QuestionTypes
  <2>5. QED
    BY <2>1, <2>3, <2>4 DEF QuestionTypes, m, Releases
<1>3. ASSUME questions' = questions PROVE QuestionTypes'
  BY <1>3 DEF QuestionTypes, Releases
<1>4. QED
  BY <1>1, <1>2, <1>3

\* Every step keeps it.
LEMMA DesktopStep == DesktopInv /\ [DesktopNext]_desktopVars => DesktopInv'
<1> SUFFICES ASSUME DesktopInv, [DesktopNext]_desktopVars PROVE DesktopInv'
  OBVIOUS
<1>t. DesktopTypes /\ QuestionTypes /\ FoundFirst /\ OfferedIsDownloaded
  BY DEF DesktopInv
<1>u. /\ upd.checking \in BOOLEAN /\ upd.updateAvailable \in BOOLEAN /\ upd.downloading \in BOOLEAN
      /\ upd.downloaded \in BOOLEAN /\ upd.version \in Releases \cup {NoRelease}
  BY <1>t DEF DesktopTypes, UpdRecord
<1>q. \A q \in questions : q.kind \in {"available", "ready"} /\ q.version \in Releases
  BY <1>t DEF QuestionTypes
<1>z. NoRelease \notin Releases
  BY DEF NoRelease, Releases
\* A step that leaves state and menu alone.
<1>a. ASSUME UNCHANGED <<isMac, autoDownload, upd, trayMenu>>,
             release' \in Releases \cup {NoRelease}, dismissedVersion' \in Releases \cup {NoRelease},
             installing' \in Releases \cup {NoRelease}, onDisk' = onDisk,
             questions' \subseteq questions, QuestionTypes', downloads' \subseteq Releases,
             isMac => downloads' = {}, upd.checking => checks'
      PROVE  DesktopInv'
  <2>1. DesktopTypes'
    BY <1>a, <1>t DEF DesktopTypes, Releases, NoRelease, UpdRecord, Entries
  <2>2. FoundFirst' /\ OfferedIsDownloaded'
    BY <1>a, <1>t DEF FoundFirst, OfferedIsDownloaded
  <2>3. QED
    BY <1>a, <2>1, <2>2 DEF DesktopInv
\* A step that rebuilds the menu.
<1>r. ASSUME NEW s \in UpdRecord, Rebuild(s), UNCHANGED <<isMac, autoDownload, release,
                 dismissedVersion, installing>>,
             onDisk' \in Releases \cup {NoRelease}, QuestionTypes', downloads' \subseteq Releases,
             s.updateAvailable => s.version # NoRelease,
             \A q \in questions' : q.kind = "available" => s.version # NoRelease,
             s.checking => checks',
             onDisk' # NoRelease => s.downloaded,
             isMac => downloads' = {} /\ ~s.downloading /\ ~s.downloaded
      PROVE  DesktopInv'
  <2>1. upd' = s /\ trayMenu' = BuildTrayMenu(s)
    BY <1>r DEF Rebuild
  <2>2. /\ trayMenu' \in [entry : Entries, version : Releases \cup {NoRelease}]
        /\ s.downloaded <=> trayMenu'.entry = "install"
        /\ trayMenu'.entry = "progress" => s.downloading
        /\ trayMenu'.entry = "download" => s.updateAvailable
    BY <2>1, MenuOf
  <2>3. DesktopTypes'
    BY <1>r, <1>t, <2>1, <2>2 DEF DesktopTypes, Releases, NoRelease, UpdRecord, Entries
  <2>4. FoundFirst'
    BY <1>r, <2>1, <2>2 DEF FoundFirst, NoRelease
  <2>5. OfferedIsDownloaded'
    BY <1>r, <1>t, <2>1, <2>2 DEF OfferedIsDownloaded, NoRelease
  <2>6. QED
    BY <1>r, <2>3, <2>4, <2>5 DEF DesktopInv
<1>s. CASE UNCHANGED desktopVars
  BY <1>s, <1>a, <1>t, QuestionsKept DEF desktopVars, DesktopTypes, FoundFirst, OfferedIsDownloaded
<1>1. CASE ReleaseChanges
  BY <1>1, <1>a, <1>t, QuestionsKept DEF ReleaseChanges, DesktopTypes, FoundFirst, OfferedIsDownloaded
<1>2. CASE CheckForUpdates
  <2> DEFINE new == [upd EXCEPT !.checking = TRUE]
  <2>1. /\ new \in UpdRecord /\ new.checking /\ new.updateAvailable = upd.updateAvailable
        /\ new.version = upd.version /\ new.downloading = upd.downloading
        /\ new.downloaded = upd.downloaded
    BY <1>t DEF DesktopTypes, UpdRecord
  <2>2. /\ checks' = TRUE /\ upd' = new
        /\ UNCHANGED <<isMac, autoDownload, release, dismissedVersion, questions, downloads, onDisk,
                       trayMenu, answered, installing>>
    BY <1>2 DEF CheckForUpdates
  <2> HIDE DEF new
  <2>3. DesktopTypes'
    BY <1>t, <2>1, <2>2 DEF DesktopTypes, Releases, NoRelease, UpdRecord, Entries
  <2>4. FoundFirst' /\ OfferedIsDownloaded'
    BY <1>t, <2>1, <2>2 DEF FoundFirst, OfferedIsDownloaded
  <2>5. QED
    BY <1>t, <2>2, <2>3, <2>4, QuestionsKept DEF DesktopInv
<1>3. CASE UpdateAvailable
  <2> DEFINE new == [upd EXCEPT !.checking = FALSE, !.updateAvailable = TRUE, !.version = release]
             asks == ~autoDownload /\ release # dismissedVersion
             question == [kind |-> "available", version |-> release]
  <2>1. release \in Releases
    BY <1>3, <1>t DEF UpdateAvailable, DesktopTypes
  <2>2. /\ new \in UpdRecord /\ ~new.checking /\ new.version = release
        /\ new.downloading = upd.downloading /\ new.downloaded = upd.downloaded
    BY <1>t, <2>1 DEF DesktopTypes, UpdRecord
  <2>3. /\ asks => Cardinality(questions) < MaxOpen
        /\ Rebuild(new)
        /\ questions' = questions \cup IF asks THEN {question} ELSE {}
        /\ downloads' = downloads \cup IF autoDownload THEN {release} ELSE {}
        /\ UNCHANGED <<isMac, autoDownload, release, dismissedVersion, onDisk, answered, installing>>
    BY <1>3 DEF UpdateAvailable
  <2>4. question \in [kind : {"available", "ready"}, version : Releases]
    BY <2>1
  <2> HIDE DEF new, asks, question
  <2>5. QuestionTypes'
    <3>1. CASE asks
      BY <1>t, <2>3, <2>4, <3>1, QuestionsKept
    <3>2. CASE ~asks
      BY <1>t, <2>3, <3>2, QuestionsKept
    <3>3. QED
      BY <3>1, <3>2
  <2>6. downloads' \subseteq Releases /\ (isMac => downloads' = {})
    BY <1>t, <2>1, <2>3 DEF DesktopTypes, OfferedIsDownloaded
  <2>7. QED
    BY <1>r, <1>t, <1>z, <2>1, <2>2, <2>3, <2>5, <2>6 DEF DesktopTypes, OfferedIsDownloaded
<1>4. CASE UpdateNotAvailable
  <2> DEFINE new == [upd EXCEPT !.checking = FALSE, !.updateAvailable = FALSE]
  <2>1. /\ new \in UpdRecord /\ ~new.checking /\ ~new.updateAvailable
        /\ new.version = upd.version /\ new.downloading = upd.downloading
        /\ new.downloaded = upd.downloaded
    BY <1>t DEF DesktopTypes, UpdRecord
  <2>2. /\ upd' = new
        /\ UNCHANGED <<isMac, autoDownload, release, dismissedVersion, questions, downloads, onDisk,
                       trayMenu, answered, installing>>
    BY <1>4 DEF UpdateNotAvailable
  <2> HIDE DEF new
  <2>3. DesktopTypes'
    BY <1>t, <2>1, <2>2 DEF DesktopTypes, Releases, NoRelease, UpdRecord, Entries
  <2>4. FoundFirst' /\ OfferedIsDownloaded'
    BY <1>t, <2>1, <2>2 DEF FoundFirst, OfferedIsDownloaded
  <2>5. QED
    BY <1>t, <2>2, <2>3, <2>4, QuestionsKept DEF DesktopInv
<1>5. CASE UpdaterError
  <2> DEFINE new == [upd EXCEPT !.checking = FALSE, !.downloading = FALSE]
  <2>1. /\ new \in UpdRecord /\ ~new.checking /\ new.updateAvailable = upd.updateAvailable
        /\ new.version = upd.version /\ ~new.downloading /\ new.downloaded = upd.downloaded
    BY <1>t DEF DesktopTypes, UpdRecord
  <2>2. /\ Rebuild(new) /\ downloads' \subseteq downloads
        /\ UNCHANGED <<isMac, autoDownload, release, dismissedVersion, questions, onDisk, answered,
                       installing>>
    BY <1>5 DEF UpdaterError
  <2> HIDE DEF new
  <2>3. QuestionTypes' /\ downloads' \subseteq Releases /\ (isMac => downloads' = {})
    BY <1>t, <2>2, QuestionsKept DEF DesktopTypes, OfferedIsDownloaded
  <2>4. QED
    BY <1>r, <1>t, <2>1, <2>2, <2>3 DEF DesktopTypes, FoundFirst, OfferedIsDownloaded
<1>v. ASSUME Download(upd.version), upd.version # NoRelease
      PROVE  downloads' \subseteq Releases /\ (isMac => downloads' = {})
  BY <1>v, <1>t, <1>u DEF Download, DesktopTypes, OfferedIsDownloaded
<1>6. CASE ClickDownload
  <2>1. /\ Download(upd.version) /\ upd.version # NoRelease
        /\ UNCHANGED <<isMac, autoDownload, release, upd, dismissedVersion, questions, checks,
                       onDisk, trayMenu, answered, installing>>
    BY <1>6, <1>t DEF ClickDownload, FoundFirst
  <2>2. QED
    BY <1>a, <1>t, <1>v, <2>1, QuestionsKept DEF DesktopTypes, FoundFirst
<1>7. CASE DownloadProgress
  <2> DEFINE new == [upd EXCEPT !.downloading = TRUE]
  <2>1. /\ new \in UpdRecord /\ new.checking = upd.checking
        /\ new.updateAvailable = upd.updateAvailable
        /\ new.version = upd.version /\ new.downloaded = upd.downloaded
    BY <1>t DEF DesktopTypes, UpdRecord
  <2>2. /\ Rebuild(new) /\ downloads # {}
        /\ UNCHANGED <<isMac, autoDownload, release, dismissedVersion, questions, checks, downloads,
                       onDisk, answered, installing>>
    BY <1>7 DEF DownloadProgress
  <2> HIDE DEF new
  <2>3. ~isMac
    BY <1>t, <2>2 DEF OfferedIsDownloaded
  <2>4. QuestionTypes'
    BY <1>t, <2>2, QuestionsKept
  <2>5. QED
    BY <1>r, <1>t, <2>1, <2>2, <2>3, <2>4 DEF DesktopTypes, FoundFirst, OfferedIsDownloaded
<1>8. CASE InstallUpdate
  BY <1>8, <1>a, <1>t, QuestionsKept DEF InstallUpdate, DesktopTypes, FoundFirst, OfferedIsDownloaded
<1>9. ASSUME NEW v \in Releases, UpdateDownloaded(v) PROVE DesktopInv'
  <2> DEFINE new == [upd EXCEPT !.downloading = FALSE, !.downloaded = TRUE]
             question == [kind |-> "ready", version |-> v]
  <2>1. /\ new \in UpdRecord /\ new.checking = upd.checking
        /\ new.updateAvailable = upd.updateAvailable /\ new.version = upd.version
        /\ new.downloaded
    BY <1>t DEF DesktopTypes, UpdRecord
  <2>2. /\ v \in downloads /\ Cardinality(questions) < MaxOpen
        /\ downloads' = downloads \ {v} /\ onDisk' = v
        /\ Rebuild(new)
        /\ questions' = questions \cup {question}
        /\ UNCHANGED <<isMac, autoDownload, release, dismissedVersion, checks, answered, installing>>
    BY <1>9 DEF UpdateDownloaded
  <2>3. question \in [kind : {"available", "ready"}, version : Releases] /\ question.kind = "ready"
    OBVIOUS
  <2> HIDE DEF new, question
  <2>4. ~isMac
    BY <1>t, <2>2 DEF OfferedIsDownloaded
  <2>5. QuestionTypes'
    BY <1>t, <2>2, <2>3, QuestionsKept
  <2>6. \A q \in questions' : q.kind = "available" => new.version # NoRelease
    BY <1>t, <2>1, <2>2, <2>3 DEF FoundFirst
  <2>7. downloads' \subseteq Releases
    BY <1>t, <2>2 DEF DesktopTypes
  <2>8. QED
    BY <1>r, <1>t, <2>1, <2>2, <2>4, <2>5, <2>6, <2>7 DEF FoundFirst
<1>10. ASSUME NEW q \in questions, AnswerDownload(q) PROVE DesktopInv'
  <2>1. /\ Download(upd.version) /\ upd.version # NoRelease /\ questions' = questions \ {q}
        /\ UNCHANGED <<isMac, autoDownload, release, upd, dismissedVersion, checks,
                       onDisk, trayMenu, answered, installing>>
    BY <1>10, <1>t DEF AnswerDownload, FoundFirst
  <2>2. QuestionTypes' /\ questions' \subseteq questions
    BY <1>t, <2>1, QuestionsKept
  <2>3. QED
    BY <1>a, <1>t, <1>v, <2>1, <2>2 DEF DesktopTypes, FoundFirst
<1>11. ASSUME NEW q \in questions, AnswerLater(q) PROVE DesktopInv'
  <2>1. /\ questions' = questions \ {q} /\ dismissedVersion' \in {q.version, dismissedVersion}
        /\ UNCHANGED <<isMac, autoDownload, release, upd, checks, downloads, onDisk, trayMenu,
                       installing>>
    BY <1>11 DEF AnswerLater
  <2>2. QuestionTypes' /\ questions' \subseteq questions
    BY <1>t, <2>1, QuestionsKept
  <2>3. QED
    BY <1>a, <1>t, <1>q, <2>1, <2>2 DEF DesktopTypes, FoundFirst, OfferedIsDownloaded
<1>12. QED
  BY <1>s, <1>1, <1>2, <1>3, <1>4, <1>5, <1>6, <1>7, <1>8, <1>9, <1>10, <1>11 DEF DesktopNext

\* What the invariant says is what the properties say.
LEMMA DesktopMeans == DesktopInv => DesktopTypeOK /\ DownloadedStaysOffered
<1> SUFFICES ASSUME DesktopInv PROVE DesktopTypeOK /\ DownloadedStaysOffered
  OBVIOUS
<1>t. DesktopTypes /\ QuestionTypes /\ FoundFirst /\ OfferedIsDownloaded
  BY DEF DesktopInv
<1>1. upd.version \in Releases \cup {NoRelease} /\ trayMenu.entry \in Entries
  BY <1>t DEF DesktopTypes, UpdRecord
<1>2. DesktopTypeOK
  BY <1>t, <1>1 DEF DesktopTypes, QuestionTypes, FoundFirst, DesktopTypeOK, Entries
<1>3. DownloadedStaysOffered
  BY <1>t DEF OfferedIsDownloaded, DownloadedStaysOffered
<1>4. QED
  BY <1>2, <1>3

\* Whatever is released, found, downloaded, asked and answered in whatever order: what was
\* downloaded can be installed from the tray, and macOS never gets there.
THEOREM DesktopTheorem == DesktopSpec => []DesktopTypeOK /\ []DownloadedStaysOffered
<1>1. DesktopSpec => []DesktopInv
  BY DesktopStart, DesktopStep, PTL DEF DesktopSpec
<1>2. QED
  BY <1>1, DesktopMeans, PTL

\* The updates of the checkout, of the version and of the desktop application together.
THEOREM UpdatesTheorem == UpdateSpec /\ DesktopSpec => []UpdatesInOrder
<1>1. /\ UpdateTypeOK /\ OneUpdateAtATime /\ OnePipelineAtATime
      /\ DesktopTypeOK /\ DownloadedStaysOffered
      => UpdatesInOrder
  BY DEF UpdatesInOrder
<1>2. QED
  BY <1>1, UpdateTheorem, DesktopTheorem, PTL

-----------------------------------------------------------------------------
(* The names of models *)

LEMMA NoneIsNoSuffix == None \notin Tier /\ None \notin Effort
BY NamesAssumption DEF None

LEMMA SuffixIn == ASSUME NEW n, NEW S PROVE Suffix(n, S) \in S \cup {None}
BY DEF Suffix

LEMMA SuffixTypes ==
  ASSUME NEW K, NEW n
  PROVE  /\ ParseModelName(K, n).tier \in Tier \cup {None}
         /\ ParseModelName(K, n).effort \in Effort \cup {None}
<1> DEFINE tier == Suffix(n, Tier)
<1> DEFINE effort == Suffix(Without(n, tier), Effort)
<1>1. tier \in Tier \cup {None} /\ effort \in Effort \cup {None}
  BY SuffixIn
<1> QED
  BY <1>1 DEF ParseModelName, Parsed

\* A name with one suffix more.
LEMMA Suffixed ==
  ASSUME NEW S, NEW m \in Seq(S), m # <<>>, NEW s \in S
  PROVE  LET d == m \o <<s>>
         IN  /\ d \in Seq(S) /\ d # <<>>
             /\ Len(d) > 1 /\ Last(d) = s /\ Front(d) = m
             /\ d # m /\ IsPrefix(m, d)
<1> DEFINE d == m \o <<s>>
           l == Len(m)
<1>1. l \in Nat /\ l # 0
  OBVIOUS
<1>2. <<s>> \in Seq(S) /\ Len(<<s>>) = 1 /\ <<s>>[1] = s
  OBVIOUS
<1>3. /\ d \in Seq(S) /\ Len(d) = l + 1
      /\ \A i \in 1 .. l + 1 : d[i] = IF i <= l THEN m[i] ELSE <<s>>[i - l]
  BY <1>2, ConcatProperties
<1> HIDE DEF d
<1>4. \A i \in 1 .. l : d[i] = m[i]
  <2> HIDE DEF l
  <2> QED  BY <1>1, <1>3
<1>5. d[l + 1] = s
  <2>1. l + 1 \in 1 .. l + 1 /\ ~(l + 1 <= l) /\ (l + 1) - l = 1
    BY <1>1
  <2> HIDE DEF l
  <2> QED  BY <1>2, <1>3, <2>1
<1>6. SubSeq(d, 1, l) = m /\ SubSeq(m, 1, l) = m
  BY <1>1, <1>3, <1>4
<1>7. Last(d) = s /\ Front(d) = m
  BY <1>1, <1>3, <1>5, <1>6 DEF Last, Front
<1>8. IsPrefix(m, d)
  BY <1>1, <1>3, <1>6 DEF IsPrefix
<1>9. Len(d) > 1 /\ d # m /\ d # <<>>
  BY <1>1, <1>3
<1> QED
  BY <1>3, <1>7, <1>8, <1>9 DEF d

\* A name is a prefix of what two suffixes make of it.
LEMMA StillAPrefix ==
  ASSUME NEW S, NEW m \in Seq(S), m # <<>>, NEW r \in S, NEW s \in S
  PROVE  LET d == (m \o <<r>>) \o <<s>> IN IsPrefix(m, d) /\ d # m
<1> DEFINE c == m \o <<r>>
           d == c \o <<s>>
           l == Len(m)
<1>1. l \in Nat
  OBVIOUS
<1>2. c \in Seq(S) /\ c # <<>> /\ IsPrefix(m, c) /\ Front(c) = m
  BY Suffixed
<1>3. Len(c) = l + 1
  OBVIOUS
<1> HIDE DEF c
<1>4. d \in Seq(S) /\ IsPrefix(c, d) /\ Front(d) = c
  BY <1>2, Suffixed
<1>5. Len(d) = l + 2
  BY <1>1, <1>2, <1>3
<1> HIDE DEF d
<1>6. \A i \in 1 .. l : c[i] = m[i] /\ d[i] = c[i]
  BY <1>1, <1>2, <1>3, <1>4, <1>5 DEF Front
<1>7. SubSeq(d, 1, l) = m /\ SubSeq(m, 1, l) = m
  BY <1>1, <1>4, <1>5, <1>6
<1>8. IsPrefix(m, d) /\ d # m
  BY <1>1, <1>5, <1>7 DEF IsPrefix
<1> QED
  BY <1>8 DEF c, d

\* What begins with a known model's name and goes on is no name the program lists.
LEMMA LongerIsUnknown ==
  ASSUME NEW K, Unambiguous(K), NEW m \in K, NEW d, IsPrefix(m, d), d # m
  PROVE  ~Recognised(K, d)
BY DEF Unambiguous, Recognised

\* The models that a name without a known meaning may stand for, asked for with a tier
\* and no effort, do not end like an effort.
LEMMA ParsedModelEnds ==
  ASSUME NEW K, Unambiguous(K), NEW n,
         ParseModelName(K, n).model \in K,
         ParseModelName(K, n).tier # None, ParseModelName(K, n).effort = None
  PROVE  Suffix(ParseModelName(K, n).model, Effort) = None
<1> DEFINE tier == Suffix(n, Tier)
<1> DEFINE effort == Suffix(Without(n, tier), Effort)
<1> DEFINE base == Without(Without(n, tier), effort)
<1>1. ~Recognised(K, n)
  BY DEF ParseModelName, Parsed
<1>2. ParseModelName(K, n) = [model |-> Resolve(K, base), tier |-> tier, effort |-> effort]
  BY <1>1 DEF ParseModelName, Parsed
<1>3. effort = None /\ base = Without(n, tier)
  BY <1>2 DEF Without
<1>4. Suffix(base, Effort) = None
  BY <1>3
<1>5. \/ base \in DOMAIN Alias /\ ParseModelName(K, n).model = Alias[base]
      \/ ParseModelName(K, n).model \in {base, DefaultModel}
  BY <1>2 DEF Resolve
<1>6. CASE ParseModelName(K, n).model = base
  BY <1>6, <1>4
<1>7. CASE ParseModelName(K, n).model = DefaultModel
  BY <1>7 DEF Unambiguous
<1>8. CASE base \in DOMAIN Alias /\ ParseModelName(K, n).model = Alias[base]
  <2>1. Alias[base] \in Range(Alias)
    BY <1>8 DEF Range
  <2> QED
    BY <1>8, <2>1 DEF Unambiguous
<1> QED
  BY <1>5, <1>6, <1>7, <1>8

\* The name that is built from a model, a tier and an effort is parsed into them.
LEMMA BuiltNameIsParsed ==
  ASSUME NEW S, Tier \subseteq S, Effort \subseteq S,
         NEW K, K \subseteq Seq(S), <<>> \notin K, Unambiguous(K),
         NEW m \in K, NEW tier \in Tier \cup {None}, NEW effort \in Effort \cup {None},
         tier # None /\ effort = None => Suffix(m, Effort) = None
  PROVE  LET p == [model |-> m, tier |-> tier, effort |-> effort]
         IN  ParseModelName(K, BuildDisplayModelName(p)) = p
<1> DEFINE p == [model |-> m, tier |-> tier, effort |-> effort]
<1> DEFINE d == BuildDisplayModelName(p)
<1>m. m \in Seq(S) /\ m # <<>>
  OBVIOUS
<1>r. Resolve(K, m) = m
  BY DEF Resolve, Unambiguous
<1>1. CASE effort = None /\ tier = None
  <2>1. d = m
    <3>1. d = m \o <<>> \o <<>>
      BY <1>1 DEF BuildDisplayModelName
    <3>2. m \o <<>> = m
      BY <1>m, ConcatEmptySeq
    <3> QED
      BY <3>1, <3>2
  <2>2. ParseModelName(K, m) = Parsed(K, m, None, None)
    BY DEF ParseModelName, Recognised
  <2> QED
    BY <2>1, <2>2, <1>1, <1>r DEF Parsed
<1>2. CASE effort # None /\ tier = None
  <2>1. effort \in Effort /\ effort \notin Tier /\ effort \in S
    BY <1>2, <1>m, NamesAssumption
  <2>2. d = m \o <<effort>>
    <3>1. d = m \o <<effort>> \o <<>>
      BY <1>2 DEF BuildDisplayModelName
    <3>2. m \o <<effort>> \in Seq(S)
      BY <1>m, <2>1, Suffixed
    <3> QED
      BY <3>1, <3>2, ConcatEmptySeq
  <2>3. Len(d) > 1 /\ Last(d) = effort /\ Front(d) = m /\ d # m /\ IsPrefix(m, d)
    <3> DEFINE e == m \o <<effort>>
    <3>1. Len(e) > 1 /\ Last(e) = effort /\ Front(e) = m /\ e # m /\ IsPrefix(m, e)
      BY <2>1, <1>m, Suffixed
    <3>2. d = e
      BY <2>2
    <3> HIDE DEF d, e
    <3> QED
      BY <3>1, <3>2
  <2>4. ~Recognised(K, d)
    BY <2>3, LongerIsUnknown
  <2> HIDE DEF d
  <2>5. Suffix(d, Tier) = None /\ Suffix(d, Effort) = effort
    BY <2>1, <2>3 DEF Suffix
  <2>6. Without(d, None) = d /\ Without(d, effort) = m
    BY <1>2, <2>3 DEF Without
  <2>7. ParseModelName(K, d) = Parsed(K, m, None, effort)
    BY <2>4, <2>5, <2>6 DEF ParseModelName
  <2> QED
    BY <2>7, <1>2, <1>r DEF Parsed, d
<1>3. CASE effort = None /\ tier # None
  <2>1. tier \in Tier /\ tier \in S
    BY <1>3, <1>m
  <2>2. d = m \o <<tier>>
    <3>1. d = m \o <<>> \o <<tier>>
      BY <1>3 DEF BuildDisplayModelName
    <3>2. m \o <<>> = m
      BY <1>m, ConcatEmptySeq
    <3> QED
      BY <3>1, <3>2
  <2>3. Len(d) > 1 /\ Last(d) = tier /\ Front(d) = m /\ d # m /\ IsPrefix(m, d)
    <3> DEFINE e == m \o <<tier>>
    <3>1. Len(e) > 1 /\ Last(e) = tier /\ Front(e) = m /\ e # m /\ IsPrefix(m, e)
      BY <2>1, <1>m, Suffixed
    <3>2. d = e
      BY <2>2
    <3> HIDE DEF d, e
    <3> QED
      BY <3>1, <3>2
  <2>4. ~Recognised(K, d)
    BY <2>3, LongerIsUnknown
  <2> HIDE DEF d
  <2>5. Suffix(d, Tier) = tier /\ Suffix(m, Effort) = None
    BY <2>1, <2>3, <1>3 DEF Suffix
  <2>6. Without(d, tier) = m /\ Without(m, None) = m
    BY <1>3, <2>3 DEF Without
  <2>7. ParseModelName(K, d) = Parsed(K, m, tier, None)
    BY <2>4, <2>5, <2>6 DEF ParseModelName
  <2> QED
    BY <2>7, <1>3, <1>r DEF Parsed, d
<1>4. CASE effort # None /\ tier # None
  <2> DEFINE c == m \o <<effort>>
  <2>1. tier \in Tier /\ tier \in S /\ effort \in Effort /\ effort \in S
    BY <1>4, <1>m
  <2>2. d = c \o <<tier>>
    BY <1>4 DEF BuildDisplayModelName
  <2>3. c \in Seq(S) /\ c # <<>> /\ Len(c) > 1 /\ Last(c) = effort /\ Front(c) = m
    <3>1. effort \in S /\ m \in Seq(S) /\ m # <<>>
      BY <2>1, <1>m
    <3> QED  BY <3>1, Suffixed
  <2>4. IsPrefix(m, d) /\ d # m
    BY <2>1, <2>2, <1>m, StillAPrefix
  <2> HIDE DEF c
  <2>5. Len(d) > 1 /\ Last(d) = tier /\ Front(d) = c
    <3>1. tier \in S /\ c \in Seq(S) /\ c # <<>>
      BY <2>1, <2>3
    <3>2. LET e == c \o <<tier>> IN Len(e) > 1 /\ Last(e) = tier /\ Front(e) = c
      BY <3>1, Suffixed
    <3> HIDE DEF d
    <3>3. d = c \o <<tier>>
      BY <2>2
    <3> QED  BY <3>2, <3>3
  <2>6. ~Recognised(K, d)
    BY <2>4, LongerIsUnknown
  <2> HIDE DEF d
  <2>7. Suffix(d, Tier) = tier /\ Suffix(c, Effort) = effort
    BY <2>1, <2>3, <2>5 DEF Suffix
  <2>8. Without(d, tier) = c /\ Without(c, effort) = m
    BY <1>4, <2>3, <2>5 DEF Without
  <2>9. ParseModelName(K, d) = Parsed(K, m, tier, effort)
    BY <2>6, <2>7, <2>8 DEF ParseModelName
  <2> QED
    BY <2>9, <1>r DEF Parsed, d
<1> QED
  BY <1>1, <1>2, <1>3, <1>4

\* Whatever models are known, as long as their names are unambiguous, the name a response
\* carries asks for the same model, effort and tier again.
THEOREM DisplayNameTheorem == DisplayNameAsksTheSame
<1> SUFFICES ASSUME NEW K \in SUBSET Model, Unambiguous(K), NEW n,
                    ParseModelName(K, n).model \in K
             PROVE  ParseModelName(K, BuildDisplayModelName(ParseModelName(K, n)))
                      = ParseModelName(K, n)
  BY DEF DisplayNameAsksTheSame
<1> DEFINE p == ParseModelName(K, n)
<1>1. p.tier \in Tier \cup {None} /\ p.effort \in Effort \cup {None}
  BY SuffixTypes
<1>2. p.tier # None /\ p.effort = None => Suffix(p.model, Effort) = None
  BY ParsedModelEnds
<1>3. p = [model |-> p.model, tier |-> p.tier, effort |-> p.effort]
  BY DEF ParseModelName, Parsed
<1> HIDE DEF p
<1>4. p.model \in K
  BY DEF p
<1> DEFINE S == STRING
<1>5. K \subseteq Seq(S) /\ <<>> \notin K /\ Tier \subseteq S /\ Effort \subseteq S
  BY NamesAssumption
<1> HIDE DEF S
<1> DEFINE m == p.model
           tier == p.tier
           effort == p.effort
<1>6. /\ m \in K /\ tier \in Tier \cup {None} /\ effort \in Effort \cup {None}
      /\ tier # None /\ effort = None => Suffix(m, Effort) = None
      /\ p = [model |-> m, tier |-> tier, effort |-> effort]
  BY <1>1, <1>2, <1>3, <1>4
<1> HIDE DEF m, tier, effort
<1>7. LET q == [model |-> m, tier |-> tier, effort |-> effort]
      IN  ParseModelName(K, BuildDisplayModelName(q)) = q
  BY <1>5, <1>6, BuiltNameIsParsed
<1>8. ParseModelName(K, BuildDisplayModelName(p)) = p
  BY <1>6, <1>7
<1> QED
  BY <1>8 DEF p

\* What the program lists keeps its meaning when more models are known.
LEMMA MeaningKept ==
  ASSUME NEW K, NEW L, K \subseteq L, NEW n \in K \cup DOMAIN Alias
  PROVE  ParseModelName(L, n) = ParseModelName(K, n)
<1>1. Recognised(K, n) /\ Recognised(L, n)
  BY DEF Recognised
<1>2. Resolve(L, n) = Resolve(K, n)
  BY DEF Resolve
<1> QED
  BY <1>1, <1>2 DEF ParseModelName, Parsed

-----------------------------------------------------------------------------
(* The models, their cache and the fetches of their lists *)

Fetchers == {"chain", "immediate"}

FetchKinds == {"initial", "retry", "hourly", "immediate"}

\* Of the plans a fetch asks for, the list each had when it asked.
PlanTimes == UNION {[plans -> Nat] : plans \in SUBSET Plan}

FetchRecord == [kind : FetchKinds \cup {"none"}, since : PlanTimes, ok : BOOLEAN]

ModelTypes ==
    /\ ModelTypeOK
    /\ cacheFile \subseteq Model \/ cacheFile = Unreadable
    /\ fetches \in [Fetchers -> FetchRecord]
    /\ \A f \in Fetchers : fetches[f] = NoFetch \/ fetches[f].kind \in FetchKinds
    /\ offered \in [Plan -> Nat]
    /\ \A p \in Plan : offered[p] \in 1 .. Len(Lists[p])

\* Unless writes overlapped or failed, or models were loaded anew during one, what is
\* known is in the file, or is what the one write under way writes.
CacheFollows ==
    ~crossed => IF cacheWrites = {} THEN Known \subseteq Static \cup cacheFile
                                    ELSE cacheWrites = {Known}

\* No list is newer than what the backend offers; with one slot for an account, one fetch
\* at most asks for a plan, and what is known of the plan is not newer than its question.
ListsInOrder ==
    /\ \A p \in DOMAIN planLists : planLists[p] <= offered[p]
    /\ \A f \in Fetchers : \A p \in DOMAIN fetches[f].since : fetches[f].since[p] <= offered[p]
    /\ slots = 1 =>
          \A f \in Fetchers : \A p \in DOMAIN fetches[f].since :
              /\ \A g \in Fetchers : p \in DOMAIN fetches[g].since => g = f
              /\ p \in DOMAIN planLists => planLists[p] <= fetches[f].since[p]

ModelInv == ModelTypes /\ ChainGoesOn /\ CacheFollows /\ ListsInOrder

LEMMA NothingAsked == NoFetch \in FetchRecord /\ NoFetch.kind = "none" /\ DOMAIN NoFetch.since = {}
<1>1. <<>> \in [{} -> Nat] /\ DOMAIN <<>> = {}
  OBVIOUS
<1>2. <<>> \in PlanTimes
  BY <1>1 DEF PlanTimes
<1> QED
  BY <1>1, <1>2 DEF FetchRecord, NoFetch

LEMMA ListedAreModels ==
  ASSUME NEW p \in Plan, NEW i \in 1 .. Len(Lists[p])
  PROVE  ToSet(Lists[p][i]) \subseteq Model
<1>1. Lists[p][i] \in ToSet(Lists[p])
  BY ModelsAssumption DEF ToSet
<1> QED
  BY <1>1 DEF Model

\* What a fetch that begins asks for.
LEMMA FetchAsks ==
  ASSUME ModelTypes, NEW f \in Fetchers, NEW kind \in FetchKinds, NEW plans \in SUBSET Plan,
         FetchBegins(f, kind, plans)
  PROVE  /\ fetches' \in [Fetchers -> FetchRecord]
         /\ fetches'[f].kind = kind /\ fetches'[f] # NoFetch
         /\ DOMAIN fetches'[f].since = plans
         /\ \A p \in plans : fetches'[f].since[p] = offered[p]
         /\ \A g \in Fetchers \ {f} : fetches'[g] = fetches[g]
         /\ slots = 1 => \A p \in plans, g \in Fetchers : p \notin DOMAIN fetches[g].since
<1> DEFINE since == [p \in plans |-> offered[p]]
           new == [kind |-> kind, since |-> since, ok |-> FALSE]
<1>1. since \in [plans -> Nat]
  BY DEF ModelTypes
<1>2. since \in PlanTimes
  BY <1>1 DEF PlanTimes
<1>3. DOMAIN since = plans /\ \A p \in plans : since[p] = offered[p]
  OBVIOUS
<1> HIDE DEF since
<1>4. new \in FetchRecord /\ new.kind = kind /\ new.since = since
  BY <1>2 DEF FetchRecord
<1>5. new # NoFetch
  BY <1>4, NothingAsked DEF FetchKinds
<1>6. fetches' = [fetches EXCEPT ![f] = new]
  BY DEF FetchBegins, since
<1> HIDE DEF new
<1>7. ASSUME slots = 1, NEW p \in plans, NEW g \in Fetchers, p \in DOMAIN fetches[g].since
      PROVE  FALSE
  <2> DEFINE holding == {h \in DOMAIN fetches : p \in DOMAIN fetches[h].since}
  <2>1. DOMAIN fetches = Fetchers
    BY DEF ModelTypes
  <2>2. Cardinality(holding) < 1
    BY <1>7 DEF FetchBegins, Held
  <2>3. IsFiniteSet(Fetchers)
    <3>1. IsFiniteSet({"chain"} \cup {"immediate"})
      BY FS_Singleton, FS_Union
    <3>2. Fetchers = {"chain"} \cup {"immediate"}
      BY DEF Fetchers
    <3> QED  BY <3>1, <3>2
  <2>4. IsFiniteSet(holding)
    BY <2>1, <2>3, FS_Subset
  <2>5. g \in holding
    BY <1>7, <2>1
  <2> HIDE DEF holding
  <2>6. Cardinality(holding) \in Nat /\ Cardinality(holding) # 0
    BY <2>4, <2>5, FS_CardinalityType, FS_EmptySet
  <2> QED  BY <2>2, <2>6
<1> QED
  BY <1>3, <1>4, <1>5, <1>6, <1>7 DEF ModelTypes

\* A fetch that has been answered for a plan asks for the others.
LEMMA OthersAsked ==
  ASSUME ModelTypes, NEW f \in Fetchers, NEW p \in DOMAIN fetches[f].since
  PROVE  LET a == AnsweredFor(f, p)
         IN  /\ a \in FetchRecord /\ [a EXCEPT !.ok = TRUE] \in FetchRecord
             /\ a.kind \in FetchKinds /\ [a EXCEPT !.ok = TRUE].kind = a.kind
             /\ a.kind = fetches[f].kind
             /\ [a EXCEPT !.ok = TRUE].since = a.since
             /\ DOMAIN a.since = DOMAIN fetches[f].since \ {p}
             /\ \A q \in DOMAIN a.since : a.since[q] = fetches[f].since[q]
<1> DEFINE old == fetches[f]
           rest == Restrict(old.since, DOMAIN old.since \ {p})
           a == [old EXCEPT !.since = rest]
<1>1. old \in FetchRecord
  BY DEF ModelTypes
<1>2. PICK plans \in SUBSET Plan : old.since \in [plans -> Nat]
  BY <1>1 DEF FetchRecord, PlanTimes
<1>3. rest \in [plans \ {p} -> Nat] /\ \A q \in plans \ {p} : rest[q] = old.since[q]
  BY <1>2 DEF Restrict
<1>4. plans \ {p} \in SUBSET Plan
  BY <1>2
<1>5. rest \in PlanTimes
  BY <1>3, <1>4 DEF PlanTimes
<1>6. old # NoFetch
  BY NothingAsked
<1>7. old.kind \in FetchKinds
  BY <1>6 DEF ModelTypes
<1>8. AnsweredFor(f, p) = a
  BY DEF AnsweredFor
<1>9. DOMAIN old.since = plans /\ DOMAIN rest = plans \ {p}
  BY <1>2, <1>3
<1> HIDE DEF rest, old
<1>10. a \in FetchRecord /\ a.kind = old.kind /\ a.since = rest
  BY <1>1, <1>5 DEF FetchRecord
<1> HIDE DEF a
<1>11. /\ [a EXCEPT !.ok = TRUE] \in FetchRecord
       /\ [a EXCEPT !.ok = TRUE].kind = a.kind /\ [a EXCEPT !.ok = TRUE].since = a.since
  BY <1>10 DEF FetchRecord
<1> QED
  BY <1>3, <1>7, <1>8, <1>9, <1>10, <1>11 DEF old

LEMMA PlansAsked ==
  ASSUME NEW r \in FetchRecord
  PROVE  DOMAIN r.since \subseteq Plan /\ \A p \in DOMAIN r.since : r.since[p] \in Nat
<1>1. PICK plans \in SUBSET Plan : r.since \in [plans -> Nat]
  BY DEF FetchRecord, PlanTimes
<1> QED  BY <1>1

\* The part of the types that is not about the fetches.
StoreTypes ==
    /\ Known \subseteq Model /\ Range(catalog) \subseteq Source
    /\ DOMAIN planLists \subseteq Plan
    /\ \A p \in DOMAIN planLists : planLists[p] \in 1 .. Len(Lists[p])
    /\ cacheFile \subseteq Model \/ cacheFile = Unreadable
    /\ cacheWrites \subseteq SUBSET Model
    /\ crossed \in BOOLEAN

FetchTypes ==
    /\ hasFetched \in BOOLEAN
    /\ refreshTimer \in {"unset", "initial", "retry", "hourly"} /\ attempt \in 0 .. MaxRetries
    /\ fetches \in [Fetchers -> FetchRecord]
    /\ \A f \in Fetchers : fetches[f] = NoFetch \/ fetches[f].kind \in FetchKinds
    /\ offered \in [Plan -> Nat]
    /\ \A p \in Plan : offered[p] \in 1 .. Len(Lists[p])

LEMMA TypesAre == ModelTypes <=> StoreTypes /\ FetchTypes
<1>1. ModelTypes => StoreTypes /\ FetchTypes
  BY DEF ModelTypes, ModelTypeOK, StoreTypes, FetchTypes
<1>2. StoreTypes /\ FetchTypes => ModelTypes
  BY PlansAsked DEF ModelTypes, ModelTypeOK, StoreTypes, FetchTypes
<1> QED  BY <1>1, <1>2

LEMMA TypesAreNext == ModelTypes' <=> StoreTypes' /\ FetchTypes'
BY TypesAre, PTL

\* A source for each model.
LEMMA SourcesTyped ==
  ASSUME NEW S \in SUBSET Model, NEW T
  PROVE  LET c == [m \in S |-> IF m \in T THEN "backend" ELSE "static"]
             d == [m \in S |-> IF m \in T THEN "static" ELSE "backend"]
         IN  /\ DOMAIN c \subseteq Model /\ Range(c) \subseteq Source
             /\ DOMAIN d \subseteq Model /\ Range(d) \subseteq Source
BY DEF Range, Source

\* The first state.
LEMMA ModelStarts == ModelInit => ModelInv
<1> SUFFICES ASSUME ModelInit PROVE ModelInv
  OBVIOUS
<1>1. Static \subseteq Model
  BY DEF Model
<1>2. Known = Static /\ Range(catalog) \subseteq Source
  BY DEF ModelInit, Known, Range, Source
<1>3. DOMAIN planLists = {}
  BY DEF ModelInit
<1>4. StoreTypes
  BY <1>1, <1>2, <1>3 DEF ModelInit, StoreTypes
<1>5. /\ fetches \in [Fetchers -> FetchRecord] /\ \A f \in Fetchers : fetches[f] = NoFetch
      /\ \A f \in Fetchers : DOMAIN fetches[f].since = {}
  BY NothingAsked DEF ModelInit, Fetchers
<1>6. offered \in [Plan -> Nat] /\ \A p \in Plan : offered[p] \in 1 .. Len(Lists[p])
  BY ModelsAssumption DEF ModelInit
<1>7. FetchTypes
  <2>1. hasFetched \in BOOLEAN /\ refreshTimer = "initial"
    BY DEF ModelInit
  <2>2. attempt \in 0 .. MaxRetries
    BY ModelsAssumption DEF ModelInit
  <2> QED  BY <1>5, <1>6, <2>1, <2>2 DEF FetchTypes
<1>8. ChainGoesOn
  BY DEF ModelInit, ChainGoesOn
<1>9. CacheFollows
  BY <1>2 DEF ModelInit, CacheFollows
<1>10. ListsInOrder
  BY <1>3, <1>5 DEF ListsInOrder
<1> QED
  BY <1>4, <1>7, <1>8, <1>9, <1>10, TypesAre DEF ModelInv

\* A fetch begins, from what is known of the plans or from nothing.
LEMMA AskingKeeps ==
  ASSUME ModelInv, NEW f \in Fetchers, NEW kind \in FetchKinds, NEW plans \in SUBSET Plan,
         FetchBegins(f, kind, plans), planLists' \in {planLists, <<>>},
         UNCHANGED <<offered, slots>>
  PROVE  /\ fetches' \in [Fetchers -> FetchRecord]
         /\ \A g \in Fetchers : fetches'[g] = NoFetch \/ fetches'[g].kind \in FetchKinds
         /\ f = "chain" => fetches'["chain"] # NoFetch
         /\ f # "chain" => fetches'["chain"] = fetches["chain"]
         /\ ListsInOrder'
<1>t. ModelTypes /\ ListsInOrder
  BY DEF ModelInv
<1>1. /\ fetches' \in [Fetchers -> FetchRecord]
      /\ fetches'[f].kind = kind /\ fetches'[f] # NoFetch
      /\ DOMAIN fetches'[f].since = plans
      /\ \A p \in plans : fetches'[f].since[p] = offered[p]
      /\ \A g \in Fetchers \ {f} : fetches'[g] = fetches[g]
      /\ slots = 1 => \A p \in plans, g \in Fetchers : p \notin DOMAIN fetches[g].since
  BY <1>t, FetchAsks
<1>2. \A g \in Fetchers : fetches'[g] = NoFetch \/ fetches'[g].kind \in FetchKinds
  BY <1>1, <1>t DEF ModelTypes
<1>3. DOMAIN planLists' \subseteq DOMAIN planLists
      /\ \A p \in DOMAIN planLists' : planLists'[p] = planLists[p]
  OBVIOUS
<1>4. \A p \in Plan : offered[p] <= offered[p]
  BY <1>t DEF ModelTypes
<1>5. /\ \A p \in DOMAIN planLists' : planLists'[p] <= offered[p]
      /\ \A g \in Fetchers : \A p \in DOMAIN fetches'[g].since : fetches'[g].since[p] <= offered[p]
  BY <1>1, <1>3, <1>4, <1>t DEF ListsInOrder
<1>6. ASSUME slots = 1, NEW g \in Fetchers, NEW p \in DOMAIN fetches'[g].since
      PROVE  /\ \A h \in Fetchers : p \in DOMAIN fetches'[h].since => h = g
             /\ p \in DOMAIN planLists' => planLists'[p] <= fetches'[g].since[p]
  <2>1. CASE g = f
    BY <1>1, <1>3, <1>6, <1>t, <2>1 DEF ListsInOrder
  <2>2. CASE g # f
    BY <1>1, <1>3, <1>6, <1>t, <2>2 DEF ListsInOrder
  <2> QED  BY <2>1, <2>2
<1>7. ListsInOrder'
  BY <1>5, <1>6 DEF ListsInOrder
<1> QED
  BY <1>1, <1>2, <1>7 DEF Fetchers

LEMMA ChainFetchKeeps ==
  ASSUME ModelInv, NEW plans \in SUBSET Plan, ChainFetch(plans)
  PROVE  ModelInv'
<1>1. ModelTypes /\ StoreTypes /\ FetchTypes /\ CacheFollows
  BY TypesAre DEF ModelInv
<1>2. refreshTimer \in FetchKinds /\ "chain" \in Fetchers
  BY <1>1 DEF ChainFetch, FetchTypes, FetchKinds, Fetchers
<1>3. FetchBegins("chain", refreshTimer, plans) /\ UNCHANGED <<planLists, offered, slots>>
  BY DEF ChainFetch, storeVars
<1>4. /\ fetches' \in [Fetchers -> FetchRecord]
      /\ \A g \in Fetchers : fetches'[g] = NoFetch \/ fetches'[g].kind \in FetchKinds
      /\ fetches'["chain"] # NoFetch
      /\ ListsInOrder'
  BY <1>2, <1>3, AskingKeeps
<1>5. StoreTypes' /\ CacheFollows'
  BY <1>1 DEF ChainFetch, storeVars, StoreTypes, CacheFollows, Known
<1>6. FetchTypes'
  BY <1>1, <1>4 DEF ChainFetch, FetchTypes
<1>7. ChainGoesOn'
  BY <1>4 DEF ChainFetch, ChainGoesOn
<1> QED
  BY <1>4, <1>5, <1>6, <1>7, TypesAreNext DEF ModelInv

LEMMA ImmediateFetchKeeps ==
  ASSUME ModelInv, NEW plans \in SUBSET Plan, ImmediateFetch(plans)
  PROVE  ModelInv'
<1>1. ModelTypes /\ StoreTypes /\ FetchTypes /\ CacheFollows /\ ChainGoesOn
  BY TypesAre DEF ModelInv
<1>2. "immediate" \in FetchKinds /\ "immediate" \in Fetchers
  BY DEF FetchKinds, Fetchers
<1>3. FetchBegins("immediate", "immediate", plans) /\ UNCHANGED <<planLists, offered, slots>>
  BY DEF ImmediateFetch, storeVars
<1>4. /\ fetches' \in [Fetchers -> FetchRecord]
      /\ \A g \in Fetchers : fetches'[g] = NoFetch \/ fetches'[g].kind \in FetchKinds
      /\ fetches'["chain"] = fetches["chain"]
      /\ ListsInOrder'
  BY <1>2, <1>3, AskingKeeps
<1>5. StoreTypes' /\ CacheFollows'
  BY <1>1 DEF ImmediateFetch, storeVars, StoreTypes, CacheFollows, Known
<1>6. FetchTypes'
  BY <1>1, <1>4 DEF ImmediateFetch, FetchTypes
<1>7. ChainGoesOn'
  BY <1>1, <1>4 DEF ImmediateFetch, ChainGoesOn
<1> QED
  BY <1>4, <1>5, <1>6, <1>7, TypesAreNext DEF ModelInv

\* A fetch is answered for a plan, or learns that it will not be.
LEMMA AnsweringKeeps ==
  ASSUME ModelInv, NEW f \in Fetchers, NEW p \in DOMAIN fetches[f].since,
         NEW a \in FetchRecord, a.kind \in FetchKinds,
         DOMAIN a.since = DOMAIN fetches[f].since \ {p},
         \A q \in DOMAIN a.since : a.since[q] = fetches[f].since[q],
         fetches' = [fetches EXCEPT ![f] = a], UNCHANGED <<offered, slots>>,
         \A q \in DOMAIN planLists' : planLists'[q] <= offered[q],
         \A q \in DOMAIN planLists' \ {p} : q \in DOMAIN planLists /\ planLists'[q] = planLists[q]
  PROVE  /\ fetches' \in [Fetchers -> FetchRecord]
         /\ \A g \in Fetchers : fetches'[g] = NoFetch \/ fetches'[g].kind \in FetchKinds
         /\ fetches["chain"] # NoFetch <=> fetches'["chain"] # NoFetch
         /\ ListsInOrder'
<1>t. ModelTypes /\ ListsInOrder
  BY DEF ModelInv
<1>1. /\ fetches' \in [Fetchers -> FetchRecord] /\ fetches'[f] = a
      /\ \A g \in Fetchers \ {f} : fetches'[g] = fetches[g]
  BY <1>t DEF ModelTypes
<1>2. \A g \in Fetchers : fetches'[g] = NoFetch \/ fetches'[g].kind \in FetchKinds
  BY <1>1, <1>t DEF ModelTypes
<1>3. fetches[f] # NoFetch /\ a # NoFetch
  BY NothingAsked DEF FetchKinds
<1>4. fetches["chain"] # NoFetch <=> fetches'["chain"] # NoFetch
  BY <1>1, <1>3 DEF Fetchers
<1>5. \A g \in Fetchers : \A q \in DOMAIN fetches'[g].since :
         q \in DOMAIN fetches[g].since /\ fetches'[g].since[q] = fetches[g].since[q]
  BY <1>1
<1>6. \A g \in Fetchers : \A q \in DOMAIN fetches'[g].since : fetches'[g].since[q] <= offered[q]
  BY <1>5, <1>t DEF ListsInOrder
<1>7. ASSUME slots = 1, NEW g \in Fetchers, NEW q \in DOMAIN fetches'[g].since
      PROVE  /\ \A h \in Fetchers : q \in DOMAIN fetches'[h].since => h = g
             /\ q \in DOMAIN planLists' => planLists'[q] <= fetches'[g].since[q]
  <2>1. \A h \in Fetchers : q \in DOMAIN fetches[h].since => h = g
    BY <1>5, <1>7, <1>t DEF ListsInOrder
  <2>2. q # p
    BY <2>1, <1>1, <1>7
  <2>3. q \in DOMAIN planLists => planLists[q] <= fetches[g].since[q]
    BY <1>5, <1>7, <1>t DEF ListsInOrder
  <2> QED
    BY <2>1, <2>2, <2>3, <1>5, <1>7
<1>8. ListsInOrder'
  BY <1>6, <1>7 DEF ListsInOrder
<1> QED
  BY <1>1, <1>2, <1>4, <1>8

LEMMA NoAnswerKeeps ==
  ASSUME ModelInv, NEW f \in Fetchers, NEW p \in Plan, NoAnswer(f, p)
  PROVE  ModelInv'
<1>1. ModelTypes /\ StoreTypes /\ FetchTypes /\ CacheFollows /\ ChainGoesOn /\ ListsInOrder
  BY TypesAre DEF ModelInv
<1> DEFINE a == AnsweredFor(f, p)
<1>2. p \in DOMAIN fetches[f].since /\ fetches' = [fetches EXCEPT ![f] = a]
      /\ UNCHANGED <<planLists, offered, slots>>
  BY DEF NoAnswer, storeVars
<1>3. /\ a \in FetchRecord /\ a.kind \in FetchKinds
      /\ DOMAIN a.since = DOMAIN fetches[f].since \ {p}
      /\ \A q \in DOMAIN a.since : a.since[q] = fetches[f].since[q]
  BY <1>1, <1>2, OthersAsked
<1> HIDE DEF a
<1>4. /\ \A q \in DOMAIN planLists' : planLists'[q] <= offered[q]
      /\ \A q \in DOMAIN planLists' \ {p} : q \in DOMAIN planLists /\ planLists'[q] = planLists[q]
  BY <1>1, <1>2 DEF ListsInOrder
<1>5. /\ fetches' \in [Fetchers -> FetchRecord]
      /\ \A g \in Fetchers : fetches'[g] = NoFetch \/ fetches'[g].kind \in FetchKinds
      /\ fetches["chain"] # NoFetch <=> fetches'["chain"] # NoFetch
      /\ ListsInOrder'
  BY <1>2, <1>3, <1>4, AnsweringKeeps
<1>6. StoreTypes' /\ CacheFollows'
  BY <1>1 DEF NoAnswer, storeVars, StoreTypes, CacheFollows, Known
<1>7. FetchTypes'
  BY <1>1, <1>5 DEF NoAnswer, FetchTypes
<1>8. ChainGoesOn'
  BY <1>1, <1>5 DEF NoAnswer, ChainGoesOn
<1> QED
  BY <1>5, <1>6, <1>7, <1>8, TypesAreNext DEF ModelInv

\* What an answer does to the store.
LEMMA ListTaken ==
  ASSUME ModelInv, NEW f \in Fetchers, NEW p \in Plan, NEW i \in 1 .. Len(Lists[p]),
         Answer(f, p, i)
  PROVE  /\ Known' = Known \cup ToSet(Lists[p][i])
         /\ StoreTypes' /\ CacheFollows'
         /\ DOMAIN planLists' = DOMAIN planLists \cup {p} /\ planLists'[p] = i
         /\ \A q \in DOMAIN planLists' \ {p} :
               q \in DOMAIN planLists /\ planLists'[q] = planLists[q]
<1>1. StoreTypes /\ CacheFollows
  BY TypesAre DEF ModelInv
<1> DEFINE S == Known \cup ToSet(Lists[p][i])
<1>2. S \subseteq Model
  BY <1>1, ListedAreModels DEF StoreTypes
<1>3. catalog' = [m \in S |-> IF m \in ToSet(Lists[p][i]) THEN "backend" ELSE "static"]
  BY DEF Answer, Merged
<1> HIDE DEF S
<1>4. Known' = S /\ Range(catalog') \subseteq Source
  BY <1>3 DEF Known, Range, Source
<1>5. planLists' = [q \in DOMAIN planLists \cup {p} |-> IF q = p THEN i ELSE planLists[q]]
  BY DEF Answer
<1>6. /\ DOMAIN planLists' = DOMAIN planLists \cup {p} /\ planLists'[p] = i
      /\ \A q \in DOMAIN planLists' \ {p} :
            q \in DOMAIN planLists /\ planLists'[q] = planLists[q]
  BY <1>5
<1>7. /\ cacheWrites' = cacheWrites \cup {Known'}
      /\ crossed' = (crossed \/ cacheWrites # {}) /\ UNCHANGED cacheFile
  BY DEF Answer, SyncCache, Known
<1>8. CacheFollows'
  BY <1>7 DEF CacheFollows
<1>9. DOMAIN planLists' \subseteq Plan
      /\ \A q \in DOMAIN planLists' : planLists'[q] \in 1 .. Len(Lists[q])
  BY <1>1, <1>6 DEF StoreTypes
<1>10. cacheWrites' \subseteq SUBSET Model /\ crossed' \in BOOLEAN
  <2>1. cacheWrites' \subseteq SUBSET Model
    BY <1>1, <1>2, <1>4, <1>7 DEF StoreTypes
  <2>2. crossed' \in BOOLEAN
    BY <1>7
  <2> QED  BY <2>1, <2>2
<1>11. Known' \subseteq Model /\ (cacheFile' \subseteq Model \/ cacheFile' = Unreadable)
  BY <1>1, <1>2, <1>4, <1>7 DEF StoreTypes, Unreadable
<1>12. StoreTypes'
  BY <1>4, <1>9, <1>10, <1>11 DEF StoreTypes
<1> QED
  BY <1>4, <1>6, <1>8, <1>12 DEF S

LEMMA AnswerKeeps ==
  ASSUME ModelInv, NEW f \in Fetchers, NEW p \in Plan, NEW i \in 1 .. Len(Lists[p]),
         Answer(f, p, i)
  PROVE  ModelInv'
<1>1. ModelTypes /\ FetchTypes /\ ChainGoesOn /\ ListsInOrder
  BY TypesAre DEF ModelInv
<1> DEFINE b == AnsweredFor(f, p)
           a == [b EXCEPT !.ok = TRUE]
<1>2. p \in DOMAIN fetches[f].since /\ fetches' = [fetches EXCEPT ![f] = a]
      /\ UNCHANGED <<offered, slots>> /\ i \in fetches[f].since[p] .. offered[p]
  BY DEF Answer
<1>3. /\ a \in FetchRecord /\ a.kind \in FetchKinds
      /\ DOMAIN a.since = DOMAIN fetches[f].since \ {p}
      /\ \A q \in DOMAIN a.since : a.since[q] = fetches[f].since[q]
  <2>1. /\ b \in FetchRecord /\ a \in FetchRecord
        /\ b.kind \in FetchKinds /\ a.kind = b.kind /\ a.since = b.since
        /\ DOMAIN b.since = DOMAIN fetches[f].since \ {p}
        /\ \A q \in DOMAIN b.since : b.since[q] = fetches[f].since[q]
    BY <1>1, <1>2, OthersAsked
  <2> HIDE DEF a, b
  <2> QED  BY <2>1
<1> HIDE DEF a
<1>4. /\ StoreTypes' /\ CacheFollows'
      /\ DOMAIN planLists' = DOMAIN planLists \cup {p} /\ planLists'[p] = i
      /\ \A q \in DOMAIN planLists' \ {p} :
            q \in DOMAIN planLists /\ planLists'[q] = planLists[q]
  BY ListTaken
<1>5. i <= offered[p]
  <2>1. fetches[f].since[p] \in Nat /\ offered[p] \in Nat
    BY <1>1, <1>2, PlansAsked DEF FetchTypes
  <2> QED  BY <1>2, <2>1
<1>6. \A q \in DOMAIN planLists' : planLists'[q] <= offered[q]
  BY <1>1, <1>4, <1>5 DEF ListsInOrder
<1>7. /\ fetches' \in [Fetchers -> FetchRecord]
      /\ \A g \in Fetchers : fetches'[g] = NoFetch \/ fetches'[g].kind \in FetchKinds
      /\ fetches["chain"] # NoFetch <=> fetches'["chain"] # NoFetch
      /\ ListsInOrder'
  BY <1>2, <1>3, <1>4, <1>6, AnsweringKeeps
<1>8. FetchTypes'
  BY <1>1, <1>7 DEF Answer, FetchTypes
<1>9. ChainGoesOn'
  BY <1>1, <1>7 DEF Answer, ChainGoesOn
<1> QED
  BY <1>4, <1>7, <1>8, <1>9, TypesAreNext DEF ModelInv

LEMMA FetchEndsKeeps ==
  ASSUME ModelInv, NEW f \in Fetchers, FetchEnds(f)
  PROVE  ModelInv'
<1>1. ModelTypes /\ StoreTypes /\ FetchTypes /\ CacheFollows /\ ChainGoesOn /\ ListsInOrder
  BY TypesAre DEF ModelInv
<1>2. /\ fetches[f] # NoFetch /\ fetches' = [fetches EXCEPT ![f] = NoFetch]
      /\ UNCHANGED <<storeVars, offered, slots>>
  BY DEF FetchEnds
<1>3. /\ fetches' \in [Fetchers -> FetchRecord] /\ fetches'[f] = NoFetch
      /\ \A g \in Fetchers \ {f} : fetches'[g] = fetches[g]
  BY <1>1, <1>2, NothingAsked DEF FetchTypes
<1>4. attempt' \in 0 .. MaxRetries
  <2>1. attempt \in 0 .. MaxRetries
    BY <1>1 DEF FetchTypes
  <2>2. attempt' = attempt \/ (attempt' = attempt + 1 /\ attempt < MaxRetries)
    BY DEF FetchEnds
  <2> QED  BY <2>1, <2>2, ModelsAssumption
<1>5. refreshTimer' \in {"unset", "initial", "retry", "hourly"}
      /\ (f = "chain" => refreshTimer' # "unset")
      /\ (f # "chain" => refreshTimer' = refreshTimer)
  BY <1>1 DEF FetchEnds, FetchTypes, Fetchers
<1>6. hasFetched' \in BOOLEAN
  BY DEF FetchEnds
<1>7. FetchTypes'
  BY <1>1, <1>2, <1>3, <1>4, <1>5, <1>6 DEF FetchTypes
<1>8. ChainGoesOn'
  BY <1>1, <1>3, <1>5 DEF ChainGoesOn, Fetchers
<1>9. StoreTypes' /\ CacheFollows'
  BY <1>1, <1>2 DEF storeVars, StoreTypes, CacheFollows, Known
<1>10. \A g \in Fetchers : \A q \in DOMAIN fetches'[g].since :
          q \in DOMAIN fetches[g].since /\ fetches'[g].since[q] = fetches[g].since[q]
  BY <1>3, NothingAsked
<1>11. ListsInOrder'
  BY <1>1, <1>2, <1>10 DEF ListsInOrder, storeVars
<1> QED
  BY <1>7, <1>8, <1>9, <1>11, TypesAreNext DEF ModelInv

\* What leaves the plans and the fetches alone.
LEMMA StoreOnly ==
  ASSUME ModelInv, UNCHANGED <<planLists, fetcherVars, offered, slots>>
  PROVE  FetchTypes' /\ ChainGoesOn' /\ ListsInOrder'
<1>1. FetchTypes /\ ChainGoesOn /\ ListsInOrder
  BY TypesAre DEF ModelInv
<1> QED
  BY <1>1 DEF fetcherVars, FetchTypes, ChainGoesOn, ListsInOrder

LEMMA CacheWrittenKeeps ==
  ASSUME ModelInv, NEW models \in SUBSET Model, CacheWritten(models)
  PROVE  ModelInv'
<1>1. StoreTypes /\ CacheFollows
  BY TypesAre DEF ModelInv
<1>2. FetchTypes' /\ ChainGoesOn' /\ ListsInOrder'
  BY StoreOnly DEF CacheWritten
<1>3. /\ models \in cacheWrites /\ cacheWrites' = cacheWrites \ {models}
      /\ cacheFile' = models \/ (crossed /\ cacheFile' = Unreadable)
      /\ crossed' = (crossed /\ (cacheWrites' # {} \/ cacheFile' # Known))
      /\ UNCHANGED <<catalog, planLists>> /\ Known' = Known
  <2>1. /\ models \in cacheWrites /\ cacheWrites' = cacheWrites \ {models}
        /\ cacheFile' = models \/ (crossed /\ cacheFile' = Unreadable)
        /\ UNCHANGED <<catalog, planLists, fetcherVars, offered, slots, reloads>>
    BY Zenon DEF CacheWritten
  <2>2. crossed' = (crossed /\ (cacheWrites' # {} \/ cacheFile' # Known))
    BY Zenon DEF CacheWritten
  <2>3. Known' = Known
    BY <2>1 DEF Known
  <2> QED  BY <2>1, <2>2, <2>3
<1>4. StoreTypes'
  <2>1. crossed' \in BOOLEAN
    BY <1>3
  <2>2. cacheFile' \subseteq Model \/ cacheFile' = Unreadable'
    BY <1>3 DEF Unreadable
  <2> QED  BY <1>1, <1>3, <2>1, <2>2 DEF StoreTypes
<1>5. CacheFollows'
  <2> SUFFICES ASSUME ~crossed' PROVE cacheWrites' = {} /\ Known \subseteq cacheFile'
    BY <1>3 DEF CacheFollows
  <2>1. CASE crossed
    BY <1>3, <2>1
  <2>2. CASE ~crossed
    BY <1>1, <1>3, <2>2 DEF CacheFollows
  <2> QED  BY <2>1, <2>2
<1> QED
  BY <1>2, <1>4, <1>5, TypesAreNext DEF ModelInv

LEMMA CacheWriteFailsKeeps ==
  ASSUME ModelInv, NEW models \in SUBSET Model, CacheWriteFails(models)
  PROVE  ModelInv'
<1>1. StoreTypes
  BY TypesAre DEF ModelInv
<1>2. FetchTypes' /\ ChainGoesOn' /\ ListsInOrder'
  BY StoreOnly DEF CacheWriteFails
<1>3. /\ cacheWrites' = cacheWrites \ {models}
      /\ cacheFile' \in {cacheFile, Unreadable} /\ crossed' = TRUE
      /\ UNCHANGED <<catalog, planLists>> /\ Known' = Known
  BY DEF CacheWriteFails, Known
<1>4. StoreTypes'
  <2>1. crossed' \in BOOLEAN
    BY <1>3
  <2>2. cacheFile' \subseteq Model \/ cacheFile' = Unreadable'
    BY <1>1, <1>3 DEF StoreTypes, Unreadable
  <2> QED  BY <1>1, <1>3, <2>1, <2>2 DEF StoreTypes
<1>5. CacheFollows'
  BY <1>3 DEF CacheFollows
<1> QED
  BY <1>2, <1>4, <1>5, TypesAreNext DEF ModelInv

\* The models a start or a reload loads, from what is in the file.
LEMMA LoadedTyped ==
  ASSUME NEW file, file \subseteq Model \/ file = Unreadable,
         catalog' = [m \in Static \cup (IF file = Unreadable THEN {} ELSE file) |->
                        IF m \in Static THEN "static" ELSE "backend"]
  PROVE  /\ Known' \subseteq Model /\ Range(catalog') \subseteq Source
         /\ Known' \subseteq Static \cup file
<1> DEFINE S == Static \cup (IF file = Unreadable THEN {} ELSE file)
<1>1. S \subseteq Model /\ S \subseteq Static \cup file
  <2>1. Static \subseteq Model
    BY DEF Model
  <2> QED  BY <2>1
<1>2. catalog' = [m \in S |-> IF m \in Static THEN "static" ELSE "backend"]
  OBVIOUS
<1> HIDE DEF S
<1> QED
  BY <1>1, <1>2 DEF Known, Range, Source

LEMMA ReloadKeeps ==
  ASSUME ModelInv, NEW plans \in SUBSET Plan, Reload(plans)
  PROVE  ModelInv'
<1>1. ModelTypes /\ StoreTypes /\ FetchTypes /\ CacheFollows /\ ChainGoesOn /\ ListsInOrder
  BY TypesAre DEF ModelInv
<1>2. /\ planLists' = <<>> /\ crossed' = (crossed \/ cacheWrites # {})
      /\ UNCHANGED <<cacheFile, cacheWrites, refreshTimer, attempt, hasFetched, offered, slots>>
  BY DEF Reload, LoadStatic
<1>3. catalog' = [m \in Static \cup (IF cacheFile = Unreadable THEN {} ELSE cacheFile) |->
                     IF m \in Static THEN "static" ELSE "backend"]
  BY DEF Reload, LoadStatic
<1>4. /\ Known' \subseteq Model /\ Range(catalog') \subseteq Source
      /\ Known' \subseteq Static \cup cacheFile
  BY <1>1, <1>3, LoadedTyped DEF StoreTypes
<1>5. DOMAIN planLists' = {} /\ planLists' \in {planLists, <<>>}
  BY <1>2
<1>6. StoreTypes'
  <2>1. crossed' \in BOOLEAN
    BY <1>2
  <2>2. cacheFile' \subseteq Model \/ cacheFile' = Unreadable'
    BY <1>1, <1>2 DEF StoreTypes, Unreadable
  <2> QED  BY <1>1, <1>2, <1>4, <1>5, <2>1, <2>2 DEF StoreTypes
<1>7. CacheFollows'
  BY <1>1, <1>2, <1>4 DEF CacheFollows
<1>8. /\ fetches' \in [Fetchers -> FetchRecord]
      /\ \A g \in Fetchers : fetches'[g] = NoFetch \/ fetches'[g].kind \in FetchKinds
      /\ fetches'["chain"] = fetches["chain"]
      /\ ListsInOrder'
  <2>1. CASE FetchBegins("immediate", "immediate", plans)
    <3>1. "immediate" \in FetchKinds /\ "immediate" \in Fetchers
      BY DEF FetchKinds, Fetchers
    <3> QED  BY <1>2, <1>5, <2>1, <3>1, AskingKeeps
  <2>2. CASE UNCHANGED fetches
    <3>1. ListsInOrder'
      BY <1>1, <1>2, <1>5, <2>2 DEF ListsInOrder
    <3> QED  BY <1>1, <2>2, <3>1 DEF FetchTypes
  <2> QED  BY <2>1, <2>2 DEF Reload
<1>9. FetchTypes'
  BY <1>1, <1>2, <1>8 DEF FetchTypes
<1>10. ChainGoesOn'
  BY <1>1, <1>2, <1>8 DEF ChainGoesOn
<1> QED
  BY <1>6, <1>7, <1>8, <1>9, <1>10, TypesAreNext DEF ModelInv

LEMMA RestartFetcherKeeps ==
  ASSUME ModelInv, RestartFetcher
  PROVE  ModelInv'
<1>1. ModelTypes /\ StoreTypes /\ FetchTypes /\ CacheFollows /\ ListsInOrder
  BY TypesAre DEF ModelInv
<1>2. /\ planLists' = <<>> /\ crossed' = (crossed \/ cacheWrites # {}) /\ cacheWrites' = {}
      /\ refreshTimer' = "initial" /\ attempt' = 0 /\ hasFetched' = FALSE
      /\ fetches' = [f \in DOMAIN fetches |-> NoFetch]
      /\ UNCHANGED <<offered, slots>>
  BY DEF RestartFetcher
<1>3. /\ cacheFile' = cacheFile \/ cacheFile' = Unreadable
      /\ cacheWrites = {} => cacheFile' = cacheFile
  BY DEF RestartFetcher
<1>4. cacheFile' \subseteq Model \/ cacheFile' = Unreadable
  BY <1>1, <1>3 DEF StoreTypes
<1>5. catalog' = [m \in Static \cup (IF cacheFile' = Unreadable THEN {} ELSE cacheFile') |->
                     IF m \in Static THEN "static" ELSE "backend"]
  BY DEF RestartFetcher
<1>6. /\ Known' \subseteq Model /\ Range(catalog') \subseteq Source
      /\ Known' \subseteq Static \cup cacheFile'
  <2> DEFINE file == cacheFile'
  <2>1. file \subseteq Model \/ file = Unreadable
    BY <1>4
  <2>2. catalog' = [m \in Static \cup (IF file = Unreadable THEN {} ELSE file) |->
                       IF m \in Static THEN "static" ELSE "backend"]
    BY <1>5
  <2>3. Known' \subseteq Static \cup file /\ Known' \subseteq Model /\ Range(catalog') \subseteq Source
    <3> HIDE DEF file
    <3> QED  BY <2>1, <2>2, LoadedTyped
  <2> QED  BY <2>3
<1>7. DOMAIN planLists' = {}
  BY <1>2
<1>8. StoreTypes'
  <2>1. crossed' \in BOOLEAN
    BY <1>2
  <2>2. cacheFile' \subseteq Model \/ cacheFile' = Unreadable'
    BY <1>4 DEF Unreadable
  <2> QED  BY <1>2, <1>6, <1>7, <2>1, <2>2 DEF StoreTypes
<1>9. CacheFollows'
  BY <1>2, <1>6 DEF CacheFollows
<1>10. /\ fetches' \in [Fetchers -> FetchRecord] /\ \A f \in Fetchers : fetches'[f] = NoFetch
       /\ \A f \in Fetchers : DOMAIN fetches'[f].since = {}
  BY <1>1, <1>2, NothingAsked DEF FetchTypes
<1>11. FetchTypes'
  <2>1. hasFetched' \in BOOLEAN
    BY <1>2
  <2>2. attempt' \in 0 .. MaxRetries
    BY <1>2, ModelsAssumption
  <2> QED  BY <1>1, <1>2, <1>10, <2>1, <2>2 DEF FetchTypes
<1>12. ChainGoesOn'
  BY <1>2, <1>10 DEF ChainGoesOn, Fetchers
<1>13. ListsInOrder'
  BY <1>7, <1>10 DEF ListsInOrder
<1> QED
  BY <1>8, <1>9, <1>11, <1>12, <1>13, TypesAreNext DEF ModelInv

LEMMA BackendChangesKeeps ==
  ASSUME ModelInv, NEW p \in Plan, BackendChanges(p)
  PROVE  ModelInv'
<1>1. ModelTypes /\ StoreTypes /\ FetchTypes /\ CacheFollows /\ ChainGoesOn /\ ListsInOrder
  BY TypesAre DEF ModelInv
<1>2. /\ offered[p] < Len(Lists[p]) /\ offered' = [offered EXCEPT ![p] = offered[p] + 1]
      /\ UNCHANGED <<storeVars, fetcherVars, slots>>
  BY DEF BackendChanges
<1>3. offered \in [Plan -> Nat] /\ \A q \in Plan : offered[q] \in 1 .. Len(Lists[q])
  BY <1>1 DEF FetchTypes
<1>4. Len(Lists[p]) \in Nat
  BY ModelsAssumption
<1>5. offered' \in [Plan -> Nat] /\ offered'[p] = offered[p] + 1
      /\ \A q \in Plan \ {p} : offered'[q] = offered[q]
  BY <1>2, <1>3
<1>6. offered'[p] \in 1 .. Len(Lists[p])
  BY <1>2, <1>3, <1>4, <1>5
<1>7. FetchTypes'
  BY <1>1, <1>2, <1>3, <1>5, <1>6 DEF fetcherVars, FetchTypes
<1>8. StoreTypes' /\ CacheFollows' /\ ChainGoesOn'
  BY <1>1, <1>2 DEF storeVars, fetcherVars, StoreTypes, CacheFollows, ChainGoesOn, Known
<1>9. \A q \in Plan, n \in Nat : n <= offered[q] => n <= offered'[q]
  BY <1>3, <1>5
<1>10. /\ UNCHANGED <<planLists, fetches>>
       /\ \A q \in DOMAIN planLists : q \in Plan /\ planLists[q] \in Nat
       /\ \A f \in Fetchers : \A q \in DOMAIN fetches[f].since :
             q \in Plan /\ fetches[f].since[q] \in Nat
  <2>1. \A q \in DOMAIN planLists : q \in Plan /\ planLists[q] \in Nat
    BY <1>1 DEF StoreTypes
  <2> QED  BY <1>1, <1>2, <2>1, PlansAsked DEF storeVars, fetcherVars, FetchTypes
<1>11. ListsInOrder'
  BY <1>1, <1>2, <1>9, <1>10 DEF ListsInOrder
<1> QED
  BY <1>7, <1>8, <1>11, TypesAreNext DEF ModelInv

\* Every step keeps it.
LEMMA ModelStep == ModelInv /\ [ModelNext]_modelVars => ModelInv'
<1> SUFFICES ASSUME ModelInv, [ModelNext]_modelVars PROVE ModelInv'
  OBVIOUS
<1>1. DOMAIN fetches = Fetchers
  BY DEF ModelInv, ModelTypes
<1>2. CASE UNCHANGED modelVars
  <2>1. ModelTypes /\ StoreTypes /\ CacheFollows
    BY TypesAre DEF ModelInv
  <2>2. FetchTypes' /\ ChainGoesOn' /\ ListsInOrder'
    BY <1>2, StoreOnly DEF modelVars, storeVars
  <2>3. StoreTypes' /\ CacheFollows'
    BY <1>2, <2>1 DEF modelVars, storeVars, StoreTypes, CacheFollows, Known
  <2> QED  BY <2>2, <2>3, TypesAreNext DEF ModelInv
<1>3. ASSUME NEW plans \in SUBSET Plan,
             ChainFetch(plans) \/ ImmediateFetch(plans) \/ Reload(plans)
      PROVE  ModelInv'
  BY <1>3, ChainFetchKeeps, ImmediateFetchKeeps, ReloadKeeps
<1>4. ASSUME NEW f \in Fetchers, FetchEnds(f) PROVE ModelInv'
  BY <1>4, FetchEndsKeeps
<1>5. ASSUME NEW f \in Fetchers, NEW p \in Plan, NoAnswer(f, p) PROVE ModelInv'
  BY <1>5, NoAnswerKeeps
<1>6. ASSUME NEW f \in Fetchers, NEW p \in Plan, NEW i \in 1 .. Len(Lists[p]), Answer(f, p, i)
      PROVE  ModelInv'
  BY <1>6, AnswerKeeps
<1>7. ASSUME NEW models \in SUBSET Model, CacheWritten(models) \/ CacheWriteFails(models)
      PROVE  ModelInv'
  BY <1>7, CacheWrittenKeeps, CacheWriteFailsKeeps
<1>8. CASE RestartFetcher
  BY <1>8, RestartFetcherKeeps
<1>9. ASSUME NEW p \in Plan, BackendChanges(p) PROVE ModelInv'
  BY <1>9, BackendChangesKeeps
<1> QED
  BY <1>1, <1>2, <1>3, <1>4, <1>5, <1>6, <1>7, <1>8, <1>9 DEF ModelNext

\* Whatever the backend lists and answers, whenever a fetch is triggered, the models are
\* reloaded or the process restarts: the chain of fetches goes on, a written cache has
\* what is known, and a response's name asks for its model again.
THEOREM CatalogueTheorem == ModelSpec => []CatalogueKept
<1>1. ModelSpec => []ModelInv
  BY ModelStarts, ModelStep, PTL DEF ModelSpec
<1>2. ModelInv => CatalogueKept
  BY DisplayNameTheorem
     DEF ModelInv, ModelTypes, CacheFollows, CacheKeepsTheCatalogue, CatalogueKept
<1> QED
  BY <1>1, <1>2, PTL

\* With one slot for an account, an answer is never older than what is known of its plan.
LEMMA AnswerIsNewer ==
  ASSUME ModelInv, slots = 1, NEW f \in Fetchers, NEW p \in Plan,
         NEW i \in 1 .. Len(Lists[p]), Answer(f, p, i),
         NEW q \in DOMAIN planLists, q \in DOMAIN planLists'
  PROVE  planLists'[q] >= planLists[q]
<1>1. FetchTypes /\ StoreTypes /\ ListsInOrder
  BY TypesAre DEF ModelInv
<1>2. planLists[q] \in Nat
  BY <1>1 DEF StoreTypes
<1>3. CASE q # p
  <2>1. planLists'[q] = planLists[q]
    BY <1>3, ListTaken
  <2> QED  BY <1>2, <2>1
<1>4. CASE q = p
  <2>1. planLists'[p] = i
    BY ListTaken
  <2>2. p \in DOMAIN fetches[f].since /\ i \in fetches[f].since[p] .. offered[p]
    BY DEF Answer
  <2>3. fetches[f].since[p] \in Nat /\ offered[p] \in Nat
    BY <1>1, <2>2, PlansAsked DEF FetchTypes
  <2>4. planLists[p] <= fetches[f].since[p]
    BY <1>1, <1>4, <2>2 DEF ListsInOrder
  <2> QED  BY <1>2, <1>4, <2>1, <2>2, <2>3, <2>4
<1> QED
  BY <1>3, <1>4

LEMMA ReloadsCounted == ModelSpec => [](reloads \in Nat)
<1>1. ModelInit => reloads \in Nat
  BY DEF ModelInit
<1>2. reloads \in Nat /\ [ModelNext]_modelVars => (reloads \in Nat)'
  <2> SUFFICES ASSUME reloads \in Nat, [ModelNext]_modelVars, reloads' # reloads
               PROVE  reloads' = reloads + 1
    OBVIOUS
  <2>1. ASSUME NEW plans, ChainFetch(plans) \/ ImmediateFetch(plans) PROVE FALSE
    BY <2>1 DEF ChainFetch, ImmediateFetch
  <2>2. ASSUME NEW plans, Reload(plans) PROVE reloads' = reloads + 1
    BY <2>2 DEF Reload
  <2>3. ASSUME NEW f, FetchEnds(f) PROVE FALSE
    BY <2>3 DEF FetchEnds
  <2>4. ASSUME NEW f, NEW p, NoAnswer(f, p) PROVE FALSE
    BY <2>4 DEF NoAnswer
  <2>5. ASSUME NEW f, NEW p, NEW i, Answer(f, p, i) PROVE FALSE
    BY <2>5 DEF Answer
  <2>6. ASSUME NEW models, CacheWritten(models) \/ CacheWriteFails(models) PROVE FALSE
    BY <2>6, Zenon DEF CacheWritten, CacheWriteFails
  <2>7. CASE RestartFetcher
    BY <2>7 DEF RestartFetcher
  <2>8. ASSUME NEW p, BackendChanges(p) PROVE FALSE
    BY <2>8 DEF BackendChanges
  <2>9. CASE UNCHANGED modelVars
    BY <2>9 DEF modelVars
  <2> QED
    BY <2>1, <2>2, <2>3, <2>4, <2>5, <2>6, <2>7, <2>8, <2>9 DEF ModelNext
<1> QED
  BY <1>1, <1>2, PTL DEF ModelSpec

\* What is not an answer leaves the lists and the models alone or loads them anew.
LEMMA OnlyAnswersTeach ==
  ASSUME reloads \in Nat, [ModelNext]_modelVars,
         \A f \in DOMAIN fetches, p \in Plan :
            \A i \in 1 .. Len(Lists[p]) : ~Answer(f, p, i)
  PROVE  \/ UNCHANGED <<catalog, planLists>>
         \/ planLists' = <<>> /\ reloads' # reloads
BY DEF ModelNext, modelVars, storeVars, ChainFetch, ImmediateFetch, Reload, LoadStatic, FetchEnds,
       NoAnswer, CacheWritten, CacheWriteFails, RestartFetcher, BackendChanges

\* A step takes nothing back.
LEMMA StepTakesNothingBack ==
  ASSUME ModelInv, reloads \in Nat, [ModelNext]_modelVars
  PROVE  /\ \A q \in Plan :
               slots = 1 /\ q \in DOMAIN planLists /\ q \in DOMAIN planLists'
               => planLists'[q] >= planLists[q]
         /\ reloads' = reloads => Known \subseteq Known'
<1>1. DOMAIN fetches = Fetchers /\ \A q \in DOMAIN planLists : planLists[q] \in Nat
  BY DEF ModelInv, ModelTypes, ModelTypeOK
<1>2. CASE UNCHANGED <<catalog, planLists>>
  BY <1>1, <1>2 DEF Known
<1>3. CASE planLists' = <<>> /\ reloads' # reloads
  BY <1>3
<1>4. ASSUME NEW f \in Fetchers, NEW p \in Plan, NEW i \in 1 .. Len(Lists[p]), Answer(f, p, i)
      PROVE  /\ slots = 1 => \A q \in DOMAIN planLists \cap DOMAIN planLists' :
                                planLists'[q] >= planLists[q]
             /\ Known \subseteq Known'
  <2>1. Known \subseteq Known'
    BY <1>4, ListTaken
  <2> QED  BY <1>4, <2>1, AnswerIsNewer
<1>5. CASE \E f \in Fetchers, p \in Plan : \E i \in 1 .. Len(Lists[p]) : Answer(f, p, i)
  BY <1>4, <1>5
<1> QED
  BY <1>1, <1>2, <1>3, <1>5, OnlyAnswersTeach

\* With one slot for an account no answer replaces a newer one of the same plan, and what
\* a listed name stands for changes only when the models are loaded anew.
THEOREM NothingTakenBackTheorem == ModelSpec => NothingTakenBack
<1>1. ModelSpec => []ModelInv
  BY ModelStarts, ModelStep, PTL DEF ModelSpec
<1>2. ModelInv /\ reloads \in Nat /\ [ModelNext]_modelVars
        => [\A p \in Plan :
              slots = 1 /\ p \in DOMAIN planLists /\ p \in DOMAIN planLists'
              => planLists'[p] >= planLists[p]]_modelVars
  BY StepTakesNothingBack
<1>3. ModelInv /\ reloads \in Nat /\ [ModelNext]_modelVars
        => [reloads' = reloads =>
              \A n \in Known \cup DOMAIN Alias :
                 ParseModelName(Known', n) = ParseModelName(Known, n)]_modelVars
  BY StepTakesNothingBack, MeaningKept
<1>4. ModelSpec => NewestListStays
  BY <1>1, <1>2, ReloadsCounted, PTL DEF ModelSpec, NewestListStays
<1>5. ModelSpec => ListedNamesKeepTheirMeaning
  BY <1>1, <1>3, ReloadsCounted, PTL DEF ModelSpec, ListedNamesKeepTheirMeaning
<1> QED
  BY <1>4, <1>5 DEF NothingTakenBack
===============================================================================
