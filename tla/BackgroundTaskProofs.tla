------------------------ MODULE BackgroundTaskProofs ------------------------
(***************************************************************************)
(* Proofs about the two components whose calls race with a task of their   *)
(* own in the background.  ManagedProcess, for any number of processes:    *)
(* its types, that no verdict precedes what it is about, and that the      *)
(* store and its watchers implement the life cycle of ProcessLifecycle.    *)
(* McpSessions, for any number of sessions and calls: its types, and that  *)
(* no session loses its last-used time unnoticed.                          *)
(***************************************************************************)
EXTENDS ManagedProcess, McpSessions, TLAPS

USE DEF state, system

-----------------------------------------------------------------------------
\* Every variable keeps its type under every step of the store, the children and the
\* watchers.
THEOREM TypeCorrect == Spec => []TypeOK
<1>1. Init => TypeOK
  BY DEF Init, TypeOK, Results, Codes
<1>2. TypeOK /\ [Next]_vars => TypeOK'
  <2> SUFFICES ASSUME TypeOK, [Next]_vars PROVE TypeOK'
    OBVIOUS
  <2>1. ASSUME NEW p \in Procs, Start(p) PROVE TypeOK'
    BY <2>1 DEF Start, Spawn, Told, TypeOK
  <2>2. ASSUME NEW p \in Procs, StartFails(p) PROVE TypeOK'
    BY <2>2 DEF StartFails, Told, TypeOK
  <2>3. ASSUME NEW p \in Procs, Read(p) \/ StopFinished(p) PROVE TypeOK'
    BY <2>3 DEF Read, StopFinished, Told, TypeOK
  <2>4. ASSUME NEW p \in Procs, StopSignals(p) PROVE TypeOK'
    BY <2>4 DEF StopSignals, TypeOK
  <2>5. ASSUME NEW p \in Procs, StopRecords(p) PROVE TypeOK'
    BY <2>5 DEF StopRecords, Told, TypeOK
  <2>6. ASSUME NEW p \in Procs, Exec(p) PROVE TypeOK'
    BY <2>6 DEF Exec, Spawn, TypeOK
  <2>7. ASSUME NEW p \in Procs, ChildExits(p) \/ PipesClose(p) PROVE TypeOK'
    <3>1. /\ child' \in [Procs -> {"none", "alive", "dead", "reaped"}]
          /\ code' \in [Procs -> Codes] /\ held' \in [Procs -> BOOLEAN]
      <4>1. CASE ChildExits(p)
        <5>1. PICK s \in Codes, h \in {FALSE, MayLeaveChildren} :
                /\ code' = [code EXCEPT ![p] = s]
                /\ held' = [held EXCEPT ![p] = h]
          BY <4>1 DEF ChildExits
        <5> QED
          BY <4>1, <5>1, ProcessAssumption DEF ChildExits, TypeOK
      <4>2. CASE PipesClose(p)
        BY <4>2 DEF PipesClose, TypeOK
      <4> QED
        BY <2>7, <4>1, <4>2
    <3> QED
      BY <2>7, <3>1 DEF ChildExits, PipesClose, TypeOK
  <2>8. ASSUME NEW p \in Procs, SeesExit(p) \/ SeesStop(p) \/ SeesTimeout(p) PROVE TypeOK'
    <3>1. code' = code /\ child' = [child EXCEPT ![p] = "reaped"]
      BY <2>8 DEF SeesExit, SeesStop, SeesTimeout, Kill, Reap
    <3>2. held' \in [Procs -> BOOLEAN]
      BY <2>8, ProcessAssumption DEF SeesExit, SeesStop, SeesTimeout, Kill, TypeOK
    <3>3. PICK late \in BOOLEAN : Gather(p, late)
      BY <2>8 DEF SeesExit, SeesStop, SeesTimeout
    <3>4. result' \in [Procs -> Results]
      <4>1. [exit |-> code[p], timedOut |-> late] \in Results
        BY DEF Results, TypeOK
      <4>2. result' = [result EXCEPT ![p] = [exit |-> code[p], timedOut |-> late]]
        BY <3>1, <3>3 DEF Gather
      <4> QED
        BY <4>1, <4>2 DEF TypeOK
    <3> QED
      BY <3>1, <3>2, <3>3, <3>4 DEF Gather, TypeOK
  <2>9. ASSUME NEW p \in Procs, Record(p) PROVE TypeOK'
    <3>1. result[p].exit \in Codes /\ result[p].timedOut \in BOOLEAN
      BY DEF Results, TypeOK
    <3>2. /\ running' \in [Procs -> BOOLEAN] /\ finished' \in [Procs -> Nat]
          /\ exit' \in [Procs -> Codes]
      <4>1. CASE running[p]
        <5>1. /\ running' = [running EXCEPT ![p] = FALSE]
              /\ finished' = [finished EXCEPT ![p] = @ + 1]
              /\ exit' = [exit EXCEPT ![p] = result[p].exit]
          BY <2>9, <4>1 DEF Record, RecordUnlessStopped
        <5>2. running' \in [Procs -> BOOLEAN]
          BY <5>1 DEF TypeOK
        <5>3. finished' \in [Procs -> Nat]
          BY <5>1 DEF TypeOK
        <5>4. exit' \in [Procs -> Codes]
          BY <3>1, <5>1 DEF TypeOK
        <5> QED
          BY <5>2, <5>3, <5>4
      <4>2. CASE ~running[p]
        BY <2>9, <4>2 DEF Record, RecordUnlessStopped, TypeOK
      <4> QED
        BY <4>1, <4>2
    <3>3. timedOut' \in [Procs -> BOOLEAN]
      BY <2>9, <3>1 DEF Record, TypeOK
    <3> QED
      BY <2>9, <3>2, <3>3 DEF Record, TypeOK
  <2>10. CASE UNCHANGED vars
    BY <2>10 DEF vars, TypeOK
  <2> QED
    BY <2>1, <2>2, <2>3, <2>4, <2>5, <2>6, <2>7, <2>8, <2>9, <2>10 DEF Next
<1>3. QED
  BY <1>1, <1>2, PTL DEF Spec

-----------------------------------------------------------------------------
\* What the watcher is about to write is backed by the child: it decides only when the
\* child is reaped, and takes the child's own code.
Backed(p) ==
    /\ watch[p] \in {"capture", "done"} /\ child[p] # "none" =>
           child[p] = "reaped" /\ result[p].exit = code[p]
    /\ watch[p] = "capture" => child[p] = "reaped"
    /\ watch[p] = "none" => child[p] = "none"
    /\ child[p] = "none" => ~held[p]
    /\ exit[p] # "null" \/ timedOut[p] =>
           watch[p] = "done" /\ child[p] = "reaped" /\ ~held[p] /\ exit[p] \in {"null", code[p]}
VerdictInv == \A p \in Procs : Backed(p)

\* No exit code or timeout is published before the child is gone and its output complete,
\* whatever stops and timeouts race with its exit.
THEOREM VerdictCorrect == Spec => []VerdictAfterOutput
<1>1. Init => VerdictInv
  <2> SUFFICES ASSUME Init, NEW p \in Procs PROVE Backed(p)
    BY DEF VerdictInv
  <2>1. watch[p] = "none" /\ child[p] = "none" /\ exit[p] = "null"
    BY DEF Init
  <2>2. ~held[p] /\ ~timedOut[p]
    BY Zenon DEF Init
  <2> QED
    BY <2>1, <2>2 DEF Backed
<1>2. TypeOK /\ VerdictInv /\ [Next]_vars => VerdictInv'
  <2> SUFFICES ASSUME TypeOK, VerdictInv, [Next]_vars, NEW q \in Procs PROVE Backed(q)'
    BY DEF VerdictInv
  <2>0. Backed(q)
    BY DEF VerdictInv
  <2>1. ASSUME NEW p \in Procs, Start(p) PROVE Backed(q)'
    BY <2>0, <2>1 DEF Start, Unused, Spawn, Backed, TypeOK
  <2>2. ASSUME NEW p \in Procs, StartFails(p) PROVE Backed(q)'
    BY <2>0, <2>2 DEF StartFails, Unused, Backed, TypeOK
  <2>3. ASSUME NEW p \in Procs, Read(p) \/ StopFinished(p) PROVE Backed(q)'
    BY <2>0, <2>3 DEF Read, StopFinished, Backed
  <2>4. ASSUME NEW p \in Procs, StopSignals(p) PROVE Backed(q)'
    BY <2>0, <2>4 DEF StopSignals, Backed
  <2>5. ASSUME NEW p \in Procs, StopRecords(p) PROVE Backed(q)'
    BY <2>0, <2>5 DEF StopRecords, Backed
  <2>6. ASSUME NEW p \in Procs, Exec(p) PROVE Backed(q)'
    BY <2>0, <2>6 DEF Exec, Unused, Spawn, Backed, TypeOK
  <2>7. ASSUME NEW p \in Procs, ChildExits(p) PROVE Backed(q)'
    BY <2>0, <2>7 DEF ChildExits, Backed, TypeOK
  <2>8. ASSUME NEW p \in Procs, PipesClose(p) PROVE Backed(q)'
    BY <2>0, <2>8 DEF PipesClose, Backed, TypeOK
  <2>9. ASSUME NEW p \in Procs, SeesExit(p) \/ SeesStop(p) \/ SeesTimeout(p)
        PROVE  Backed(q)'
    <3>1. /\ watch[p] = "select" /\ watch' = [watch EXCEPT ![p] = "capture"]
          /\ code' = code /\ child' = [child EXCEPT ![p] = "reaped"]
          /\ result'[p].exit = code[p] /\ \A o \in Procs \ {p} : result'[o] = result[o]
          /\ \A o \in Procs \ {p} : held'[o] = held[o]
          /\ UNCHANGED <<exit, timedOut>>
      BY <2>9 DEF SeesExit, SeesStop, SeesTimeout, Kill, Reap, Gather, TypeOK
    <3> QED
      BY <2>0, <3>1 DEF Backed, TypeOK
  <2>10. ASSUME NEW p \in Procs, Record(p) PROVE Backed(q)'
    <3>1. CASE q = p
      <4>1. child[p] = "reaped" /\ ~held[p] /\ result[p].exit = code[p]
        BY <2>0, <2>10, <3>1 DEF Record, OutputDone, Backed
      <4>2. watch'[p] = "done" /\ exit'[p] \in {exit[p], code[p]}
        BY <2>10, <4>1 DEF Record, RecordUnlessStopped, TypeOK
      <4>3. exit[p] \in {"null", code[p]}
        BY <2>0, <3>1 DEF Backed
      <4> QED
        BY <2>10, <3>1, <4>1, <4>2, <4>3 DEF Record, Backed
    <3>2. CASE q # p
      <4>1. /\ watch'[q] = watch[q] /\ exit'[q] = exit[q] /\ timedOut'[q] = timedOut[q]
            /\ UNCHANGED <<child, code, held, result>>
        BY <2>10, <3>2 DEF Record, RecordUnlessStopped, TypeOK
      <4> QED
        BY <2>0, <4>1 DEF Backed
    <3> QED
      BY <3>1, <3>2
  <2>11. CASE UNCHANGED vars
    BY <2>0, <2>11 DEF vars, Backed
  <2> QED
    BY <2>1, <2>2, <2>3, <2>4, <2>5, <2>6, <2>7, <2>8, <2>9, <2>10, <2>11 DEF Next
<1>3. VerdictInv => VerdictAfterOutput
  BY DEF VerdictInv, Backed, VerdictAfterOutput
<1>4. QED
  BY <1>1, <1>2, <1>3, TypeCorrect, PTL DEF Spec

-----------------------------------------------------------------------------
\* What callers have been told agrees with the state: a verdict they know is the state's
\* own and nobody is about to write it again; a stop under way has told nobody anything
\* but "running".
Agrees(p) ==
    /\ watch[p] = "none" => /\ ~running[p] /\ finished[p] = 0 /\ exit[p] = "null"
                            /\ ~exec[p] /\ seen[p] = Lifecycle!Unreported
    /\ running[p] => finished[p] = 0 /\ exit[p] = "null"
    /\ watch[p] # "none" /\ ~running[p] => finished[p] > 0
    /\ Managed(p) => \/ seen[p] = Lifecycle!Running
                     \/ /\ seen[p] = [running |-> FALSE, finished |-> finished[p], exit |-> exit[p]]
                        /\ ~running[p] /\ stopping # p
    /\ stopping = p => Managed(p)
LifecycleInv == \A p \in Procs : Agrees(p)

\* A report of process p that says what the state says after the step is a step of the
\* life cycle, and agrees with that state.
LEMMA ToldStep ==
    ASSUME NEW p \in Procs, seen \in [Procs -> [running : BOOLEAN, finished : Nat, exit : Codes]],
           Told(p), running'[p] \in BOOLEAN, finished'[p] \in Nat, exit'[p] \in Codes,
           IF running'[p] THEN finished'[p] = 0 /\ exit'[p] = "null" ELSE finished'[p] > 0,
           \/ seen[p] = Lifecycle!Unreported \/ seen[p] = Lifecycle!Running
           \/ seen[p] = seen'[p]
    PROVE  [Lifecycle!Next]_seen
<1>1. seen'[p] \in Lifecycle!Verdicts \cup {Lifecycle!Running} /\ seen' = [seen EXCEPT ![p] = seen'[p]]
  <2>1. /\ seen'[p] = [running |-> running'[p], finished |-> finished'[p], exit |-> exit'[p]]
        /\ seen' = [seen EXCEPT ![p] = seen'[p]]
    BY DEF Told
  <2>2. CASE running'[p] = TRUE
    BY <2>1, <2>2 DEF Lifecycle!Running
  <2>3. CASE running'[p] = FALSE
    <3>1. finished'[p] \in Nat \ {0}
      <4>1. ~running'[p]
        BY <2>3
      <4> QED
        BY <4>1
    <3>2. seen'[p] = [running |-> FALSE, finished |-> finished'[p], exit |-> exit'[p]]
      BY <2>1, <2>3
    <3>3. seen'[p] \in Lifecycle!Verdicts
      BY <3>1, <3>2 DEF Lifecycle!Verdicts
    <3> QED
      BY <2>1, <3>3
  <2> QED
    BY <2>2, <2>3
<1>2. CASE seen[p] = Lifecycle!Unreported
  BY <1>1, <1>2 DEF Lifecycle!Next, Lifecycle!Started
<1>3. CASE seen[p] = Lifecycle!Running
  <2>1. CASE seen'[p] = Lifecycle!Running
    <3>1. seen' = seen
      BY <1>1, <1>3, <2>1
    <3> QED
      BY <3>1
  <2>2. CASE seen'[p] \in Lifecycle!Verdicts
    BY <1>1, <1>3, <2>2 DEF Lifecycle!Next, Lifecycle!Ended
  <2> QED
    BY <1>1, <2>1, <2>2
<1>4. CASE seen[p] = seen'[p]
  <2>1. seen' = seen
    BY <1>1, <1>4
  <2> QED
    BY <2>1
<1> QED
  BY <1>2, <1>3, <1>4

\* Every step of the store, the children and the watchers is a step of the life cycle or
\* changes nothing a caller was told.
THEOREM LifecycleImplemented == Spec => ImplementsLifecycle
<1>1. Init => LifecycleInv
  <2> SUFFICES ASSUME Init, NEW p \in Procs PROVE Agrees(p)
    BY DEF LifecycleInv
  <2>1. /\ watch[p] = "none" /\ finished[p] = 0 /\ exit[p] = "null" /\ stopping # p
        /\ seen[p] = Lifecycle!Unreported
    BY ProcessAssumption DEF Init, Lifecycle!Unreported
  <2>2. ~running[p] /\ ~exec[p]
    BY Zenon DEF Init
  <2> QED
    BY <2>1, <2>2 DEF Agrees, Managed
<1>2. Init => Lifecycle!Init
  BY DEF Init, Lifecycle!Init, Lifecycle!Unreported
<1>3. TypeOK /\ LifecycleInv /\ [Next]_vars => LifecycleInv' /\ [Lifecycle!Next]_seen
  <2> SUFFICES ASSUME TypeOK, LifecycleInv, [Next]_vars
               PROVE  LifecycleInv' /\ [Lifecycle!Next]_seen
    OBVIOUS
  <2> USE DEF Lifecycle!Unreported, Lifecycle!Running
  <2>0. ASSUME NEW p \in Procs PROVE Agrees(p)
    BY DEF LifecycleInv
  <2>1. ASSUME NEW p \in Procs, Start(p) PROVE LifecycleInv' /\ [Lifecycle!Next]_seen
    <3>1. /\ watch[p] = "none" /\ running'[p] /\ finished'[p] = 0 /\ exit'[p] = "null"
          /\ seen[p] = Lifecycle!Unreported
      BY <2>0, <2>1 DEF Start, Unused, Spawn, Agrees, TypeOK
    <3>2. running'[p] = TRUE
      BY <2>1 DEF Start, Spawn, TypeOK
    <3>3. [Lifecycle!Next]_seen
      BY <2>1, <3>1, <3>2, ToldStep DEF Start, TypeOK, Codes
    <3>4. ASSUME NEW q \in Procs PROVE Agrees(q)'
      BY <2>0, <2>1, <3>1, <3>2, <3>4 DEF Start, StoreFree, Unused, Spawn, Told, Managed, Agrees, TypeOK
    <3> QED
      BY <3>3, <3>4 DEF LifecycleInv
  <2>2. ASSUME NEW p \in Procs, StartFails(p) PROVE LifecycleInv' /\ [Lifecycle!Next]_seen
    <3>1. /\ watch[p] = "none" /\ ~running[p] /\ finished'[p] = 1 /\ exit[p] = "null"
          /\ seen[p] = Lifecycle!Unreported /\ running' = running /\ exit' = exit
      BY <2>0, <2>2 DEF StartFails, Unused, Agrees, TypeOK
    <3>2. [Lifecycle!Next]_seen
      BY <2>2, <3>1, ToldStep DEF StartFails, TypeOK, Codes
    <3>3. ASSUME NEW q \in Procs PROVE Agrees(q)'
      <4>1. CASE q # p
        BY <2>0, <2>2, <4>1 DEF StartFails, Told, Managed, Agrees, TypeOK
      <4>2. CASE q = p
        <5>1. seen'[p] = [running |-> running[p], finished |-> finished'[p], exit |-> exit'[p]]
          BY <2>2, <3>1 DEF StartFails, Told, TypeOK
        <5>2. running[p] = FALSE /\ stopping' # p
          BY <2>2, <3>1, ProcessAssumption DEF StartFails, StoreFree, TypeOK
        <5>3. seen'[p] = [running |-> FALSE, finished |-> finished'[p], exit |-> exit'[p]]
          BY <3>1, <5>1, <5>2
        <5>4. ~running'[p] /\ finished'[p] > 0 /\ watch'[p] = "done" /\ stopping' # p
          BY <2>2, <3>1, <5>2 DEF StartFails, TypeOK
        <5> QED
          BY <4>2, <5>3, <5>4 DEF Managed, Agrees
      <4> QED
        BY <4>1, <4>2
    <3> QED
      BY <3>2, <3>3 DEF LifecycleInv
  <2>3. ASSUME NEW p \in Procs, Read(p) \/ StopFinished(p)
        PROVE  LifecycleInv' /\ [Lifecycle!Next]_seen
    <3>1. /\ Managed(p) /\ StoreFree /\ Told(p)
          /\ UNCHANGED <<running, finished, exit, watch, exec, stopping>>
      BY <2>3 DEF Read, StopFinished
    <3>2. \/ seen[p] = Lifecycle!Running \/ seen[p] = seen'[p]
      BY <2>0, <3>1 DEF Told, Agrees, TypeOK
    <3>3. IF running[p] THEN finished[p] = 0 /\ exit[p] = "null" ELSE finished[p] > 0
      BY <2>0, <3>1 DEF Managed, Agrees
    <3>4. running[p] \in BOOLEAN /\ finished[p] \in Nat /\ exit[p] \in Codes
      BY DEF TypeOK
    <3>5. [Lifecycle!Next]_seen
      BY <3>1, <3>2, <3>3, <3>4, ToldStep DEF TypeOK
    <3>6. ASSUME NEW q \in Procs PROVE Agrees(q)'
      <4>1. CASE q # p
        BY <2>0, <3>1, <4>1 DEF Told, Managed, Agrees, TypeOK
      <4>2. CASE q = p
        <5>1. seen'[p] = [running |-> running[p], finished |-> finished[p], exit |-> exit[p]]
          BY <3>1 DEF Told, TypeOK
        <5>2. stopping # p
          BY <3>1, ProcessAssumption DEF StoreFree
        <5>3. \/ seen'[p] = Lifecycle!Running
              \/ /\ ~running[p]
                 /\ seen'[p] = [running |-> FALSE, finished |-> finished[p], exit |-> exit[p]]
          <6>1. CASE running[p] = TRUE
            <7>1. running[p]
              BY <6>1
            <7>2. finished[p] = 0 /\ exit[p] = "null"
              BY <3>3, <7>1
            <7>3. seen'[p] = [running |-> TRUE, finished |-> finished[p], exit |-> exit[p]]
              BY <5>1, <6>1
            <7> QED
              BY <7>2, <7>3
          <6>2. CASE running[p] = FALSE
            BY <5>1, <6>2
          <6> QED
            BY <3>4, <6>1, <6>2
        <5> QED
          BY <2>0, <3>1, <4>2, <5>2, <5>3 DEF Managed, Agrees
      <4> QED
        BY <4>1, <4>2
    <3> QED
      BY <3>5, <3>6 DEF LifecycleInv
  <2>4. ASSUME NEW p \in Procs, StopSignals(p) PROVE LifecycleInv' /\ [Lifecycle!Next]_seen
    <3>1. ASSUME NEW q \in Procs PROVE Agrees(q)'
      BY <2>0, <2>4, <3>1 DEF StopSignals, Managed, Agrees
    <3> QED
      BY <2>4, <3>1 DEF StopSignals, LifecycleInv
  <2>5. ASSUME NEW p \in Procs, StopRecords(p) PROVE LifecycleInv' /\ [Lifecycle!Next]_seen
    <3>1. Managed(p) /\ seen[p] = Lifecycle!Running
      BY <2>0, <2>5 DEF StopRecords, Agrees
    <3>2. /\ running'[p] = FALSE /\ finished'[p] = finished[p] + 1 /\ finished[p] \in Nat
          /\ exit' = exit /\ exit[p] \in Codes
      BY <2>5 DEF StopRecords, TypeOK
    <3>3. [Lifecycle!Next]_seen
      <4>1. ~running'[p] /\ running'[p] \in BOOLEAN
        BY <3>2
      <4>2. finished'[p] > 0 /\ finished'[p] \in Nat /\ exit'[p] \in Codes
        BY <3>2
      <4>3. Told(p)
        BY <2>5 DEF StopRecords
      <4> QED
        BY <3>1, <4>1, <4>2, <4>3, ToldStep DEF TypeOK
    <3>4. ASSUME NEW q \in Procs PROVE Agrees(q)'
      <4>1. CASE q # p
        BY <2>0, <2>5, <4>1, ProcessAssumption DEF StopRecords, Told, Managed, Agrees, TypeOK
      <4>2. CASE q = p
        <5>1. seen'[p] = [running |-> FALSE, finished |-> finished'[p], exit |-> exit'[p]]
          BY <2>5, <3>2 DEF StopRecords, Told, TypeOK
        <5> QED
          <6>1. ~running'[p] /\ finished'[p] > 0
            BY <3>2
          <6>2. stopping' # p /\ watch' = watch /\ exec' = exec
            BY <2>5, ProcessAssumption DEF StopRecords
          <6> QED
            BY <3>1, <4>2, <5>1, <6>1, <6>2 DEF Managed, Agrees
      <4> QED
        BY <4>1, <4>2
    <3> QED
      BY <3>3, <3>4 DEF LifecycleInv
  <2>6. ASSUME NEW p \in Procs, Exec(p) PROVE LifecycleInv' /\ [Lifecycle!Next]_seen
    <3>1. ASSUME NEW q \in Procs PROVE Agrees(q)'
      <4>1. CASE q # p
        BY <2>0, <2>6, <4>1 DEF Exec, Spawn, Managed, Agrees, TypeOK
      <4>2. CASE q = p
        <5>1. finished[p] = 0 /\ exit[p] = "null" /\ stopping # p
          BY <2>0, <2>6 DEF Exec, Unused, Managed, Agrees
        <5>2. running'[p] /\ exec'[p] /\ watch'[p] = "select"
          BY <2>6 DEF Exec, Spawn, TypeOK
        <5> QED
          BY <2>6, <4>2, <5>1, <5>2 DEF Exec, Managed, Agrees
      <4> QED
        BY <4>1, <4>2
    <3> QED
      BY <2>6, <3>1 DEF Exec, LifecycleInv
  <2>7. ASSUME NEW p \in Procs, ChildExits(p) \/ PipesClose(p)
        PROVE  LifecycleInv' /\ [Lifecycle!Next]_seen
    <3>1. ASSUME NEW q \in Procs PROVE Agrees(q)'
      BY <2>0, <2>7, <3>1 DEF ChildExits, PipesClose, Managed, Agrees
    <3> QED
      BY <2>7, <3>1 DEF ChildExits, PipesClose, LifecycleInv
  <2>8. ASSUME NEW p \in Procs, SeesExit(p) \/ SeesStop(p) \/ SeesTimeout(p)
        PROVE  LifecycleInv' /\ [Lifecycle!Next]_seen
    <3>1. /\ watch[p] = "select" /\ watch' = [watch EXCEPT ![p] = "capture"]
          /\ UNCHANGED <<running, finished, exit, exec, stopping, seen>>
      BY <2>8 DEF SeesExit, SeesStop, SeesTimeout, Gather
    <3>2. ASSUME NEW q \in Procs PROVE Agrees(q)'
      BY <2>0, <3>1, <3>2 DEF Managed, Agrees, TypeOK
    <3> QED
      BY <3>1, <3>2 DEF LifecycleInv
  <2>9. ASSUME NEW p \in Procs, Record(p) PROVE LifecycleInv' /\ [Lifecycle!Next]_seen
    <3>1. /\ watch[p] = "capture" /\ watch' = [watch EXCEPT ![p] = "done"]
          /\ UNCHANGED <<exec, stopping, seen>>
      BY <2>9 DEF Record, OutputDone
    <3>2. ASSUME NEW q \in Procs PROVE Agrees(q)'
      <4>1. CASE q # p
        <5>1. running'[q] = running[q] /\ finished'[q] = finished[q] /\ exit'[q] = exit[q]
          BY <2>9, <4>1 DEF Record, RecordUnlessStopped, TypeOK
        <5> QED
          BY <2>0, <3>1, <4>1, <5>1 DEF Managed, Agrees, TypeOK
      <4>2. CASE q = p /\ running[p]
        <5>1. seen[p] = Lifecycle!Running \/ exec[p]
          BY <2>0, <3>1, <4>2 DEF Managed, Agrees
        <5>2. running'[p] = FALSE /\ finished'[p] > 0
          BY <2>9, <4>2 DEF Record, RecordUnlessStopped, TypeOK
        <5> QED
          BY <2>0, <3>1, <4>2, <5>1, <5>2 DEF Managed, Agrees, TypeOK
      <4>3. CASE q = p /\ ~running[p]
        <5>1. UNCHANGED <<running, finished, exit>>
          BY <2>9, <4>3 DEF Record, RecordUnlessStopped
        <5> QED
          BY <2>0, <3>1, <4>3, <5>1 DEF Managed, Agrees, TypeOK
      <4> QED
        BY <4>1, <4>2, <4>3
    <3> QED
      BY <3>1, <3>2 DEF LifecycleInv
  <2>10. CASE UNCHANGED vars
    <3>1. ASSUME NEW q \in Procs PROVE Agrees(q)'
      BY <2>0, <2>10 DEF vars, Managed, Agrees
    <3> QED
      BY <2>10, <3>1 DEF vars, LifecycleInv
  <2> QED
    BY <2>1, <2>2, <2>3, <2>4, <2>5, <2>6, <2>7, <2>8, <2>9, <2>10 DEF Next
<1>4. QED
  BY <1>1, <1>2, <1>3, TypeCorrect, PTL DEF Spec, ImplementsLifecycle, Lifecycle!Spec

-----------------------------------------------------------------------------
\* McpSessions: the table and the times

\* A task holds expired sessions only while it closes them.
TodoWhileExpiring == \A t \in Tasks : todo[t] # {} => pc[t] = "expiring"

\* has_session drops the time of a session only when it is gone, and an id does not come back.
ForgetsTheGone ==
    \A t \in Tasks : pc[t] = "forget" /\ call[t] # "close" => id[t] \notin inner

\* A call about a session has its id.
Named == \A t \in Tasks : call[t] \in {"has", "use", "close"} => id[t] # Nil

SessionInv == SessionsTypeOK /\ SessionsKeepTimes /\ TodoWhileExpiring /\ ForgetsTheGone /\ Named

USE DEF Tasks, Times, tasks, InHand

LEMMA SessionInit == SessionsInit => SessionInv
  BY SessionsAssumption
     DEF SessionsInit, SessionInv, SessionsTypeOK, SessionsKeepTimes, TodoWhileExpiring, ForgetsTheGone, Named, Kinds

\* Beginning a call takes nothing in hand.
LEMMA BeginKeeps ==
    ASSUME SessionInv, NEW t \in Tasks, NEW s \in made \cup {Nil},
           NEW kind \in Kinds, kind \in {"has", "use", "close"} => s # Nil,
           Begin(t, kind, s)
    PROVE  SessionInv'
<1>1. SessionsTypeOK'
  BY DEF SessionInv, SessionsTypeOK, Begin, Kinds
<1>2. TodoWhileExpiring' /\ ForgetsTheGone' /\ Named'
  BY DEF SessionInv, TodoWhileExpiring, ForgetsTheGone, Named, SessionsTypeOK, Begin, Kinds
<1>3. \A u \in Tasks : InHand(u) \subseteq InHand(u)'
  BY DEF SessionInv, SessionsTypeOK, TodoWhileExpiring, Begin, Kinds
<1>4. SessionsKeepTimes'
  BY <1>3 DEF SessionInv, SessionsKeepTimes, Begin
<1> QED  BY <1>1, <1>2, <1>4 DEF SessionInv

\* What loses its time comes into the hand of the task.
LEMMA ExpireKeeps ==
    ASSUME SessionInv, NEW t \in Tasks, Expire(t)
    PROVE  SessionInv'
<1>1. SessionsTypeOK'
  BY SessionsAssumption DEF SessionInv, SessionsTypeOK, Expire, Stale
<1>2. TodoWhileExpiring' /\ ForgetsTheGone' /\ Named'
  BY DEF SessionInv, TodoWhileExpiring, ForgetsTheGone, Named, SessionsTypeOK, Expire, Stale
<1>3. SessionsKeepTimes'
  BY DEF SessionInv, SessionsKeepTimes, TodoWhileExpiring, ForgetsTheGone, SessionsTypeOK, Expire, Stale
<1> QED  BY <1>1, <1>2, <1>3 DEF SessionInv

\* What leaves the hand of the task leaves the table.
LEMMA CloseExpiredKeeps ==
    ASSUME SessionInv, NEW t \in Tasks, NEW s \in Sessions, CloseExpired(t, s)
    PROVE  SessionInv'
<1>1. SessionsTypeOK'
  BY SessionsAssumption DEF SessionInv, SessionsTypeOK, CloseExpired
<1>2. TodoWhileExpiring' /\ ForgetsTheGone' /\ Named'
  BY DEF SessionInv, TodoWhileExpiring, ForgetsTheGone, Named, SessionsTypeOK, CloseExpired
<1>3. SessionsKeepTimes'
  BY DEF SessionInv, SessionsKeepTimes, TodoWhileExpiring, ForgetsTheGone, SessionsTypeOK, CloseExpired
<1> QED  BY <1>1, <1>2, <1>3 DEF SessionInv

\* The new session is in hand until it has a time.
LEMMA CreateKeeps ==
    ASSUME SessionInv, NEW t \in Tasks, NEW s \in Sessions, Create(t, s)
    PROVE  SessionInv'
<1>1. SessionsTypeOK'
  BY SessionsAssumption DEF SessionInv, SessionsTypeOK, Create, Expired, Goto
<1>2. TodoWhileExpiring' /\ ForgetsTheGone' /\ Named'
  BY DEF SessionInv, TodoWhileExpiring, ForgetsTheGone, Named, SessionsTypeOK, Create, Expired, Goto
<1>3. SessionsKeepTimes'
  BY DEF SessionInv, SessionsKeepTimes, TodoWhileExpiring, ForgetsTheGone, SessionsTypeOK, Create, Expired, Goto
<1> QED  BY <1>1, <1>2, <1>3 DEF SessionInv

\* Nothing was made.
LEMMA CreateFailsKeeps ==
    ASSUME SessionInv, NEW t \in Tasks, CreateFails(t)
    PROVE  SessionInv'
<1>1. SessionsTypeOK'
  BY SessionsAssumption DEF SessionInv, SessionsTypeOK, CreateFails, Expired, Done, Kinds
<1>2. TodoWhileExpiring' /\ ForgetsTheGone' /\ Named'
  BY DEF SessionInv, TodoWhileExpiring, ForgetsTheGone, Named, SessionsTypeOK, CreateFails, Expired, Done, Kinds
<1>3. SessionsKeepTimes'
  BY DEF SessionInv, SessionsKeepTimes, TodoWhileExpiring, ForgetsTheGone, SessionsTypeOK, CreateFails, Expired, Done, Kinds
<1> QED  BY <1>1, <1>2, <1>3 DEF SessionInv

\* A call that looks for its session has nothing in hand.
LEMMA LookKeeps ==
    ASSUME SessionInv, NEW t \in Tasks, Look(t)
    PROVE  SessionInv'
<1>1. SessionsTypeOK'
  <2>1. id[t] # Nil
    BY DEF SessionInv, SessionsTypeOK, Look, Expired, Named
  <2>2. CASE id[t] \in inner \/ call[t] = "has"
    BY <2>1, <2>2 DEF SessionInv, SessionsTypeOK, Look, Goto, Done, Kinds
  <2>3. CASE id[t] \notin inner /\ call[t] # "has"
    BY <2>1, <2>3 DEF SessionInv, SessionsTypeOK, Look, Done, Kinds
  <2> QED  BY <2>2, <2>3
<1>2. TodoWhileExpiring' /\ ForgetsTheGone' /\ Named'
  BY DEF SessionInv, TodoWhileExpiring, ForgetsTheGone, Named, SessionsTypeOK, Look, Expired, Goto, Done, Kinds
<1>3. SessionsKeepTimes'
  BY DEF SessionInv, SessionsKeepTimes, TodoWhileExpiring, ForgetsTheGone, SessionsTypeOK, Look, Expired, Goto, Done, Kinds
<1> QED  BY <1>1, <1>2, <1>3 DEF SessionInv

\* The session in hand gets its time.
LEMMA TouchKeeps ==
    ASSUME SessionInv, NEW t \in Tasks, Touch(t)
    PROVE  SessionInv'
<1>1. SessionsTypeOK'
  BY SessionsAssumption DEF SessionInv, SessionsTypeOK, Touch, Done, Kinds
<1>2. TodoWhileExpiring' /\ ForgetsTheGone' /\ Named'
  BY DEF SessionInv, TodoWhileExpiring, ForgetsTheGone, Named, SessionsTypeOK, Touch, Done, Kinds
<1>3. SessionsKeepTimes'
  <2>1. ASSUME NEW s \in inner \ orphans PROVE lastUsed'[s] # Nil \/ \E u \in Tasks : s \in InHand(u)'
    <3>1. CASE s = id[t]
      BY <3>1, SessionsAssumption DEF SessionInv, SessionsTypeOK, Touch
    <3>2. CASE s # id[t] /\ lastUsed[s] # Nil
      BY <3>2 DEF SessionInv, SessionsTypeOK, Touch
    <3>3. CASE s # id[t] /\ lastUsed[s] = Nil
      <4>1. PICK u \in Tasks : s \in InHand(u)
        BY <3>3 DEF SessionInv, SessionsKeepTimes
      <4>2. u # t
        BY <3>3, <4>1 DEF SessionInv, TodoWhileExpiring, Touch
      <4> QED  BY <4>1, <4>2 DEF SessionInv, SessionsTypeOK, Touch, Done
    <3> QED  BY <3>1, <3>2, <3>3
  <2> QED  BY <2>1 DEF Touch, SessionsKeepTimes
<1> QED  BY <1>1, <1>2, <1>3 DEF SessionInv

\* The session that loses its time is gone, or is in hand to be dropped.
LEMMA ForgetKeeps ==
    ASSUME SessionInv, NEW t \in Tasks, Forget(t)
    PROVE  SessionInv'
<1>1. SessionsTypeOK'
  BY SessionsAssumption DEF SessionInv, SessionsTypeOK, Forget, Goto, Done, Kinds
<1>2. TodoWhileExpiring' /\ ForgetsTheGone' /\ Named'
  BY DEF SessionInv, TodoWhileExpiring, ForgetsTheGone, Named, SessionsTypeOK, Forget, Goto, Done, Kinds
<1>3. SessionsKeepTimes'
  BY DEF SessionInv, SessionsKeepTimes, TodoWhileExpiring, ForgetsTheGone, SessionsTypeOK, Forget, Goto, Done, Kinds
<1> QED  BY <1>1, <1>2, <1>3 DEF SessionInv

\* The session in hand is dropped.
LEMMA DropKeeps ==
    ASSUME SessionInv, NEW t \in Tasks, Drop(t)
    PROVE  SessionInv'
<1>1. SessionsTypeOK'
  BY SessionsAssumption DEF SessionInv, SessionsTypeOK, Drop, Done, Kinds
<1>2. TodoWhileExpiring' /\ ForgetsTheGone' /\ Named'
  BY DEF SessionInv, TodoWhileExpiring, ForgetsTheGone, Named, SessionsTypeOK, Drop, Done, Kinds
<1>3. SessionsKeepTimes'
  BY DEF SessionInv, SessionsKeepTimes, TodoWhileExpiring, ForgetsTheGone, SessionsTypeOK, Drop, Done, Kinds
<1> QED  BY <1>1, <1>2, <1>3 DEF SessionInv

\* What was in hand is an orphan.
LEMMA CancelKeeps ==
    ASSUME SessionInv, NEW t \in Tasks, Cancel(t)
    PROVE  SessionInv'
<1>1. SessionsTypeOK'
  BY SessionsAssumption DEF SessionInv, SessionsTypeOK, Cancel, Done, Kinds
<1>2. TodoWhileExpiring' /\ ForgetsTheGone' /\ Named'
  BY DEF SessionInv, TodoWhileExpiring, ForgetsTheGone, Named, SessionsTypeOK, Cancel, Done, Kinds
<1>3. SessionsKeepTimes'
  BY DEF SessionInv, SessionsKeepTimes, TodoWhileExpiring, ForgetsTheGone, SessionsTypeOK, Cancel, Done, Kinds
<1> QED  BY <1>1, <1>2, <1>3 DEF SessionInv

\* The task has closed all it had.
LEMMA CleanupDoneKeeps ==
    ASSUME SessionInv, Cleanup \in Tasks, CleanupDone
    PROVE  SessionInv'
<1>1. SessionsTypeOK'
  BY SessionsAssumption DEF SessionInv, SessionsTypeOK, CleanupDone, Expired, Done, Kinds
<1>2. TodoWhileExpiring' /\ ForgetsTheGone' /\ Named'
  BY DEF SessionInv, TodoWhileExpiring, ForgetsTheGone, Named, SessionsTypeOK, CleanupDone, Expired, Done, Kinds
<1>3. SessionsKeepTimes'
  BY DEF SessionInv, SessionsKeepTimes, TodoWhileExpiring, ForgetsTheGone, SessionsTypeOK, CleanupDone, Expired, Done, Kinds
<1> QED  BY <1>1, <1>2, <1>3 DEF SessionInv

\* Times grow, and none is lost.
LEMMA TickKeeps ==
    ASSUME SessionInv, Ttl \in Nat, Tick
    PROVE  SessionInv'
<1>1. SessionsTypeOK'
  BY SessionsAssumption DEF SessionInv, SessionsTypeOK, Tick, Older
<1>2. TodoWhileExpiring' /\ ForgetsTheGone' /\ Named'
  BY DEF SessionInv, TodoWhileExpiring, ForgetsTheGone, Named, SessionsTypeOK, Tick, Older
<1>3. SessionsKeepTimes'
  <2>1. \A s \in Sessions : lastUsed[s] # Nil => lastUsed'[s] # Nil
    BY SessionsAssumption DEF SessionInv, SessionsTypeOK, Tick, Older
  <2>2. \A u \in Tasks : InHand(u)' = InHand(u)
    BY DEF Tick
  <2> QED  BY <2>1, <2>2 DEF SessionInv, SessionsTypeOK, SessionsKeepTimes, Tick
<1> QED  BY <1>1, <1>2, <1>3 DEF SessionInv

-----------------------------------------------------------------------------

LEMMA StepKeeps ==
    ASSUME SessionInv, NEW t \in Tasks, Step(t)
    PROVE  SessionInv'
<1>1. CASE Expire(t)  BY <1>1, ExpireKeeps
<1>2. CASE \E s \in Sessions : CloseExpired(t, s)  BY <1>2, CloseExpiredKeeps
<1>3. CASE \E s \in Sessions : Create(t, s)  BY <1>3, CreateKeeps
<1>4. CASE CreateFails(t)  BY <1>4, CreateFailsKeeps
<1>5. CASE Look(t)  BY <1>5, LookKeeps
<1>6. CASE Touch(t)  BY <1>6, TouchKeeps
<1>7. CASE Forget(t)  BY <1>7, ForgetKeeps
<1>8. CASE Drop(t)  BY <1>8, DropKeeps
<1> QED  BY <1>1, <1>2, <1>3, <1>4, <1>5, <1>6, <1>7, <1>8 DEF Step

LEMMA SessionNext == SessionInv /\ [SessionsNext]_sessionVars => SessionInv'
<1> SUFFICES ASSUME SessionInv, [SessionsNext]_sessionVars PROVE SessionInv'
  OBVIOUS
<1> USE DEF Kinds
<1>1. ASSUME NEW t \in Calls, BeginCreate(t) PROVE SessionInv'
  BY <1>1, BeginKeeps DEF BeginCreate
<1>2. ASSUME NEW t \in Calls, NEW s \in Sessions, BeginHas(t, s) PROVE SessionInv'
  BY <1>2, BeginKeeps, SessionsAssumption DEF BeginHas
<1>3. ASSUME NEW t \in Calls, NEW s \in Sessions, BeginUse(t, s) PROVE SessionInv'
  BY <1>3, BeginKeeps, SessionsAssumption DEF BeginUse
<1>4. ASSUME NEW t \in Calls, NEW s \in Sessions, BeginClose(t, s) PROVE SessionInv'
  BY <1>4, BeginKeeps, SessionsAssumption DEF BeginClose
<1>5. ASSUME NEW t \in Calls, Step(t) \/ Cancel(t) PROVE SessionInv'
  BY <1>5, StepKeeps, CancelKeeps
<1>6. ASSUME BeginCleanup PROVE SessionInv'
  BY <1>6, BeginKeeps DEF BeginCleanup
<1>7. ASSUME Step(Cleanup) PROVE SessionInv'
  BY <1>7, StepKeeps
<1>8. ASSUME CleanupDone PROVE SessionInv'
  BY <1>8, CleanupDoneKeeps
<1>9. ASSUME Tick PROVE SessionInv'
  BY <1>9, TickKeeps, SessionsAssumption
<1>10. ASSUME UNCHANGED sessionVars PROVE SessionInv'
  BY <1>10 DEF sessionVars, SessionInv, SessionsTypeOK, SessionsKeepTimes, TodoWhileExpiring, ForgetsTheGone, Named
<1> QED
  BY <1>1, <1>2, <1>3, <1>4, <1>5, <1>6, <1>7, <1>8, <1>9, <1>10 DEF SessionsNext

THEOREM SessionInvariant == SessionsSpec => []SessionInv
  BY SessionInit, SessionNext, PTL DEF SessionsSpec

\* Every step of every call and of the cleanup keeps the types.
THEOREM SessionTypes == SessionsSpec => []SessionsTypeOK
  BY SessionInvariant, PTL DEF SessionInv

\* No session in rmcp's table is forgotten by the times (TtlSessionManager), however its calls,
\* expiries and closings overlap, but those whose call was cut short.
THEOREM NoSessionForgotten == SessionsSpec => []SessionsKeepTimes
  BY SessionInvariant, PTL DEF SessionInv

=============================================================================
