--------------------------- MODULE ManagedProcess ---------------------------
(***************************************************************************)
(* The child processes the server runs for its callers (src/process/):     *)
(* process_start, process_read and process_stop on the store of managed    *)
(* processes, each watched by a task of its own, and exec_process, which   *)
(* awaits its child itself.                                                *)
(*                                                                         *)
(* The store is behind a mutex that start, read and stop hold from end to  *)
(* end; a process's state is behind a second one, which stop takes twice   *)
(* (to look at `running` and to clear it), so the watcher may come in      *)
(* between.  A child's output ends when every holder of the pipe has       *)
(* closed it: descendants of the child keep it open and kill() reaches the *)
(* child alone.  finished_at is modelled by the number of times it was     *)
(* written: two writes are two times.  Entries are never removed.          *)
(***************************************************************************)
EXTENDS Naturals

CONSTANTS
    Procs,              \* processes that may be started
    MayLeaveChildren,   \* whether a child may leave descendants that hold its pipes
    None                \* no process

ASSUME ProcessAssumption == MayLeaveChildren \in BOOLEAN /\ None \notin Procs

VARIABLES
    \* ProcessState, and the stop sender of the entry
    running, finished, exit, timedOut, stopTx,
    \* the operating system: the child, its status, and who else holds its pipes
    child, code, held,
    \* the task that awaits the child, and what it will report
    watch, result,
    \* exec_process calls; the stop call that holds the store; the last snapshots returned
    exec, stopping, seen

state  == <<running, finished, exit, timedOut>>
system == <<child, code, held>>
vars == <<running, finished, exit, timedOut, stopTx, child, code, held, watch, result,
          exec, stopping, seen>>

Codes   == {"null", "code"}
Results == [exit : Codes, timedOut : BOOLEAN]

Init ==
    /\ running = [p \in Procs |-> FALSE]
    /\ finished = [p \in Procs |-> 0]
    /\ exit = [p \in Procs |-> "null"]
    /\ timedOut = [p \in Procs |-> FALSE]
    /\ stopTx = [p \in Procs |-> "none"]
    /\ child = [p \in Procs |-> "none"]
    /\ code = [p \in Procs |-> "null"]
    /\ held = [p \in Procs |-> FALSE]
    /\ watch = [p \in Procs |-> "none"]
    /\ result = [p \in Procs |-> [exit |-> "null", timedOut |-> FALSE]]
    /\ exec = [p \in Procs |-> FALSE]
    /\ stopping = None
    /\ seen = [p \in Procs |-> [running |-> FALSE, finished |-> 0, exit |-> "null"]]

-----------------------------------------------------------------------------
\* The store: start, read, stop

StoreFree == stopping = None

\* snapshot(entry) goes to the caller; what no property looks at is left out.
Told(p) ==
    seen' = [seen EXCEPT ![p] = [running |-> running'[p], finished |-> finished'[p],
                                 exit |-> exit'[p]]]

Unused(p) == watch[p] = "none" /\ child[p] = "none"

Spawn(p) ==
    /\ child' = [child EXCEPT ![p] = "alive"]
    /\ watch' = [watch EXCEPT ![p] = "select"]
    /\ running' = [running EXCEPT ![p] = TRUE]

Start(p) ==
    /\ StoreFree /\ Unused(p)
    /\ Spawn(p)
    /\ stopTx' = [stopTx EXCEPT ![p] = "held"]
    /\ UNCHANGED <<finished, exit, timedOut, code, held, result, exec, stopping>>
    /\ Told(p)

\* spawn() fails: finish_with_error, and an entry that cannot be stopped.
StartFails(p) ==
    /\ StoreFree /\ Unused(p)
    /\ watch' = [watch EXCEPT ![p] = "done"]
    /\ finished' = [finished EXCEPT ![p] = @ + 1]
    /\ UNCHANGED <<running, exit, timedOut, stopTx, system, result, exec, stopping>>
    /\ Told(p)

Managed(p) == watch[p] # "none" /\ ~exec[p]

Read(p) ==
    /\ StoreFree /\ Managed(p)
    /\ UNCHANGED <<state, stopTx, system, watch, result, exec, stopping>>
    /\ Told(p)

\* stop: the first look at the state.  A process that is not running is only reported.
StopFinished(p) ==
    /\ StoreFree /\ Managed(p) /\ ~running[p]
    /\ UNCHANGED <<state, stopTx, system, watch, result, exec, stopping>>
    /\ Told(p)

StopSignals(p) ==
    /\ StoreFree /\ Managed(p) /\ running[p]
    /\ stopTx' = [stopTx EXCEPT ![p] = "sent"]
    /\ stopping' = p
    /\ UNCHANGED <<state, system, watch, result, exec, seen>>

\* stop: the second, which writes the state whatever the watcher has written meanwhile.
StopRecords(p) ==
    /\ stopping = p
    /\ running' = [running EXCEPT ![p] = FALSE]
    /\ finished' = [finished EXCEPT ![p] = @ + 1]
    /\ stopping' = None
    /\ UNCHANGED <<exit, timedOut, stopTx, system, watch, result, exec>>
    /\ Told(p)

-----------------------------------------------------------------------------
\* exec_process: run_process awaits the child itself.  `running` is the call.

Exec(p) ==
    /\ Unused(p)
    /\ Spawn(p)
    /\ exec' = [exec EXCEPT ![p] = TRUE]
    /\ UNCHANGED <<finished, exit, timedOut, stopTx, code, held, result, stopping, seen>>

-----------------------------------------------------------------------------
\* The child

\* It exits, with a code or by a signal, and may leave descendants behind.
ChildExits(p) ==
    /\ child[p] = "alive"
    /\ child' = [child EXCEPT ![p] = "dead"]
    /\ \E s \in Codes, h \in {FALSE, MayLeaveChildren} :
         /\ code' = [code EXCEPT ![p] = s]
         /\ held' = [held EXCEPT ![p] = h]
    /\ UNCHANGED <<state, stopTx, watch, result, exec, stopping, seen>>

\* The last descendant that holds the pipes ends.
PipesClose(p) ==
    /\ held[p]
    /\ held' = [held EXCEPT ![p] = FALSE]
    /\ UNCHANGED <<state, stopTx, child, code, watch, result, exec, stopping, seen>>

-----------------------------------------------------------------------------
\* The watcher: select! over exit, stop and timeout, the output, the verdict

Gather(p, late) ==
    /\ result' = [result EXCEPT ![p] = [exit |-> code'[p], timedOut |-> late]]
    /\ watch' = [watch EXCEPT ![p] = "capture"]
    /\ UNCHANGED <<state, stopTx, exec, stopping, seen>>

ReapWithSignal(p) ==
    /\ child' = [child EXCEPT ![p] = "reaped"]
    /\ code' = [code EXCEPT ![p] = IF child[p] = "alive" THEN "signal" ELSE code[p]]
Reap(p) == child' = [child EXCEPT ![p] = "reaped"] /\ UNCHANGED code

\* child.kill(), child.wait(): a child that has already exited keeps its code, and one
\* that is killed has none.
KillForgotten(p) == UNCHANGED system
Kill(p) ==
    /\ Reap(p)
    /\ \/ child[p] = "dead" /\ UNCHANGED held
       \/ /\ child[p] = "alive"
          /\ \E h \in {FALSE, MayLeaveChildren} : held' = [held EXCEPT ![p] = h]

SeesExit(p) ==
    /\ watch[p] = "select" /\ child[p] = "dead"
    /\ Reap(p) /\ UNCHANGED held
    /\ Gather(p, FALSE)

SeesStop(p) ==
    /\ watch[p] = "select" /\ stopTx[p] = "sent"
    /\ Kill(p)
    /\ Gather(p, FALSE)

NeverTimesOut(p) == FALSE /\ UNCHANGED vars
SeesTimeout(p) ==
    /\ watch[p] = "select"
    /\ Kill(p)
    /\ Gather(p, TRUE)

\* The verdict is written once both output readers have come to an end, unless a stop
\* has written one before.
RecordAlways(p) ==
    /\ running' = [running EXCEPT ![p] = FALSE]
    /\ finished' = [finished EXCEPT ![p] = @ + 1]
    /\ exit' = [exit EXCEPT ![p] = result[p].exit]
RecordUnlessStopped(p) ==
    IF running[p]
    THEN /\ running' = [running EXCEPT ![p] = FALSE]
         /\ finished' = [finished EXCEPT ![p] = @ + 1]
         /\ exit' = [exit EXCEPT ![p] = result[p].exit]
    ELSE UNCHANGED <<running, finished, exit>>

OutputDoneAnyway(p) == watch[p] = "capture"
OutputDone(p) == watch[p] = "capture" /\ ~held[p]

Record(p) ==
    /\ OutputDone(p)
    /\ timedOut' = [timedOut EXCEPT ![p] = @ \/ result[p].timedOut]
    /\ RecordUnlessStopped(p)
    /\ watch' = [watch EXCEPT ![p] = "done"]
    /\ UNCHANGED <<stopTx, system, result, exec, stopping, seen>>

-----------------------------------------------------------------------------

Next ==
    \E p \in Procs :
        \/ Start(p) \/ StartFails(p) \/ Read(p)
        \/ StopFinished(p) \/ StopSignals(p) \/ StopRecords(p)
        \/ Exec(p) \/ ChildExits(p) \/ PipesClose(p)
        \/ SeesExit(p) \/ SeesStop(p) \/ SeesTimeout(p) \/ Record(p)

Spec == Init /\ [][Next]_vars

\* Fairness.  The runtime polls a watcher whose child exited, whose stop was sent or
\* whose timer elapsed, and whose readers have ended; a stop call runs to its end.  The
\* child owes nothing: it may run on, and its descendants may hold the pipes for ever.
Fairness ==
    \A p \in Procs :
        /\ WF_vars(SeesExit(p) \/ SeesStop(p) \/ SeesTimeout(p))
        /\ WF_vars(Record(p)) /\ WF_vars(StopRecords(p))

FairSpec == Spec /\ Fairness

-----------------------------------------------------------------------------
\* Properties

TypeOK ==
    /\ running \in [Procs -> BOOLEAN] /\ finished \in [Procs -> Nat]
    /\ exit \in [Procs -> Codes] /\ timedOut \in [Procs -> BOOLEAN]
    /\ stopTx \in [Procs -> {"none", "held", "sent"}]
    /\ child \in [Procs -> {"none", "alive", "dead", "reaped"}]
    /\ code \in [Procs -> Codes] /\ held \in [Procs -> BOOLEAN]
    /\ watch \in [Procs -> {"none", "select", "capture", "done"}]
    /\ result \in [Procs -> Results] /\ exec \in [Procs -> BOOLEAN]
    /\ stopping \in Procs \cup {None}
    /\ seen \in [Procs -> [running : BOOLEAN, finished : Nat, exit : Codes]]

\* The store implements the life cycle its callers see: although stop lets go of the
\* state between its two looks, and the watcher writes the same fields, no two reports
\* of a finished process differ in finish time or exit code.
Lifecycle == INSTANCE ProcessLifecycle WITH report <- seen
ImplementsLifecycle == Lifecycle!Spec

\* An exit code or a timeout is published only when the child is gone and its output is
\* complete, and the exit code is the child's own.
VerdictAfterOutput ==
    \A p \in Procs : exit[p] # "null" \/ timedOut[p] =>
        child[p] = "reaped" /\ ~held[p] /\ exit[p] \in {"null", code[p]}

\* A child is never left behind: once its process is no longer reported running (stop
\* says so before the kill) it is killed and reaped.
FinishedProcessDies ==
    \A p \in Procs : child[p] # "none" /\ ~running[p] ~> child[p] = "reaped"

\* The time limit ends every process and every exec_process call, unless a descendant of
\* the child keeps its output open: the limit is on the wait for the child alone, so "Resource
\* caps: [...] process lifetimes [...] are bounded" (README.md 157-158) is true up to that.
FinishesUnlessHeld == \A p \in Procs : running[p] ~> ~running[p] \/ held[p]
=============================================================================
