-------------------------- MODULE ProcessLifecycle --------------------------
(***************************************************************************)
(* What process_start, process_read and process_stop promise their callers *)
(* (src/process/managed.rs), whatever the watcher tasks do meanwhile: a    *)
(* process is first reported running, or finished when it could not be     *)
(* spawned; once a caller has been told its verdict (the finish time and   *)
(* the exit code), every later report repeats it.                          *)
(***************************************************************************)
EXTENDS Naturals

CONSTANTS Procs, Codes

VARIABLE report     \* what the last snapshot returned for each process said

Running     == [running |-> TRUE, finished |-> 0, exit |-> "null"]
Verdicts    == [running : {FALSE}, finished : Nat \ {0}, exit : Codes]
Unreported  == [running |-> FALSE, finished |-> 0, exit |-> "null"]

Init == report = [p \in Procs |-> Unreported]

\* The first report of a process: it runs, or it could not be spawned.
Started(p) ==
    /\ report[p] = Unreported
    /\ report'[p] \in Verdicts \cup {Running}
    /\ report' = [report EXCEPT ![p] = report'[p]]

\* A report that the process has ended.
Ended(p) ==
    /\ report[p] = Running
    /\ report'[p] \in Verdicts
    /\ report' = [report EXCEPT ![p] = report'[p]]

Next == \E p \in Procs : Started(p) \/ Ended(p)

Spec == Init /\ [][Next]_report
=============================================================================
