--------------------------- MODULE SqliteChanges ---------------------------
(***************************************************************************)
(* sqlite_preview_change and sqlite_confirm_change (src/sqlite/change/,    *)
(* src/server/sqlite_tools.rs) on a table that other programs write too.   *)
(*                                                                         *)
(* Both tools hold the mutex of the SqliteChangeStore throughout and never *)
(* await, so one of them runs at a time; only other programs get between   *)
(* its steps, and SQLite keeps them out of an immediate transaction.       *)
(* Several connections to one database, and several tables, add nothing to *)
(* this and are left out; so is sqlite_select, which only reads.           *)
(***************************************************************************)
EXTENDS SqliteRows

CONSTANTS
    Requests,           \* changes that may be previewed
    Begins,             \* tables the database may begin with
    OtherRows,          \* rows others write
    MaxChanges,         \* bound: changes previewed
    MaxForeign,         \* bound: rows written or deleted by others
    MayFail             \* whether SQLite may fail for reasons of its own

ASSUME SqliteAssumption ==
    /\ MaxChanges \in Nat /\ MaxForeign \in Nat /\ MayFail \in BOOLEAN
    /\ IsFiniteSet(RowIds)
    /\ Gone \notin Rows
    /\ Requests \subseteq Changes /\ Begins \subseteq Tables /\ OtherRows \subseteq Rows

VARIABLES
    db,                 \* the table as committed
    locked,             \* the confirmation's transaction has the write lock
    \* the SqliteChangeStore: changes waiting to be confirmed; a change is its action's number
    changes, made, change,
    \* the confirmation: its step, its change, the rows it picked, the table it will commit
    step, current, rowids, image,
    \* history: of each change the table and the rows its preview showed, and how it ended;
    \* how many rows others wrote
    base, shown, outcome, foreign

store   == <<changes, made, change>>
confirm == <<step, current, rowids, image>>
preview == <<base, shown>>
vars    == <<db, locked, store, confirm, preview, outcome, foreign>>

Ids == 1 .. MaxChanges

NoTable == [r \in RowIds |-> Gone]

Init ==
    /\ db \in Begins /\ locked = FALSE
    /\ changes = {} /\ made = 0 /\ change = [n \in Ids |-> <<>>]
    /\ step = "free" /\ current = 0 /\ rowids = {} /\ image = NoTable
    /\ base = [n \in Ids |-> NoTable] /\ shown = [n \in Ids |-> NoTable]
    /\ outcome = [n \in Ids |-> "none"] /\ foreign = 0

-----------------------------------------------------------------------------
\* sqlite_preview_change.  One that fails changes nothing.

PreviewChange(ch) ==
    /\ step = "free" /\ made < MaxChanges
    /\ \E S \in Selections(db, ch) :
           shown' = [shown EXCEPT ![made + 1] = Shown(db, ch, S)]
    /\ base' = [base EXCEPT ![made + 1] = db]
    /\ made' = made + 1 /\ change' = [change EXCEPT ![made + 1] = ch]
    /\ changes' = changes \cup {made + 1}
    /\ UNCHANGED <<db, locked, confirm, outcome, foreign>>

-----------------------------------------------------------------------------
\* sqlite_confirm_change

\* For mutation: the change stays in the store.
Peek(n) == UNCHANGED changes

\* take() comes first: whatever fails later, the action is gone.  An id that is not in the
\* store is an error and changes nothing.
Take(n) == changes' = changes \ {n}

Confirm(n) ==
    /\ step = "free" /\ n \in changes
    /\ Take(n)
    /\ step' = "taken" /\ current' = n
    /\ UNCHANGED <<db, locked, made, change, rowids, image, preview, outcome, foreign>>

Goto(s) == step' = s /\ UNCHANGED <<store, current, preview, outcome, foreign>>

\* For mutation: an error leaves the transaction open.
EndHolding(how) ==
    /\ step' = "free" /\ current' = 0 /\ rowids' = {} /\ image' = NoTable /\ UNCHANGED locked
    /\ outcome' = [outcome EXCEPT ![current] = how]
    /\ UNCHANGED <<store, preview, foreign>>

\* The call returns; dropping the transaction rolls back what was not committed.
End(how) ==
    /\ step' = "free" /\ current' = 0 /\ rowids' = {} /\ image' = NoTable /\ locked' = FALSE
    /\ outcome' = [outcome EXCEPT ![current] = how]
    /\ UNCHANGED <<store, preview, foreign>>

\* For mutation: the transaction takes no lock until it writes.
BeginDeferred == step = "taken" /\ Goto("begun") /\ UNCHANGED <<db, locked, rowids, image>>

BeginImmediate ==
    /\ step = "taken"
    /\ locked' = TRUE
    /\ Goto("begun") /\ UNCHANGED <<db, rowids, image>>

\* apply_change: the rows are picked anew, whatever the preview showed.
FetchTargets ==
    /\ step = "begun"
    /\ rowids' \in Selections(db, change[current])
    /\ Goto("picked") /\ UNCHANGED <<db, locked, image>>

VerifyExpected ==
    /\ step = "picked"
    /\ IF AsExpected(db, rowids, change[current])
       THEN Goto("verified") /\ UNCHANGED <<db, locked, rowids, image>>
       ELSE End("mismatch") /\ UNCHANGED db

Write ==
    /\ step = "verified"
    /\ IF Refused(db, change[current], rowids)
       THEN End("failed") /\ UNCHANGED db
       ELSE /\ image' \in Outcomes(db, change[current], rowids)
            /\ Goto("written") /\ UNCHANGED <<db, locked, rowids>>

Commit == step = "written" /\ db' = image /\ End("applied")

\* SQLite returns an error: others are busy for more than 5 seconds, a constraint does not
\* hold, there is no such table.
OperationFails == MayFail /\ step # "free" /\ End("failed") /\ UNCHANGED db

-----------------------------------------------------------------------------
\* Other programs write or delete a row.

Foreign ==
    /\ ~locked /\ foreign < MaxForeign
    /\ foreign' = foreign + 1
    /\ \E r \in RowIds, row \in OtherRows \cup {Gone} : db' = [db EXCEPT ![r] = row]
    /\ UNCHANGED <<locked, store, confirm, preview, outcome>>

Next ==
    \/ \E ch \in Requests : PreviewChange(ch)
    \/ \E n \in changes : Confirm(n)
    \/ BeginImmediate \/ FetchTargets \/ VerifyExpected \/ Write \/ Commit
    \/ OperationFails
    \/ Foreign

Spec == Init /\ [][Next]_vars

-----------------------------------------------------------------------------
\* Properties

Steps    == {"free", "taken", "begun", "picked", "verified", "written"}
Unlocked == {"free", "taken"}

\* Type correctness; there is a current change, and the lock, exactly while a confirmation
\* runs and its transaction is open.
TypeOK ==
    /\ db \in Tables /\ locked \in BOOLEAN
    /\ made \in 0 .. MaxChanges /\ changes \subseteq 1 .. made
    /\ change \in [Ids -> Changes \cup {<<>>}] /\ \A n \in 1 .. made : change[n] \in Changes
    /\ step \in Steps /\ current \in 0 .. made
    /\ rowids \subseteq RowIds /\ image \in Tables
    /\ base \in [Ids -> Tables]
    /\ outcome \in [Ids -> {"none", "applied", "mismatch", "failed"}]
    /\ foreign \in 0 .. MaxForeign
    /\ current = 0 <=> step = "free"
    /\ locked <=> step \notin Unlocked

\* Each change is committed at most once, and only after it was previewed and confirmed;
\* whatever goes wrong after the confirmation, it is over.
Phase == [n \in Ids |-> CASE n = current -> "applying"
                          [] n # current /\ n \in changes -> "pending"
                          [] n # current /\ n \notin changes ->
                               IF outcome[n] = "none" THEN "none" ELSE "over"]
Applied == [n \in Ids |-> IF outcome[n] = "applied" THEN 1 ELSE 0]
Actions == INSTANCE TwoPhase WITH Actions <- Ids, phase <- Phase, applied <- Applied
ImplementsTwoPhase == Actions!Spec

\* What a change does to the table: all of it at once, in a commit, and whatever others
\* wrote since the preview, to no other rows than it may.  An insert adds a row.  An update
\* or delete touches rows that match its conditions and are as expected in the very table
\* it is committed to, no more than its limit, and adds none.
Touched == {r \in Present(db) : db'[r] # db[r]}
Added   == Present(db') \ Present(db)

OnlyItsRows(ch) ==
    IF ch.type = "insert" THEN Touched = {} /\ \E r \in RowIds : Added = {r}
    ELSE /\ Added = {} /\ Cardinality(Touched) <= ch.limit
         /\ \A r \in Touched : /\ Meets(db[r], ch.where)
                               /\ \A e \in ch.expected : db[r][e.column] = e.value

CommitGuarded ==
    [][db' # db /\ foreign' = foreign =>
         /\ current \in Ids /\ outcome' = [outcome EXCEPT ![current] = "applied"]
         /\ OnlyItsRows(change[current])]_vars

CommittedAsShown(n) ==
    outcome'[n] = "applied" /\ outcome[n] # "applied" /\ db = base[n] => db' = shown[n]

\* The change picks the same rows whenever it is made of this table.
PicksAll(ch, table) ==
    ch # <<>> /\ ch.type # "insert" /\ Cardinality(Matching(table, ch.where)) <= ch.limit

\* It sets every column once, and paths only in cells that are objects.
SetsPlainly(ch, table) ==
    ch.type = "update" =>
        /\ \A i, j \in DOMAIN ch.set : ch.set[i].column = ch.set[j].column => i = j
        /\ \A i \in DOMAIN ch.set : \A r \in Matching(table, ch.where) :
              ch.set[i].field = Whole \/ IsKind(table[r][ch.set[i].column], "object")

\* A preview is borne out: when nobody wrote to the table since, a change that picks all
\* its rows and sets plainly makes of them what its preview showed.
PreviewBorneOut ==
    [][\A n \in Ids :
         PicksAll(change[n], base[n]) /\ SetsPlainly(change[n], base[n]) => CommittedAsShown(n)]_vars

\* sqlite_confirm_change will "Apply a pending SQLite change created by
\* sqlite_preview_change" (sqlite_tools.rs:130): the change as shown, when it picks all its
\* rows and nobody wrote to the table since.
PreviewIsApplied == [][\A n \in Ids : PicksAll(change[n], base[n]) => CommittedAsShown(n)]_vars
=============================================================================
