------------------------ MODULE SqliteChangesProofs ------------------------
(***************************************************************************)
(* SqliteChanges, for any tables, changes and failures: type correctness,  *)
(* what a commit does to the table, that it implements TwoPhase, and that  *)
(* a confirmed change does what its preview showed (ShownIsUpdated: one    *)
(* assignment after the other, or all at once on the row as it was).       *)
(***************************************************************************)
EXTENDS SqliteChanges, FoldLemmas, FiniteSetTheorems, TLAPS

-----------------------------------------------------------------------------
\* The invariants

\* What the steps of a confirmation have found out stays true while it has the lock: the
\* rows it picked match, they are as expected, and the image is the change of this table.
PickedStep   == {"picked", "verified", "written"}
VerifiedStep == {"verified", "written"}
LockedInv ==
    /\ step \in PickedStep => rowids \in Selections(db, change[current])
    /\ step \in VerifiedStep => AsExpected(db, rowids, change[current])
    /\ step = "written" => image \in Outcomes(db, change[current], rowids)

\* What is in the store, confirmed or still to come has not ended yet.
StoreInv ==
    /\ \A n \in changes : outcome[n] = "none" /\ n # current
    /\ current # 0 => outcome[current] = "none"
    /\ \A n \in Ids : n > made => outcome[n] = "none"

SqliteInv == TypeOK /\ LockedInv /\ StoreInv

-----------------------------------------------------------------------------
\* The rows and what is made of them

LEMMA PutTyped ==
    ASSUME NEW cell \in Cells, NEW a \in Assignments
    PROVE  SetCell(cell, a) \in Cells
<1>1. a.value \in Cells
  BY DEF Assignments, Cells
<1>2. ASSUME a.field # Whole, IsKind(cell, "object")
      PROVE  Put(cell, a) \in Cells
  <2>1. cell \in [object : [Fields -> Scalars \cup {Absent}]]
    BY <1>2 DEF IsKind, Cells, Scalars
  <2>2. a.field \in Fields /\ a.value \in Scalars
    BY <1>2 DEF Assignments
  <2>3. [cell.object EXCEPT ![a.field] = a.value] \in [Fields -> Scalars \cup {Absent}]
    BY <2>1, <2>2
  <2> QED
    BY <2>3 DEF Put, Object, Cells
<1> QED
  BY <1>1, <1>2 DEF SetCell

LEMMA UpdatedTyped ==
    ASSUME NEW row \in Rows, NEW set \in Seq(Assignments)
    PROVE  Updated(row, set) \in Rows
<1> SUFFICES ASSUME NEW c \in Columns
             PROVE  (IF \E i \in Effective(set) : set[i].column = c
                     THEN SetCell(row[c], set[CHOOSE i \in Effective(set) : set[i].column = c])
                     ELSE row[c]) \in Cells
  BY DEF Updated, Rows
<1>1. row[c] \in Cells
  BY DEF Rows
<1>2. ASSUME \E i \in Effective(set) : set[i].column = c
      PROVE  set[CHOOSE i \in Effective(set) : set[i].column = c] \in Assignments
  <2>1. (CHOOSE i \in Effective(set) : set[i].column = c) \in DOMAIN set
    BY <1>2 DEF Effective
  <2> QED
    BY <2>1
<1> QED
  BY <1>1, <1>2, PutTyped

LEMMA SelectionsTyped ==
    ASSUME NEW table \in Tables, NEW ch \in Changes, NEW S \in Selections(table, ch)
    PROVE  S \subseteq Present(table)
BY DEF Selections, Matching

LEMMA OutcomesTyped ==
    ASSUME NEW table \in Tables, NEW ch \in Changes, NEW S \in SUBSET RowIds,
           NEW out \in Outcomes(table, ch, S)
    PROVE  out \in Tables
<1>1. CASE ch.type = "insert"
  <2>1. ch.values \in Rows
    BY <1>1 DEF Changes, Rows, Cells
  <2>2. PICK r \in RowIds : out = [table EXCEPT ![r] = ch.values]
    BY <1>1 DEF Outcomes
  <2> QED
    BY <2>1, <2>2 DEF Tables
<1>2. CASE ch.type = "update"
  <2>1. ch.set \in Seq(Assignments)
    BY <1>2 DEF Changes
  <2>2. out = [r \in RowIds |->
                   IF r \in S \cap Present(table) THEN Updated(table[r], ch.set) ELSE table[r]]
    BY <1>2 DEF Outcomes
  <2>3. ASSUME NEW r \in S \cap Present(table) PROVE Updated(table[r], ch.set) \in Rows
    BY <2>1, UpdatedTyped DEF Present, Tables
  <2> QED
    BY <2>2, <2>3 DEF Tables
<1>3. CASE ch.type = "delete"
  BY <1>3 DEF Outcomes, Tables
<1> QED
  BY <1>1, <1>2, <1>3 DEF Changes

-----------------------------------------------------------------------------
\* The invariant is inductive.

LEMMA InitInv == Init => SqliteInv
<1> SUFFICES ASSUME Init PROVE SqliteInv
  OBVIOUS
<1>1. db \in Tables /\ NoTable \in Tables
  BY SqliteAssumption DEF Init, NoTable, Tables
<1>2. TypeOK
  <2>1. base \in [Ids -> Tables]
    BY <1>1 DEF Init
  <2>2. change \in [Ids -> Changes \cup {<<>>}] /\ \A n \in 1 .. made : change[n] \in Changes
    BY DEF Init
  <2>3. outcome \in [Ids -> {"none", "applied", "mismatch", "failed"}]
    BY DEF Init
  <2>4. made \in 0 .. MaxChanges /\ changes \subseteq 1 .. made /\ foreign \in 0 .. MaxForeign
    BY SqliteAssumption DEF Init
  <2>5. /\ step \in Steps /\ current \in 0 .. made /\ rowids \subseteq RowIds
        /\ (current = 0 <=> step = "free")
    BY DEF Init, Steps
  <2>6. locked \in BOOLEAN /\ (locked <=> step \notin Unlocked)
    BY DEF Init, Unlocked
  <2>7. image \in Tables
    BY <1>1 DEF Init
  <2> QED
    BY <1>1, <2>1, <2>2, <2>3, <2>4, <2>5, <2>6, <2>7 DEF TypeOK
<1>3. LockedInv
  BY DEF Init, LockedInv, PickedStep, VerifiedStep
<1>4. StoreInv
  BY DEF Init, StoreInv
<1> QED
  BY <1>2, <1>3, <1>4 DEF SqliteInv

LEMMA PreviewInv ==
    ASSUME SqliteInv, NEW ch \in Requests, PreviewChange(ch)
    PROVE  SqliteInv'
<1> USE DEF SqliteInv, PreviewChange, confirm
<1>1. ch \in Changes /\ made \in Nat /\ made + 1 \in Ids
  BY SqliteAssumption DEF TypeOK, Ids
<1>2. TypeOK'
  BY <1>1, SqliteAssumption DEF TypeOK, Ids, Steps, Unlocked
<1>3. LockedInv'
  BY DEF LockedInv, PickedStep, VerifiedStep
<1>4. StoreInv'
  BY <1>1, SqliteAssumption DEF StoreInv, TypeOK, Ids
<1> QED
  BY <1>2, <1>3, <1>4

LEMMA ConfirmInv ==
    ASSUME SqliteInv, NEW n \in changes, Confirm(n)
    PROVE  SqliteInv'
<1> USE DEF SqliteInv, Confirm, Take, preview
<1>1. TypeOK'
  BY SqliteAssumption DEF TypeOK, Ids, Steps, Unlocked
<1>2. LockedInv'
  BY DEF LockedInv, PickedStep, VerifiedStep
<1>3. StoreInv'
  BY SqliteAssumption DEF StoreInv, TypeOK, Ids
<1> QED
  BY <1>1, <1>2, <1>3

\* The call goes on, and the store is left alone.
LEMMA GotoInv ==
    ASSUME SqliteInv, NEW s \in Steps \ {"free"}, step # "free", Goto(s), db' = db,
           locked' = (s \notin Unlocked), rowids' \subseteq RowIds, image' \in Tables
    PROVE  TypeOK' /\ StoreInv'
<1> USE DEF SqliteInv, Goto, store, preview
<1>1. TypeOK'
  <2>1. s # "free" /\ s \in Steps /\ current' = current /\ current # 0
    BY DEF TypeOK
  <2>2. locked' \in BOOLEAN /\ (locked' <=> step' \notin Unlocked)
    BY DEF Unlocked
  <2>3. (current' = 0 <=> step' = "free") /\ step' \in Steps
    BY <2>1
  <2>4. /\ db' \in Tables /\ made' \in 0 .. MaxChanges /\ changes' \subseteq 1 .. made'
        /\ change' \in [Ids -> Changes \cup {<<>>}] /\ \A n \in 1 .. made' : change'[n] \in Changes
    BY DEF TypeOK
  <2>5. /\ current' \in 0 .. made' /\ base' \in [Ids -> Tables]
        /\ outcome' \in [Ids -> {"none", "applied", "mismatch", "failed"}]
        /\ foreign' \in 0 .. MaxForeign
    BY <2>1 DEF TypeOK
  <2> QED
    BY <2>2, <2>3, <2>4, <2>5 DEF TypeOK
<1>2. StoreInv'
  BY DEF StoreInv, Ids
<1> QED
  BY <1>1, <1>2

\* The call ends.
LEMMA EndInv ==
    ASSUME SqliteInv, NEW how \in {"applied", "mismatch", "failed"}, step # "free", End(how),
           db' \in Tables
    PROVE  SqliteInv'
<1> USE DEF SqliteInv, End, store, preview
<1>1. TypeOK'
  <2>1. image' \in Tables
    BY DEF NoTable, Tables
  <2>2. outcome' \in [Ids -> {"none", "applied", "mismatch", "failed"}]
    BY DEF TypeOK
  <2>3. /\ step' \in Steps /\ current' \in 0 .. made' /\ rowids' \subseteq RowIds
        /\ (current' = 0 <=> step' = "free")
    BY SqliteAssumption DEF TypeOK, Steps
  <2>4. locked' \in BOOLEAN /\ (locked' <=> step' \notin Unlocked)
    BY DEF Unlocked
  <2>5. /\ made' \in 0 .. MaxChanges /\ changes' \subseteq 1 .. made'
        /\ change' \in [Ids -> Changes \cup {<<>>}] /\ \A n \in 1 .. made' : change'[n] \in Changes
        /\ base' \in [Ids -> Tables] /\ foreign' \in 0 .. MaxForeign
    BY DEF TypeOK
  <2> QED
    BY <2>1, <2>2, <2>3, <2>4, <2>5 DEF TypeOK
<1>2. LockedInv'
  BY DEF LockedInv, PickedStep, VerifiedStep
<1>3. StoreInv'
  BY SqliteAssumption DEF StoreInv, TypeOK, Ids
<1> QED
  BY <1>1, <1>2, <1>3

LEMMA CurrentChange ==
    ASSUME TypeOK, step # "free"
    PROVE  current \in Ids /\ change[current] \in Changes
BY SqliteAssumption DEF TypeOK, Ids

LEMMA PickedPresent ==
    ASSUME SqliteInv, step \in PickedStep
    PROVE  rowids \subseteq Present(db)
BY SelectionsTyped, CurrentChange DEF SqliteInv, LockedInv, TypeOK, PickedStep

LEMMA WriteInv == SqliteInv /\ Write => SqliteInv'
<1> SUFFICES ASSUME SqliteInv, Write PROVE SqliteInv'
  OBVIOUS
<1>1. change[current] \in Changes /\ rowids \in SUBSET RowIds /\ db \in Tables
  BY CurrentChange DEF Write, SqliteInv, TypeOK
<1>2. CASE Refused(db, change[current], rowids)
  BY <1>2, EndInv DEF Write, SqliteInv, TypeOK
<1>3. CASE ~Refused(db, change[current], rowids)
  <2>1. image' \in Outcomes(db, change[current], rowids)
    BY <1>3 DEF Write
  <2>2. image' \in Tables
    BY <1>1, <2>1, OutcomesTyped
  <2>3. TypeOK' /\ StoreInv'
    BY <1>3, <2>2, GotoInv DEF Write, Steps, Unlocked, SqliteInv, TypeOK
  <2>4. LockedInv'
    BY <1>3, <2>1 DEF Write, Goto, store, SqliteInv, LockedInv, PickedStep, VerifiedStep
  <2> QED
    BY <2>3, <2>4 DEF SqliteInv
<1> QED
  BY <1>2, <1>3

LEMMA NextInv == SqliteInv /\ [Next]_vars => SqliteInv'
<1> SUFFICES ASSUME SqliteInv, [Next]_vars PROVE SqliteInv'
  OBVIOUS
<1>1. ASSUME NEW ch \in Requests, PreviewChange(ch) PROVE SqliteInv'
  BY <1>1, PreviewInv
<1>2. ASSUME NEW n \in changes, Confirm(n) PROVE SqliteInv'
  BY <1>2, ConfirmInv
<1>3. CASE BeginImmediate
  <2>1. TypeOK' /\ StoreInv'
    BY <1>3, GotoInv DEF BeginImmediate, Steps, Unlocked, SqliteInv, TypeOK
  <2>2. LockedInv'
    BY <1>3 DEF BeginImmediate, Goto, SqliteInv, LockedInv, PickedStep, VerifiedStep
  <2> QED
    BY <2>1, <2>2 DEF SqliteInv
<1>4. CASE FetchTargets
  <2>1. change[current] \in Changes /\ db \in Tables
    BY <1>4, CurrentChange DEF FetchTargets, SqliteInv, TypeOK
  <2>2. rowids' \in Selections(db, change[current]) /\ rowids' \subseteq RowIds
    BY <1>4, <2>1, SelectionsTyped DEF FetchTargets, Present
  <2>3. TypeOK' /\ StoreInv'
    BY <1>4, <2>2, GotoInv DEF FetchTargets, Steps, Unlocked, SqliteInv, TypeOK
  <2>4. LockedInv'
    BY <1>4, <2>2 DEF FetchTargets, Goto, store, SqliteInv, LockedInv, PickedStep, VerifiedStep
  <2> QED
    BY <2>3, <2>4 DEF SqliteInv
<1>5. CASE VerifyExpected
  <2>1. CASE AsExpected(db, rowids, change[current])
    <3>1. TypeOK' /\ StoreInv'
      BY <1>5, <2>1, GotoInv DEF VerifyExpected, Steps, Unlocked, SqliteInv, TypeOK
    <3>2. LockedInv'
      BY <1>5, <2>1 DEF VerifyExpected, Goto, store, SqliteInv, LockedInv, PickedStep, VerifiedStep
    <3> QED
      BY <3>1, <3>2 DEF SqliteInv
  <2>2. CASE ~AsExpected(db, rowids, change[current])
    BY <1>5, <2>2, EndInv DEF VerifyExpected, SqliteInv, TypeOK
  <2> QED
    BY <2>1, <2>2
<1>6. CASE Write
  BY <1>6, WriteInv
<1>7. CASE Commit
  BY <1>7, EndInv DEF Commit, SqliteInv, TypeOK
<1>8. CASE OperationFails
  BY <1>8, EndInv DEF OperationFails, SqliteInv, TypeOK
<1>9. CASE Foreign
  <2> USE <1>9 DEF Foreign, SqliteInv, store, confirm, preview
  <2>1. db' \in Tables
    BY SqliteAssumption DEF TypeOK, Tables
  <2>2. TypeOK'
    BY <2>1, SqliteAssumption DEF TypeOK, Ids, Steps, Unlocked
  <2>3. LockedInv'
    BY DEF LockedInv, TypeOK, Unlocked, PickedStep, VerifiedStep, Steps
  <2>4. StoreInv'
    BY DEF StoreInv, Ids
  <2> QED
    BY <2>2, <2>3, <2>4
<1>10. CASE UNCHANGED vars
  BY <1>10 DEF vars, store, confirm, preview, SqliteInv, TypeOK, LockedInv, StoreInv
<1> QED
  BY <1>1, <1>2, <1>3, <1>4, <1>5, <1>6, <1>7, <1>8, <1>9, <1>10 DEF Next

LEMMA InvHolds == Spec => []SqliteInv
<1> QED
  BY InitInv, NextInv, PTL DEF Spec

\* The store, the confirmation and its transaction are well typed in every reachable state,
\* whatever others do to the table: the rows that are updated are there.
THEOREM TypeCorrect == Spec => []TypeOK
<1>1. SqliteInv => TypeOK
  BY DEF SqliteInv
<1> QED
  BY <1>1, InvHolds, PTL

-----------------------------------------------------------------------------
\* What a commit does

LEMMA CommitTouches ==
    ASSUME SqliteInv, Commit
    PROVE  OnlyItsRows(change[current])
<1> DEFINE ch == change[current]
<1>1. /\ ch \in Changes /\ db \in Tables /\ rowids \in Selections(db, ch)
      /\ rowids \subseteq Present(db) /\ AsExpected(db, rowids, ch)
      /\ db' \in Outcomes(db, ch, rowids) /\ IsFiniteSet(RowIds)
  BY CurrentChange, PickedPresent, SqliteAssumption
  DEF Commit, SqliteInv, LockedInv, TypeOK, PickedStep, VerifiedStep
<1> HIDE DEF ch
<1>2. CASE ch.type = "insert"
  <2>1. ch.values \in Rows
    BY <1>1, <1>2 DEF Changes, Rows, Cells
  <2>2. PICK r \in RowIds \ Present(db) : db' = [db EXCEPT ![r] = ch.values]
    BY <1>1, <1>2 DEF Outcomes
  <2>3. Touched = {} /\ Added = {r}
    BY <1>1, <2>1, <2>2, SqliteAssumption DEF Touched, Added, Present, Tables
  <2> QED
    BY <1>2, <2>3 DEF OnlyItsRows, ch
<1>3. CASE ch.type # "insert"
  <2>1. /\ Touched \subseteq rowids /\ Added = {}
    BY <1>1, <1>3 DEF Outcomes, Touched, Added, Present, Tables, Changes
  <2>2. Cardinality(Touched) <= ch.limit
    <3>1. ch.limit \in Nat
      <4>1. ch.limit \in 1 .. 100
        BY <1>1, <1>3 DEF Changes
      <4> QED
        BY <4>1
    <3>2. IsFiniteSet(rowids) /\ IsFiniteSet(Matching(db, ch.where))
      BY <1>1, FS_Subset DEF Present, Matching
    <3>3. Cardinality(rowids) <= ch.limit
      BY <1>1, <1>3, <3>1, <3>2, FS_CardinalityType DEF Selections, Limit
    <3>4. Cardinality(Touched) \in Nat /\ Cardinality(Touched) <= Cardinality(rowids)
      BY <2>1, <3>2, FS_Subset, FS_CardinalityType
    <3>5. Cardinality(rowids) \in Nat
      BY <3>2, FS_CardinalityType
    <3> QED
      BY <3>1, <3>3, <3>4, <3>5
  <2>3. ASSUME NEW r \in Touched
        PROVE  Meets(db[r], ch.where) /\ \A e \in ch.expected : db[r][e.column] = e.value
    BY <1>1, <1>3, <2>1, <2>3 DEF Selections, Matching, AsExpected
  <2> QED
    BY <1>3, <2>1, <2>2, <2>3 DEF OnlyItsRows, ch
<1> QED
  BY <1>2, <1>3

\* The server changes the table in a commit only, and there only rows it may: those that
\* match the change and are as expected in the table as it is then, within the limit, or one
\* new row; whatever others wrote between preview and confirmation.
THEOREM CommitsAreGuarded == Spec => CommitGuarded
<1>1. SqliteInv /\ [Next]_vars =>
        [db' # db /\ foreign' = foreign =>
           /\ current \in Ids /\ outcome' = [outcome EXCEPT ![current] = "applied"]
           /\ OnlyItsRows(change[current])]_vars
  <2> SUFFICES ASSUME SqliteInv, [Next]_vars, db' # db, foreign' = foreign
               PROVE  /\ current \in Ids /\ outcome' = [outcome EXCEPT ![current] = "applied"]
                      /\ OnlyItsRows(change[current])
    OBVIOUS
  <2>1. ~Foreign
    BY DEF Foreign, SqliteInv, TypeOK
  <2>2. Commit
    BY <2>1 DEF Next, PreviewChange, Confirm, BeginImmediate, FetchTargets, VerifyExpected,
       Write, OperationFails, vars
  <2> QED
    BY <2>2, CommitTouches, CurrentChange DEF Commit, End, SqliteInv
<1> QED
  BY <1>1, InvHolds, PTL DEF Spec, CommitGuarded

-----------------------------------------------------------------------------
\* SqliteChanges implements TwoPhase.

Phases == {"none", "pending", "applying", "over"}

LEMMA PhaseFunction == Phase \in [Ids -> Phases] /\ Phase' \in [Ids -> Phases]
BY DEF Phase, Phases

\* What the moves of one change n do to the phases
LEMMA PhasePending ==
    ASSUME NEW n \in Ids, n # current, changes' = changes \cup {n}, current' = current,
           outcome' = outcome
    PROVE  Phase' = [Phase EXCEPT ![n] = "pending"]
<1>1. ASSUME NEW m \in Ids PROVE Phase'[m] = IF m = n THEN "pending" ELSE Phase[m]
  BY DEF Phase
<1> QED
  BY <1>1, PhaseFunction

LEMMA PhaseApplying ==
    ASSUME NEW n \in Ids, current \notin Ids, changes' = changes \ {n}, current' = n,
           outcome' = outcome
    PROVE  Phase' = [Phase EXCEPT ![n] = "applying"]
<1>1. ASSUME NEW m \in Ids PROVE Phase'[m] = IF m = n THEN "applying" ELSE Phase[m]
  BY DEF Phase
<1> QED
  BY <1>1, PhaseFunction

LEMMA PhaseOver ==
    ASSUME NEW n \in Ids, n = current, n \notin changes, changes' = changes, current' \notin Ids,
           NEW how \in {"applied", "mismatch", "failed"},
           DOMAIN outcome = Ids, outcome' = [outcome EXCEPT ![n] = how]
    PROVE  Phase' = [Phase EXCEPT ![n] = "over"]
<1>1. ASSUME NEW m \in Ids PROVE Phase'[m] = IF m = n THEN "over" ELSE Phase[m]
  BY DEF Phase
<1> QED
  BY <1>1, PhaseFunction

LEMMA StepImplements ==
    ASSUME SqliteInv, SqliteInv', Next
    PROVE  Actions!Next \/ UNCHANGED <<Phase, Applied>>
<1> USE DEF Actions!Move
<1>0. 0 \notin Ids
  BY SqliteAssumption DEF Ids
<1>1. ASSUME NEW ch \in Requests, PreviewChange(ch)
      PROVE  Actions!Next
  <2>1. made + 1 \in Ids /\ made + 1 \notin changes /\ current = 0
    BY <1>1, SqliteAssumption DEF PreviewChange, SqliteInv, TypeOK, Ids
  <2>2. Phase' = [Phase EXCEPT ![made + 1] = "pending"]
    <3>1. changes' = changes \cup {made + 1} /\ current' = current /\ outcome' = outcome
      BY <1>1 DEF PreviewChange, confirm
    <3>2. made + 1 # current
      BY <2>1 DEF Ids
    <3> QED
      BY <2>1, <3>1, <3>2, PhasePending
  <2>3. Phase[made + 1] = "none"
    BY <1>1, <2>1 DEF SqliteInv, StoreInv, TypeOK, Ids, Phase
  <2>4. Applied' = Applied
    BY <1>1 DEF PreviewChange, Applied
  <2> QED
    BY <2>1, <2>2, <2>3, <2>4 DEF Actions!Next, Actions!Offer
<1>2. ASSUME NEW n \in changes, Confirm(n)
      PROVE  Actions!Next
  <2>1. n \in Ids /\ current = 0 /\ Phase[n] = "pending"
    BY <1>2, SqliteAssumption DEF Confirm, SqliteInv, TypeOK, Ids, Phase
  <2>2. Phase' = [Phase EXCEPT ![n] = "applying"]
    <3>1. changes' = changes \ {n} /\ current' = n /\ outcome' = outcome
      BY <1>2 DEF Confirm, Take
    <3> QED
      BY <2>1, <1>0, <3>1, PhaseApplying
  <2>3. Applied' = Applied
    BY <1>2 DEF Confirm, Applied
  <2> QED
    BY <2>1, <2>2, <2>3 DEF Actions!Next, Actions!Begin
<1>3. ASSUME NEW how \in {"applied", "mismatch", "failed"}, step # "free", End(how)
      PROVE  Actions!Next
  <2>1. /\ current \in Ids /\ current # 0 /\ current \notin changes
        /\ outcome[current] = "none" /\ Phase[current] = "applying"
    BY <1>3, CurrentChange DEF SqliteInv, TypeOK, StoreInv, Phase
  <2>2. Phase' = [Phase EXCEPT ![current] = "over"]
    <3>1. changes' = changes /\ current' = 0 /\ outcome' = [outcome EXCEPT ![current] = how]
      BY <1>3 DEF End, store
    <3>2. outcome \in [Ids -> {"none", "applied", "mismatch", "failed"}]
      BY DEF SqliteInv, TypeOK
    <3> QED
      BY <2>1, <1>0, <3>1, <3>2, PhaseOver
  <2>3. CASE how = "applied"
    <3>1. outcome' = [outcome EXCEPT ![current] = "applied"]
      BY <1>3, <2>3 DEF End
    <3>2. DOMAIN outcome = Ids
      BY DEF SqliteInv, TypeOK
    <3>3. Applied[current] = 0
      BY <2>1 DEF Applied
    <3>4. Applied \in [Ids -> Nat] /\ Applied' \in [Ids -> Nat]
      BY DEF Applied
    <3>5. \A m \in Ids : Applied'[m] = IF m = current THEN Applied[current] + 1 ELSE Applied[m]
      BY <2>1, <3>1, <3>2, <3>3 DEF Applied
    <3>6. Applied' = [Applied EXCEPT ![current] = @ + 1]
      BY <2>1, <3>4, <3>5
    <3> QED
      BY <2>1, <2>2, <3>6 DEF Actions!Next, Actions!Write
  <2>4. CASE how # "applied"
    <3>1. Applied' = Applied
      BY <1>3, <2>1, <2>4 DEF End, Applied, SqliteInv, TypeOK
    <3> QED
      BY <2>1, <2>2, <3>1 DEF Actions!Next, Actions!GiveUp
  <2> QED
    BY <2>3, <2>4
<1>4. ASSUME UNCHANGED <<changes, current, outcome>>
      PROVE  UNCHANGED <<Phase, Applied>>
  BY <1>4 DEF Phase, Applied
<1>5. CASE BeginImmediate \/ FetchTargets
  BY <1>4, <1>5 DEF BeginImmediate, FetchTargets, Goto, store
<1>6. CASE VerifyExpected
  BY <1>3, <1>4, <1>6 DEF VerifyExpected, Goto, store
<1>7. CASE Write
  BY <1>3, <1>4, <1>7 DEF Write, Goto, store
<1>8. CASE Commit \/ OperationFails
  BY <1>3, <1>8 DEF Commit, OperationFails
<1>9. CASE Foreign
  BY <1>4, <1>9 DEF Foreign, store, confirm
<1> QED
  BY <1>1, <1>2, <1>5, <1>6, <1>7, <1>8, <1>9 DEF Next

\* Each change is committed at most once, by one confirmation, and not after one that
\* failed: the two-phase writes of README.md 159.
THEOREM TwoPhaseImplemented == Spec => ImplementsTwoPhase
<1>1. Init => Actions!Init
  BY SqliteAssumption DEF Init, Actions!Init, Phase, Applied, Ids
<1>2. SqliteInv /\ SqliteInv' /\ [Next]_vars => [Actions!Next]_<<Phase, Applied>>
  <2>1. UNCHANGED vars => UNCHANGED <<Phase, Applied>>
    BY DEF vars, store, confirm, Phase, Applied
  <2> QED
    BY <2>1, StepImplements
<1> QED
  BY <1>1, <1>2, InvHolds, PTL DEF Spec, ImplementsTwoPhase, Actions!Spec

-----------------------------------------------------------------------------
\* What the preview shows of a row

\* The function ShownRow is defined by.
RowFold(h, row, set) ==
    h = [s \in SUBSET DOMAIN set |->
            IF s = {} THEN row ELSE ShownAssign(h[s \ {Max(s)}], set[Max(s)])]

\* What is shown after an assignment is a row.
LEMMA AssignedTyped ==
    ASSUME NEW row \in Rows, NEW a \in Assignments PROVE ShownAssign(row, a) \in Rows
<1> DEFINE cell == IF a.field # Whole /\ IsKind(row[a.column], "object")
                   THEN Put(row[a.column], a) ELSE a.value
<1>1. a.column \in Columns /\ row[a.column] \in Cells /\ row \in [Columns -> Cells]
  BY DEF Assignments, Rows
<1>2. a.value \in Cells /\ (a.field # Whole => SetCell(row[a.column], a) \in Cells)
  BY <1>1, PutTyped DEF Assignments, Cells
<1>3. cell \in Cells
  BY <1>2 DEF SetCell
<1>4. ShownAssign(row, a) = [row EXCEPT ![a.column] = cell]
  BY DEF ShownAssign
<1> HIDE DEF cell
<1> QED
  BY <1>1, <1>3, <1>4 DEF Rows

\* ShownRow is the last value of that function.
LEMMA ShownRowIs ==
    ASSUME NEW row \in Rows, NEW set \in Seq(Assignments)
    PROVE  \E h : RowFold(h, row, set) /\ ShownRow(row, set) = h[1 .. Len(set)]
<1> DEFINE g == [i \in 1 .. Len(set) |-> [v \in Rows |-> ShownAssign(v, set[i])]]
<1>1. Len(set) \in Nat /\ DOMAIN set = 1 .. Len(set) /\ \A i \in 1 .. Len(set) : set[i] \in Assignments
  OBVIOUS
<1>2. g \in [1 .. Len(set) -> [Rows -> Rows]]
  BY <1>1, AssignedTyped
<1>3. PICK f \in [SUBSET (1 .. Len(set)) -> Rows] : Folds(f, row, g, Len(set))
  <2> HIDE DEF g
  <2> QED
    BY <1>1, <1>2, FoldExists
<1>4. ASSUME NEW s \in SUBSET DOMAIN set
      PROVE  f[s] = IF s = {} THEN row ELSE ShownAssign(f[s \ {Max(s)}], set[Max(s)])
  <2>1. f[s] = IF s = {} THEN row ELSE g[Max(s)][f[s \ {Max(s)}]]
    BY <1>1, <1>3, Zenon DEF Folds
  <2>2. CASE s # {}
    <3>1. Max(s) \in 1 .. Len(set) /\ s \ {Max(s)} \in SUBSET (1 .. Len(set))
      BY <1>1, <2>2, MaxOf
    <3>2. f[s \ {Max(s)}] \in Rows
      BY <1>3, <3>1
    <3> QED
      BY <2>1, <2>2, <3>1, <3>2
  <2> QED
    BY <2>1, <2>2
<1>5. RowFold(f, row, set)
  BY <1>1, <1>3, <1>4 DEF RowFold
<1> DEFINE h == CHOOSE h : RowFold(h, row, set)
<1>6. RowFold(h, row, set)
  BY <1>5, Zenon
<1>7. ShownRow(row, set) = h[DOMAIN set]
  BY Zenon DEF ShownRow, FoldLeft, MapThenFoldSet, RowFold
<1> QED
  BY <1>1, <1>6, <1>7, Zenon

\* Assignments one after the other, as the preview makes them of a row, are what one UPDATE
\* makes of it, when no column is set twice and paths lead into objects.
LEMMA ShownIsUpdated ==
    ASSUME NEW row \in Rows, NEW set \in Seq(Assignments),
           \A i, j \in DOMAIN set : set[i].column = set[j].column => i = j,
           \A i \in DOMAIN set : set[i].field = Whole \/ IsKind(row[set[i].column], "object")
    PROVE  ShownRow(row, set) = Updated(row, set)
<1> DEFINE n == Len(set)
<1>1. n \in Nat /\ DOMAIN set = 1 .. n /\ \A i \in 1 .. n : set[i] \in Assignments /\ set[i].column \in Columns
  <2>1. n \in Nat /\ DOMAIN set = 1 .. n /\ \A i \in 1 .. n : set[i] \in Assignments
    OBVIOUS
  <2>2. \A a \in Assignments : a.column \in Columns
    BY DEF Assignments
  <2> QED
    BY <2>1, <2>2
<1>2. PICK h : RowFold(h, row, set) /\ ShownRow(row, set) = h[1 .. n]
  BY ShownRowIs
<1> HIDE DEF n
<1>3. h[{}] = row
  BY <1>2, Zenon DEF RowFold
<1>4. ASSUME NEW k \in Nat, k + 1 <= n PROVE h[1 .. k + 1] = ShownAssign(h[1 .. k], set[k + 1])
  <2>1. 1 .. k + 1 \in SUBSET DOMAIN set /\ k + 1 \in 1 .. k + 1 /\ (1 .. k + 1) \ {k + 1} = 1 .. k
    BY <1>1, <1>4
  <2>2. Max(1 .. k + 1) = k + 1
    BY <2>1, MaxTop
  <2> QED
    BY <1>2, <2>1, <2>2, Zenon DEF RowFold
<1> DEFINE Set(k) == /\ h[1 .. k] \in Rows
                     /\ \A c \in Columns : (\A i \in 1 .. k : set[i].column # c) => h[1 .. k][c] = row[c]
                     /\ \A i \in 1 .. k : h[1 .. k][set[i].column] = SetCell(row[set[i].column], set[i])
           S == {k \in Nat : k <= n => Set(k)}
<1>5. 0 \in S
  <2>1. 1 .. 0 = {}
    OBVIOUS
  <2>2. Set(0)
    BY <1>3, <2>1
  <2> QED
    BY <2>2
<1>6. ASSUME NEW k \in Nat, k \in S PROVE k + 1 \in S
  <2> SUFFICES ASSUME k + 1 <= n PROVE Set(k + 1)
    OBVIOUS
  <2> DEFINE old == h[1 .. k]
             new == h[1 .. k + 1]
             a   == set[k + 1]
  <2>1. Set(k)
    BY <1>1, <1>6
  <2>2. a \in Assignments /\ a.column \in Columns /\ new = ShownAssign(old, a)
    BY <1>1, <1>4
  <2>3. old \in Rows /\ \A i \in 1 .. k : set[i].column # a.column
    BY <1>1, <2>1
  <2>4. old[a.column] = row[a.column]
    BY <2>1, <2>2, <2>3
  <2>5. a.field = Whole \/ IsKind(row[a.column], "object")
    BY <1>1
  <2>6. \A i \in 1 .. k + 1 : i = k + 1 \/ i \in 1 .. k
    OBVIOUS
  <2>7. /\ \A c \in Columns : (\A i \in 1 .. k : set[i].column # c) => old[c] = row[c]
        /\ \A i \in 1 .. k : old[set[i].column] = SetCell(row[set[i].column], set[i])
        /\ \A i \in 1 .. k : set[i].column \in Columns /\ i \in 1 .. k + 1 /\ k + 1 \in 1 .. k + 1
    BY <1>1, <2>1
  <2>8. new \in Rows
    BY <2>2, <2>3, AssignedTyped
  <2> HIDE DEF old, new, a, S, Set
  <2>9. new[a.column] = SetCell(row[a.column], a) /\ \A c \in Columns : c # a.column => new[c] = old[c]
    BY <2>2, <2>3, <2>4, <2>5 DEF ShownAssign, SetCell, Rows
  <2>10. \A c \in Columns : (\A i \in 1 .. k + 1 : set[i].column # c) => new[c] = row[c]
    BY <2>7, <2>9 DEF a
  <2>11. \A i \in 1 .. k + 1 : new[set[i].column] = SetCell(row[set[i].column], set[i])
    BY <2>3, <2>6, <2>7, <2>9 DEF a
  <2> QED
    BY <2>8, <2>10, <2>11 DEF Set, new
<1>7. Set(n)
  <2>1. Nat \subseteq S
    <3> HIDE DEF S
    <3> QED
      BY <1>5, <1>6, Induction
  <2>2. n \in S /\ n <= n
    <3> HIDE DEF S
    <3> QED
      BY <1>1, <2>1
  <2> QED
    BY <2>2
<1>8. Effective(set) = DOMAIN set
  BY <1>1 DEF Effective
<1>9. ASSUME NEW c \in Columns PROVE h[1 .. n][c] = Updated(row, set)[c]
  <2>1. CASE \E i \in DOMAIN set : set[i].column = c
    <3>1. PICK i \in DOMAIN set : set[i].column = c /\ i = (CHOOSE j \in DOMAIN set : set[j].column = c)
      BY <2>1
    <3> QED
      BY <1>1, <1>7, <1>8, <2>1, <3>1 DEF Updated
  <2>2. CASE \A i \in DOMAIN set : set[i].column # c
    BY <1>1, <1>7, <1>8, <2>2 DEF Updated
  <2> QED
    BY <2>1, <2>2
<1>10. h[1 .. n] \in [Columns -> Cells] /\ DOMAIN Updated(row, set) = Columns
       /\ Updated(row, set) = [c \in Columns |-> Updated(row, set)[c]]
  BY <1>7 DEF Rows, Updated
<1> QED
  BY <1>2, <1>9, <1>10

-----------------------------------------------------------------------------
\* A preview is borne out

\* What was shown of a change is what it makes of some of the rows it picked.
PickedOf(n) == \E S \in Selections(base[n], change[n]) : shown[n] = Shown(base[n], change[n], S)
ShownInv == DOMAIN shown = Ids /\ \A n \in 1 .. made : PickedOf(n)

\* What was shown stays what a preview showed: the steps of a confirmation leave it alone.
LEMMA ShownStays == ASSUME SqliteInv, ShownInv, [Next]_vars PROVE ShownInv'
<1>1. ASSUME UNCHANGED <<made, change, base, shown>> PROVE ShownInv'
  BY <1>1 DEF ShownInv, PickedOf
<1>2. ASSUME NEW ch \in Requests, PreviewChange(ch) PROVE ShownInv'
  <2>1. made \in Nat /\ made + 1 \in Ids /\ Ids = 1 .. MaxChanges /\ MaxChanges \in Nat /\ made \in 0 .. MaxChanges
    BY <1>2, SqliteAssumption DEF SqliteInv, TypeOK, PreviewChange, Ids
  <2>2. PICK S \in Selections(db, ch) : shown' = [shown EXCEPT ![made + 1] = Shown(db, ch, S)]
    BY <1>2 DEF PreviewChange
  <2>3. /\ base' = [base EXCEPT ![made + 1] = db] /\ change' = [change EXCEPT ![made + 1] = ch]
        /\ made' = made + 1 /\ DOMAIN base = Ids /\ DOMAIN change = Ids /\ DOMAIN shown = Ids
    BY <1>2 DEF PreviewChange, SqliteInv, TypeOK, ShownInv
  <2>4. ASSUME NEW n \in 1 .. made PROVE PickedOf(n)'
    <3>1. n \in Ids /\ n # made + 1
      BY <2>1
    <3>2. base'[n] = base[n] /\ change'[n] = change[n] /\ shown'[n] = shown[n]
      BY <2>2, <2>3, <3>1
    <3> QED
      BY <3>2 DEF ShownInv, PickedOf
  <2>5. ASSUME NEW n, n = made + 1 PROVE PickedOf(n)'
    <3>1. base'[n] = db /\ change'[n] = ch /\ shown'[n] = Shown(db, ch, S)
      BY <2>1, <2>2, <2>3, <2>5
    <3> QED
      BY <3>1 DEF PickedOf
  <2>6. DOMAIN shown' = Ids /\ \A n \in 1 .. made' : n \in 1 .. made \/ n = made + 1
    BY <2>1, <2>2, <2>3
  <2> QED
    BY <2>4, <2>5, <2>6 DEF ShownInv
<1> QED
  BY <1>1, <1>2 DEF Next, vars, store, preview, Confirm, BeginImmediate, FetchTargets,
     VerifyExpected, Write, Commit, OperationFails, Foreign, Goto, End

\* Within its limit a change picks all rows that match.
LEMMA AllPicked ==
    ASSUME NEW table \in Tables, NEW ch \in Changes, PicksAll(ch, table), NEW S \in Selections(table, ch)
    PROVE  S = Matching(table, ch.where)
<1> DEFINE all == Matching(table, ch.where)
<1>1. ch.type # "insert" /\ Cardinality(all) <= ch.limit /\ ch.limit \in Int
  <2>1. ch.type # "insert" => ch.limit \in 1 .. 100
    BY DEF Changes
  <2>2. ch.type # "insert" /\ Cardinality(all) <= ch.limit
    BY Zenon DEF PicksAll
  <2> QED
    BY <2>1, <2>2
<1>2. IsFiniteSet(all) /\ Cardinality(all) \in Nat
  BY SqliteAssumption, FS_Subset, FS_CardinalityType DEF Matching, Present
<1>3. S \subseteq all /\ Cardinality(S) = Cardinality(all)
  BY <1>1, <1>2 DEF Selections, Limit
<1> QED
  BY <1>2, <1>3, FS_Subset

\* What SQLite makes of all the rows that match is what is shown of them.
LEMMA OutcomeIsShown ==
    ASSUME NEW table \in Tables, NEW ch \in Changes, PicksAll(ch, table), SetsPlainly(ch, table),
           NEW out \in Outcomes(table, ch, Matching(table, ch.where))
    PROVE  out = Shown(table, ch, Matching(table, ch.where))
<1> DEFINE all == Matching(table, ch.where)
<1>1. all \subseteq Present(table) /\ all \subseteq RowIds /\ \A r \in all : table[r] \in Rows
  BY DEF Matching, Present, Tables
<1>2. CASE ch.type = "delete"
  <2>1. out = [r \in RowIds |-> IF r \in all THEN Gone ELSE table[r]]
    BY <1>2 DEF Outcomes
  <2> HIDE DEF all
  <2>2. Shown(table, ch, all) = [r \in RowIds |-> IF r \in all THEN Gone ELSE table[r]]
    BY <1>2 DEF Shown
  <2> QED
    BY <2>1, <2>2 DEF all
<1>3. CASE ch.type = "update"
  <2>1. out = [r \in RowIds |-> IF r \in all \cap Present(table) THEN Updated(table[r], ch.set) ELSE table[r]]
    BY <1>3 DEF Outcomes
  <2>2. ch.set \in Seq(Assignments)
    BY <1>3 DEF Changes
  <2>3. ASSUME NEW r \in all PROVE ShownRow(table[r], ch.set) = Updated(table[r], ch.set)
    BY <1>1, <1>3, <2>2, ShownIsUpdated DEF SetsPlainly
  <2> HIDE DEF all
  <2>4. Shown(table, ch, all) = [r \in RowIds |-> IF r \in all THEN ShownRow(table[r], ch.set) ELSE table[r]]
    BY <1>3 DEF Shown
  <2>5. out = [r \in RowIds |-> IF r \in all THEN ShownRow(table[r], ch.set) ELSE table[r]]
    BY <1>1, <2>1, <2>3
  <2> QED
    BY <2>4, <2>5 DEF all
<1> QED
  BY <1>2, <1>3 DEF PicksAll, Changes

\* A confirmed change does to the table what its preview showed (apply_set_to_row and the
\* UPDATE of build_set_clause, src/sqlite/change/), although it picks its rows again, when
\* nobody wrote to the table since, it picks all its rows and sets plainly.
THEOREM PreviewsBorneOut == Spec => PreviewBorneOut
<1>1. Init => ShownInv
  BY SqliteAssumption DEF Init, ShownInv
<1>2. ASSUME SqliteInv, ShownInv, [Next]_vars, NEW n \in Ids,
             PicksAll(change[n], base[n]), SetsPlainly(change[n], base[n]),
             outcome'[n] = "applied", outcome[n] # "applied", db = base[n]
      PROVE  db' = shown[n]
  <2>1. Commit /\ n = current
    <3>1. outcome' # outcome
      BY <1>2
    <3>2. PICK how : End(how) /\ step # "free" /\ (how = "applied" => Commit)
      BY <1>2, <3>1 DEF Next, vars, preview, PreviewChange, Confirm, BeginImmediate, FetchTargets,
         VerifyExpected, Write, Commit, OperationFails, Foreign, Goto
    <3>3. n = current /\ how = "applied"
      BY <1>2, <3>2 DEF End, SqliteInv, TypeOK
    <3> QED
      BY <3>2, <3>3
  <2>2. /\ change[n] \in Changes /\ db \in Tables /\ rowids \in Selections(db, change[n])
        /\ db' \in Outcomes(db, change[n], rowids) /\ n \in 1 .. made
    BY <1>2, <2>1, CurrentChange, SqliteAssumption
    DEF Commit, SqliteInv, LockedInv, TypeOK, PickedStep, Ids
  <2>3. PICK S \in Selections(db, change[n]) : shown[n] = Shown(db, change[n], S)
    BY <1>2, <2>2 DEF ShownInv, PickedOf
  <2>4. rowids = Matching(db, change[n].where) /\ S = Matching(db, change[n].where)
    BY <1>2, <2>2, AllPicked
  <2> QED
    BY <1>2, <2>2, <2>3, <2>4, OutcomeIsShown
<1>3. SqliteInv /\ ShownInv /\ [Next]_vars =>
        [\A n \in Ids :
           PicksAll(change[n], base[n]) /\ SetsPlainly(change[n], base[n]) => CommittedAsShown(n)]_vars
  BY <1>2 DEF CommittedAsShown
<1>4. Spec => []ShownInv
  BY <1>1, ShownStays, InvHolds, PTL DEF Spec
<1> QED
  BY <1>3, <1>4, InvHolds, PTL DEF Spec, PreviewBorneOut
=============================================================================
