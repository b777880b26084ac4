----------------------------- MODULE SqliteRows -----------------------------
(***************************************************************************)
(* Which rows a change of sqlite_preview_change picks, what its preview    *)
(* shows of them, and what SQLite makes of them (src/sqlite/query.rs,      *)
(* src/sqlite/change/), as pure functions.                                 *)
(*                                                                         *)
(* A table gives of every rowid its row, or Gone; a row of every column    *)
(* its cell: Null, a number, a text that is a JSON object (its fields), or *)
(* a text that is not JSON.  A path into an object has one name.  Columns  *)
(* exist and default to Null; how types convert into each other, LIKE, and *)
(* the order of texts are left out.                                        *)
(***************************************************************************)
EXTENDS Integers, FiniteSets, SequencesExt

CONSTANTS
    RowIds, Columns, Fields,
    Null,       \* no value
    Absent,     \* in place of a field's value: no such field
    Whole,      \* in place of a path: the whole cell
    Gone        \* in place of a row: no such row

Number(n)     == [number |-> n]
Object(f)     == [object |-> f]
NotJson(t)    == [text |-> t]

Scalars == {Null} \cup [number : Int]
Cells   == Scalars \cup [text : Int] \cup [object : [Fields -> Scalars \cup {Absent}]]
Rows    == [Columns -> Cells]
Tables  == [RowIds -> Rows \cup {Gone}]

IsKind(cell, kind) == cell # Null /\ kind \in DOMAIN cell

\* The changes, as validate_change admits them.
Operators   == {"=", "!=", "<", ">", "<=", ">=", "IS", "IS NOT"}
Conditions  == [column : Columns, operator : Operators, value : Scalars]
Assignments == [column : Columns, field : Fields \cup {Whole}, value : Scalars]
Expectations == [column : Columns, value : Cells]
Changes ==
    [type : {"insert"}, values : [Columns -> Scalars]]
      \cup [type : {"update"}, set : Seq(Assignments) \ {<<>>}, where : SUBSET Conditions,
            limit : 1 .. 100, expected : SUBSET Expectations]
      \cup [type : {"delete"}, where : SUBSET Conditions, limit : 1 .. 100,
            expected : SUBSET Expectations]

-----------------------------------------------------------------------------
\* Which rows

\* Whatever is compared with Null does not hold.  IS and IS NOT ask for Null, whatever value
\* they come with.  In the order of SQLite every text is above every number.
Below(x, y) ==
    \/ IsKind(x, "number") /\ IsKind(y, "number") /\ x.number < y.number
    \/ IsKind(x, "number") /\ ~IsKind(y, "number")

Satisfies(cell, cond) ==
    CASE cond.operator = "IS"     -> cell = Null
      [] cond.operator = "IS NOT" -> cell # Null
      [] OTHER ->
           /\ cell # Null /\ cond.value # Null
           /\ CASE cond.operator = "="  -> cell = cond.value
                [] cond.operator = "!=" -> cell # cond.value
                [] cond.operator = "<"  -> Below(cell, cond.value)
                [] cond.operator = ">"  -> Below(cond.value, cell)
                [] cond.operator = "<=" -> ~Below(cond.value, cell)
                [] cond.operator = ">=" -> ~Below(cell, cond.value)

Meets(row, where) == \A cond \in where : Satisfies(row[cond.column], cond)

Present(table) == {r \in RowIds : table[r] # Gone}

Matching(table, where) == {r \in Present(table) : Meets(table[r], where)}

\* SELECT ... LIMIT without an order: any of the matching rows, as many as the limit allows.
\* An insert picks none.
Limit(ch, all) == IF ch.limit < Cardinality(all) THEN ch.limit ELSE Cardinality(all)

Selections(table, ch) ==
    IF ch.type = "insert" THEN {{}}
    ELSE LET all == Matching(table, ch.where)
         IN  {S \in SUBSET all : Cardinality(S) = Limit(ch, all)}

\* verify_expected, which compares nothing when nothing is expected.  By rowid only rows that
\* are still there are read, and written.
AsExpected(table, S, ch) ==
    IF ch.type = "insert" \/ ch.expected = {} THEN TRUE
    ELSE S # {} /\ \A r \in S \cap Present(table) : \A e \in ch.expected : table[r][e.column] = e.value

-----------------------------------------------------------------------------
\* What the preview shows (apply_set_to_row), one assignment after the other

Put(cell, a) == Object([cell.object EXCEPT ![a.field] = a.value])

ShownAssign(row, a) ==
    [row EXCEPT ![a.column] =
        IF a.field # Whole /\ IsKind(@, "object") THEN Put(@, a) ELSE a.value]

ShownRow(row, set) == FoldLeft(ShownAssign, row, set)

\* The table as it would be with what is shown of the rows in S.  Of an insert the values
\* are shown, and no row.
Shown(table, ch, S) ==
    [r \in RowIds |-> CASE r \notin S -> table[r]
                        [] r \in S /\ ch.type = "update" -> ShownRow(table[r], ch.set)
                        [] r \in S /\ ch.type = "delete" -> Gone]

-----------------------------------------------------------------------------
\* What SQLite does: of several assignments to a column only the last one counts, each
\* json_set is of the column as it was, and leaves what is no object as it is.

Effective(set) ==
    {i \in DOMAIN set : \A j \in DOMAIN set : j > i => set[j].column # set[i].column}

\* For mutation: a path replaces the whole cell.
Overwrite(cell, a) == a.value

SetCell(cell, a) ==
    IF a.field = Whole THEN a.value
    ELSE IF IsKind(cell, "object") THEN Put(cell, a) ELSE cell

Updated(row, set) ==
    [c \in Columns |->
        IF \E i \in Effective(set) : set[i].column = c
        THEN SetCell(row[c], set[CHOOSE i \in Effective(set) : set[i].column = c])
        ELSE row[c]]

\* json_set of a text that is not JSON is an error.
Malformed(row, set) ==
    \E i \in Effective(set) : set[i].field # Whole /\ IsKind(row[set[i].column], "text")

Refused(table, ch, S) ==
    /\ ch.type = "update"
    /\ \E r \in S \cap Present(table) : Malformed(table[r], ch.set)

\* The tables a change of the rows in S may lead to; an insert picks the rowid.
Outcomes(table, ch, S) ==
    CASE ch.type = "insert" ->
           {[table EXCEPT ![r] = ch.values] : r \in RowIds \ Present(table)}
      [] ch.type = "update" ->
           {[r \in RowIds |->
                IF r \in S \cap Present(table) THEN Updated(table[r], ch.set) ELSE table[r]]}
      [] ch.type = "delete" -> {[r \in RowIds |-> IF r \in S THEN Gone ELSE table[r]]}
=============================================================================
