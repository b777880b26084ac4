-------------------------- MODULE MCSqliteChanges --------------------------
(***************************************************************************)
(* SqliteChanges with a table of a name and a meta column, for TLC.        *)
(***************************************************************************)
EXTENDS SqliteChanges

CONSTANTS name, meta, a, b

TwoColumns == {name, meta}
TwoFields  == {a, b}

Row(n, m)       == [c \in TwoColumns |-> IF c = name THEN n ELSE m]
Set(c, f, v)    == [column |-> c, field |-> f, value |-> v]
Where(c, op, v) == [column |-> c, operator |-> op, value |-> v]
Expect(c, v)    == [column |-> c, value |-> v]
One == Number(1)
Two == Number(2)
A1  == Object([f \in TwoFields |-> IF f = a THEN One ELSE Absent])

Insert(values) == [type |-> "insert", values |-> values]
Update(set, where, limit, expected) ==
    [type |-> "update", set |-> set, where |-> where, limit |-> limit, expected |-> expected]
Delete(where, limit, expected) ==
    [type |-> "delete", where |-> where, limit |-> limit, expected |-> expected]

AllRequests == {
    Insert(Row(Two, Null)),
    Update(<<Set(name, Whole, Two)>>, {Where(name, "=", One)}, 1, {Expect(name, One)}),
    Update(<<Set(name, Whole, One), Set(meta, b, Two)>>, {Where(name, "!=", One)}, 2, {}),
    Update(<<Set(meta, a, Null)>>, {Where(meta, "IS NOT", Null)}, 2, {Expect(meta, A1)}),
    Update(<<Set(meta, Whole, One)>>, {Where(meta, "IS", One), Where(name, "<=", Two)}, 1, {}),
    Delete({Where(meta, ">", One), Where(name, "<", Two)}, 1, {Expect(meta, A1)}),
    Delete({Where(name, ">=", Two)}, 2, {}) }

Table(x, y) == [r \in RowIds |-> CASE r = 1 -> x [] r = 2 -> y [] OTHER -> Gone]
AllTables == {Table(Row(One, A1), Row(One, A1)), Table(Row(Two, A1), Row(One, Null)),
              Table(Row(Null, A1), Row(Two, NotJson(1)))}
AllRows   == {Row(One, A1), Row(Two, Null)}

TwoPaths   == {Update(<<Set(meta, a, Two), Set(meta, b, Two)>>, {}, 1, {})}
OneTable   == {Table(Row(One, A1), Gone)}
=============================================================================
