----------------------------- MODULE TableLoops -----------------------------
(***************************************************************************)
(* The loops over cells that the readers and writers of the stream and the *)
(* packaged filesystem share, on top of the table layer.                   *)
(***************************************************************************)
EXTENDS Tables, SequencesExt

\* The cells a table reader makes: one per entry, with consecutive GUIDs.
TableFrom(first, n) == [i \in 1..n |-> first + i - 1]

CellsFrom(first, entries, parse(_)) ==
  [g \in first..(first + Len(entries) - 1) |-> parse(entries[g - first + 1])]

\* What the code's indices say: the entry of a table that is a cell.
PositionOf(table, cell) == SelectInSeq(table, LAMBDA c : c = cell) - 1

\* An index that counts from an offset on.
Shifted(ref, offset) ==
  IF IsUnresolved(ref) THEN Unresolved(ref.index + offset) ELSE ref

ShiftedSpan(set, offset) ==
  IF IsSet(set) THEN set ELSE Span(set.start + offset, set.end - set.start)

Fits(ref, table) == IsUnresolved(ref) => InBounds(table, ref.index)

\* A set of cells is where a start index and a count will find it again.
Consecutive(cells, maker) ==
  \A i \in 1..Len(cells) :
    HasCell(maker, cells[i])
      /\ GetIndex(maker, cells[i]) = GetIndex(maker, cells[1]) + i - 1
=============================================================================
