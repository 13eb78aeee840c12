------------------------------- MODULE Tables -------------------------------
(***************************************************************************)
(* The table layer every engine of the archive is built on                 *)
(* (src/src/engines/table.rs).  Records of the archive live in cells; a    *)
(* cell is identified by its GUID.  A field that refers to another record  *)
(* is an index as long as it is only parsed and a cell once it is          *)
(* resolved.  A table is a sequence of cells; the code counts its entries  *)
(* from 0, so entry i of the code is element i + 1 of the sequence.        *)
(***************************************************************************)
EXTENDS Integers, Sequences

INVALID_INDEX == 16777215

\* A HashKey keeps its index in the 24 bits above the hash: what it gives
\* back is the index it was built from, modulo 2^24.
HashKeyIndex(index) == index % 16777216

-----------------------------------------------------------------------------
(* References: none, an index that is still unresolved, or a cell. *)

None == [is |-> "none"]
Unresolved(i) == [is |-> "index", index |-> i]
Resolved(cell) == [is |-> "cell", cell |-> cell]

ReferenceTo(G) ==
  {None} \cup [is : {"index"}, index : Nat] \cup [is : {"cell"}, cell : G]

IsNone(ref) == ref.is = "none"
IsUnresolved(ref) == ref.is = "index"
IsCell(ref) == ref.is = "cell"

InBounds(table, i) == i < Len(table)
CellAt(table, i) == table[i + 1]

\* Resolving leaves a resolved reference alone, so it may be repeated.
Resolve(ref, table) ==
  IF IsUnresolved(ref) THEN Resolved(CellAt(table, ref.index)) ELSE ref

-----------------------------------------------------------------------------
(* Sets of references: the start index of a linked list, or its cells. *)

Start(i) == [is |-> "index", index |-> i]
Set(cells) == [is |-> "cells", cells |-> cells]

ReferenceSetOf(G) ==
  [is : {"index"}, index : Nat] \cup [is : {"cells"}, cells : Seq(G)]

IsSet(set) == set.is = "cells"

-----------------------------------------------------------------------------
(* The cells of a sequence, and a map with one more entry. *)

Cells(seq) == {seq[i] : i \in 1..Len(seq)}
LastOf(seq) == seq[Len(seq)]

IsMap(map, Keys, Values) ==
  DOMAIN map \subseteq Keys /\ map \in [DOMAIN map -> Values]

Insert(map, key, value) ==
  [x \in DOMAIN map \cup {key} |-> IF x = key THEN value ELSE map[x]]

-----------------------------------------------------------------------------
(* Contiguous sets of references: count entries from start on, or cells. *)

Span(start, count) == [is |-> "range", start |-> start, end |-> start + count]

SpanSetOf(G) ==
  [is : {"range"}, start : Nat, end : Nat] \cup [is : {"cells"}, cells : Seq(G)]

SpanFits(set, table) == ~IsSet(set) => set.end <= Len(table)

ResolveSpan(set, table) ==
  IF IsSet(set) THEN set ELSE Set(SubSeq(table, set.start + 1, set.end))

-----------------------------------------------------------------------------
(* A hash -> cell lookup made of a table just read: the cells of its entries *)
(* have consecutive GUIDs, "first" is that of the first.                     *)

\* Mutants: the filter for padding dropped; entries counted from 1.
UnfilteredLookup(table, first, skipped) ==
  LET last(p) == CHOOSE i \in 1..Len(table) : table[i].fullPath = p
  IN [p \in {table[i].fullPath : i \in 1..Len(table)} |-> first + last(p) - 1]

OffByOneLookup(table, first, skipped) ==
  LET last(p) == CHOOSE i \in 1..Len(table) : table[i].fullPath = p
  IN [p \in {table[i].fullPath : i \in 1..Len(table)} \ skipped |->
        first + last(p)]

\* A map collected from a table: of two equal keys the later entry stays.
LookupOf(table, first, skipped) ==
  LET keys == {table[i].fullPath : i \in 1..Len(table)} \ skipped
      last(p) == CHOOSE i \in 1..Len(table) :
                   /\ table[i].fullPath = p
                   /\ \A h \in (i + 1)..Len(table) : table[h].fullPath # p
  IN [p \in keys |-> first + last(p) - 1]

-----------------------------------------------------------------------------
(* TableMaker: the table under construction and, by GUID, each index. *)

EmptyMap == [x \in {} |-> x]

NewMaker == [table |-> <<>>, index |-> EmptyMap]

HasCell(maker, cell) == cell \in DOMAIN maker.index

\* Mutant: the index is taken after the cell is in the table.
PushCellFromOne(maker, cell) ==
  [table |-> Append(maker.table, cell),
   index |-> Insert(maker.index, cell, Len(maker.table) + 1)]

\* push panics on a cell it has already: its callers take ~HasCell as guard.
PushCell(maker, cell) ==
  [table |-> Append(maker.table, cell),
   index |-> Insert(maker.index, cell, Len(maker.table))]

\* get_index panics on a cell it has not: its callers take HasCell as guard.
GetIndex(maker, cell) == maker.index[cell]

IsMaker(maker, G) ==
  /\ maker = [table |-> maker.table, index |-> maker.index]
  /\ maker.table \in Seq(G)
  /\ IsMap(maker.index, G, Nat)

\* What a TableMaker promises: the index of a cell is where the table has it.
MakerOK(maker) ==
  /\ DOMAIN maker.index = Cells(maker.table)
  /\ \A i \in 1..Len(maker.table) : maker.index[maker.table[i]] = i - 1
=============================================================================
