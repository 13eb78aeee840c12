------------------------------ MODULE CellGuids ------------------------------
(***************************************************************************)
(* The GUIDs of cells when several threads read and edit archives at once. *)
(*                                                                         *)
(* An engine belongs to one thread; the counter behind TableCell::new      *)
(* (src/src/engines/table.rs) is shared by all of them.  A reader makes    *)
(* one cell for each entry of its table, and PackagedEngine::resolve takes *)
(* the difference of two GUIDs for a distance in that table, while other   *)
(* threads may have made cells in between; and reorganize puts the cells   *)
(* of an engine, later ones among them, into tables in another order, that *)
(* resolve can be called on again.                                         *)
(***************************************************************************)
EXTENDS Tables, FiniteSets

CONSTANTS
  Threads,
  Sizes,   \* how many infos the archives have that are read
  MaxGuid  \* bound: cells made in a run

ASSUME CountsOK == Sizes \subseteq Nat /\ MaxGuid \in Nat

VARIABLES
  guid,       \* the static counter
  table,      \* per thread: the table of infos, as far as it is read
  todo,       \* per thread: entries still to be read
  added,      \* per thread: the engine's other cells, made after it was read
  first,      \* per thread: the info whose distance was taken, 0 for none
  offset,     \* per thread: the distance resolve works with
  resolved,   \* per thread: whether the engine was ever resolved
  disturbed,  \* history: whether another thread made a cell during the read
  reordered   \* history: whether the table is another than the one that was read

guidVars == <<guid, table, todo, added, first, offset, resolved, disturbed, reordered>>

GuidInit ==
  /\ guid = 0
  /\ table = [t \in Threads |-> <<>>]
  /\ todo = [t \in Threads |-> 0]
  /\ added = [t \in Threads |-> {}]
  /\ first = [t \in Threads |-> 0]
  /\ offset = [t \in Threads |-> 0]
  /\ resolved = [t \in Threads |-> FALSE]
  /\ disturbed = [t \in Threads |-> FALSE]
  /\ reordered = [t \in Threads |-> FALSE]

-----------------------------------------------------------------------------
Reading(t) == todo[t] > 0

\* The cells of a thread's engine, whose GUIDs nobody else may have.
EngineCells(t) == Cells(table[t]) \cup added[t]

\* Mutants: a counter of a few bits; a clone of a cell that takes a GUID as well.
NarrowCounter(t) == (guid + 1) % 4
CloneTakesOne(t) == guid + 2

\* What the fetch_add of thread t leaves in the counter.
Incremented(t) == guid + 1

\* The thread's old engine is dropped - or what it has read, if reading failed -
\* and the next one is read from its start.
Open(t, n) ==
  /\ table' = [table EXCEPT ![t] = <<>>]
  /\ todo' = [todo EXCEPT ![t] = n]
  /\ added' = [added EXCEPT ![t] = {}]
  /\ first' = [first EXCEPT ![t] = 0]
  /\ offset' = [offset EXCEPT ![t] = 0]
  /\ resolved' = [resolved EXCEPT ![t] = FALSE]
  /\ disturbed' = [disturbed EXCEPT ![t] = FALSE]
  /\ reordered' = [reordered EXCEPT ![t] = FALSE]
  /\ UNCHANGED guid

\* The counter moves by one atomic fetch_add; whoever is in the middle of a
\* read has a gap from then on.
TakeGuid(t) ==
  /\ guid < MaxGuid
  /\ guid' = Incremented(t)
  /\ disturbed' = [u \in Threads |->
                     disturbed[u] \/ (u # t /\ Reading(u) /\ table[u] # <<>>)]

ReadEntry(t) ==
  /\ Reading(t)
  /\ TakeGuid(t)
  /\ table' = [table EXCEPT ![t] = Append(@, guid)]
  /\ todo' = [todo EXCEPT ![t] = @ - 1]
  /\ UNCHANGED <<added, first, offset, resolved, reordered>>

\* add_file, set_metadata and the like make cells too, infos among them.
AddCell(t) ==
  /\ ~Reading(t)
  /\ TakeGuid(t)
  /\ added' = [added EXCEPT ![t] = @ \cup {guid}]
  /\ UNCHANGED <<table, todo, first, offset, resolved, reordered>>

\* Mutant: the operands swapped.
Swapped(t, i) == table[t][1] - table[t][i]

\* infos().cells()[0].guid() - self.infos[0].guid(), for a group whose infos
\* begin with entry i.  If it is negative the subtraction underflows.
Distance(t, i) == table[t][i] - table[t][1]

\* resolve may be called again, after reorganize as well.
ResolveOffset(t, i) ==
  /\ ~Reading(t)
  /\ i \in 1..Len(table[t])
  /\ first' = [first EXCEPT ![t] = i]
  /\ offset' = [offset EXCEPT ![t] = Distance(t, i)]
  /\ resolved' = [resolved EXCEPT ![t] = TRUE]
  /\ UNCHANGED <<guid, table, todo, added, disturbed, reordered>>

\* Tables that from_engine may make of cells: TableMaker::push takes each once.
Arrangements(S) ==
  UNION {{s \in [1..n -> S] : \A i, k \in 1..n : s[i] = s[k] => i = k} :
           n \in 0..Cardinality(S)}

\* reorganize: the writer's table of infos is the engine's from now on.  Which of
\* the cells are infos that packages, groups and patches reach, and in which order
\* from_engine comes to them, is their affair: they may be any, in any order.  An
\* engine that was not resolved does not get through it.
Reorganize(t) ==
  /\ ~Reading(t)
  /\ resolved[t]
  /\ \E s \in Arrangements(EngineCells(t)) :
       /\ table' = [table EXCEPT ![t] = s]
       /\ added' = [added EXCEPT ![t] = EngineCells(t) \ Cells(s)]
       /\ reordered' = [reordered EXCEPT ![t] = @ \/ s # table[t]]
  /\ first' = [first EXCEPT ![t] = 0]
  /\ offset' = [offset EXCEPT ![t] = 0]
  /\ UNCHANGED <<guid, todo, resolved, disturbed>>

GuidNext ==
  \E t \in Threads :
    \/ \E n \in Sizes : Open(t, n)
    \/ ReadEntry(t)
    \/ AddCell(t)
    \/ \E i \in 1..Len(table[t]) : ResolveOffset(t, i)
    \/ Reorganize(t)

GuidSpec == GuidInit /\ [][GuidNext]_guidVars

-----------------------------------------------------------------------------
(* Properties. *)

\* Type correctness of the counter, the tables and the offsets taken.
GuidTypeOK ==
  /\ guid \in Nat
  /\ table \in [Threads -> Seq(Nat)]
  /\ todo \in [Threads -> Nat]
  /\ added \in [Threads -> SUBSET Nat]
  /\ first \in [Threads -> Nat]
  /\ \A t \in Threads : first[t] \in 0..Len(table[t])
  /\ offset \in [Threads -> Int]
  /\ resolved \in [Threads -> BOOLEAN]
  /\ disturbed \in [Threads -> BOOLEAN]
  /\ reordered \in [Threads -> BOOLEAN]

\* A GUID "is unique from every other cell active in any engine" (TableCell),
\* whichever threads make cells in whichever order: TableMaker tells cells
\* apart by nothing else.
GuidsAreUnique ==
  /\ \A t, u \in Threads : t # u => EngineCells(t) \cap EngineCells(u) = {}
  /\ \A t \in Threads :
       /\ Cells(table[t]) \cap added[t] = {}
       /\ \A i, n \in 1..Len(table[t]) : table[t][i] = table[t][n] => i = n

\* However the threads interleave, the offset that resolve takes is short, or
\* underflows, only where reorganize has changed the table since it was read, and
\* then only past an info that stands behind a later one.  In any order an offset
\* is 0 for the first info and no other, as resolve takes it when it asks whether
\* it has found one ("info_group_info_start == 0").
ShortOnlyIfReordered ==
  \A t \in Threads : first[t] # 0 =>
    /\ offset[t] < first[t] - 1 =>
         /\ reordered[t]
         /\ \E i, n \in 1..first[t] : i < n /\ table[t][i] > table[t][n]
    /\ offset[t] = 0 <=> first[t] = 1

\* The offset is the distance in the table if nobody else made a cell while the
\* table was read.  Cells that are made later, for whichever engine, do no harm
\* until reorganize changes the table.
OffsetIsExactAlone ==
  \A t \in Threads :
    first[t] # 0 /\ ~disturbed[t] /\ ~reordered[t] => offset[t] = first[t] - 1
=============================================================================
