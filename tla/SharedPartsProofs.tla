------------------------- MODULE SharedPartsProofs -------------------------
(***************************************************************************)
(* Proofs about the parts below the filesystems that have no structure of   *)
(* their own: the counter of GUIDs (CellGuids), the keys of the tables      *)
(* (HashKeys), the global decompressor (GlobalDecompressor), the map of     *)
(* buckets and the lookups written from it (BucketMap), and the locales     *)
(* (Locales).                                                              *)
(***************************************************************************)
EXTENDS CellGuids, HashKeys, GlobalDecompressor, BucketMap, Locales, TablesProofs

-----------------------------------------------------------------------------
(* CellGuids: GUIDs are unique, and offsets taken from them short only in   *)
(* tables that were reordered and exact if nobody interfered, for any       *)
(* number of threads and tables of any size.                               *)

\* Every cell was made before the counter got where it is.
GuidsBelow == \A t \in Threads : \A g \in EngineCells(t) : g < guid

\* In a table as it was read later entries have larger GUIDs, by one at least for
\* each entry between.
Ascending ==
  \A t \in Threads : ~reordered[t] =>
    \A i, n \in 1..Len(table[t]) : i <= n => table[t][n] - table[t][i] >= n - i

Apart ==
  /\ \A t, u \in Threads : t # u => EngineCells(t) \cap EngineCells(u) = {}
  /\ \A t \in Threads : Cells(table[t]) \cap added[t] = {}

\* No cell is in a table twice, also after reorganize.
Distinct ==
  \A t \in Threads : \A i, n \in 1..Len(table[t]) : table[t][i] = table[t][n] => i = n

\* A reader nobody disturbed has consecutive GUIDs, and the next is the next.
Even ==
  \A t \in Threads : ~disturbed[t] /\ ~reordered[t] =>
    /\ \A i, n \in 1..Len(table[t]) : table[t][n] - table[t][i] = n - i
    /\ Reading(t) /\ table[t] # <<>> => guid = LastOf(table[t]) + 1

Offsets == \A t \in Threads : first[t] # 0 => offset[t] = Distance(t, first[t])

GuidsIInv == GuidTypeOK /\ GuidsBelow /\ Ascending /\ Apart /\ Distinct /\ Even /\ Offsets

-----------------------------------------------------------------------------
\* GUIDs that rise along a table rise by one at least from each entry to the next.
LEMMA RisesByOne ==
  ASSUME NEW s, NEW m \in Nat, m >= 1,
         \A i \in 1..m : s[i] \in Nat,
         \A i, n \in 1..m : i < n => s[i] < s[n]
  PROVE  s[m] - s[1] >= m - 1
<1> DEFINE T == {i \in 1..m : s[i] - s[1] < i - 1}
           R == OpToRel(<, Nat)
<1>1. T = {}
  <2> SUFFICES ASSUME T # {} PROVE FALSE
    OBVIOUS
  <2>1. PICK n \in T : \A i \in T : ~(<<i, n>> \in R)
    <3>1. IsWellFoundedOn(R, Nat)
      BY NatLessThanWellFounded
    <3>2. T \subseteq Nat
      OBVIOUS
    <3> HIDE DEF T, R
    <3> QED BY <3>1, <3>2, WFMin
  <2>2. n \in 1..m /\ s[n] - s[1] < n - 1
    BY <2>1
  <2>3. n # 1 /\ n - 1 \in 1..m
    BY <2>2
  <2>4. n - 1 \notin T
    <3>1. <<n - 1, n>> \in R
      BY <2>2, <2>3 DEF OpToRel
    <3> HIDE DEF T, R
    <3> QED BY <2>1, <3>1
  <2>5. s[n - 1] - s[1] >= n - 2
    <3>1. s[n - 1] \in Nat /\ s[1] \in Nat
      BY <2>3
    <3> QED BY <2>3, <2>4, <3>1
  <2>6. s[n - 1] < s[n] /\ s[n] \in Nat /\ s[n - 1] \in Nat /\ s[1] \in Nat
    BY <2>2, <2>3
  <2> QED BY <2>2, <2>5, <2>6
<1>2. m \notin T
  BY <1>1
<1>3. s[m] \in Nat /\ s[1] \in Nat
  OBVIOUS
<1> QED
  BY <1>2, <1>3

\* What a reader appends is behind everything that is there.
LEMMA AppendGuid ==
  ASSUME NEW s \in Seq(Nat), NEW g \in Nat
  PROVE  /\ Append(s, g) \in Seq(Nat) /\ Append(s, g) # <<>>
         /\ Len(s) \in Nat /\ Len(Append(s, g)) = Len(s) + 1
         /\ LastOf(Append(s, g)) = g
         /\ \A i \in 1..Len(s) : Append(s, g)[i] = s[i] /\ s[i] \in Nat
         /\ Append(s, g)[Len(s) + 1] = g
         /\ Cells(Append(s, g)) = Cells(s) \cup {g}
<1>1. /\ Append(s, g) \in Seq(Nat) /\ Append(s, g) # <<>>
      /\ Len(s) \in Nat /\ Len(Append(s, g)) = Len(s) + 1
      /\ Append(s, g)[Len(s) + 1] = g
      /\ \A i \in 1..Len(s) : Append(s, g)[i] = s[i]
  BY AppendElement, LenProperties
<1>2. \A i \in 1..Len(s) : s[i] \in Nat
  BY LenProperties
<1> QED
  BY <1>1, <1>2 DEF Cells, LastOf

\* A step of TakeGuid leaves the counter one ahead of where it was, and whoever
\* is reading knows.
LEMMA TakenGuid ==
  ASSUME GuidTypeOK, NEW t \in Threads, TakeGuid(t)
  PROVE  /\ guid \in Nat /\ guid' = guid + 1
         /\ disturbed' \in [Threads -> BOOLEAN]
         /\ \A u \in Threads : disturbed'[u] <=>
              disturbed[u] \/ (u # t /\ Reading(u) /\ table[u] # <<>>)
<1>1. guid \in Nat /\ guid' = guid + 1
  BY DEF TakeGuid, Incremented, GuidTypeOK
<1>2. disturbed' = [u \in Threads |->
                      disturbed[u] \/ (u # t /\ Reading(u) /\ table[u] # <<>>)]
  BY DEF TakeGuid
<1>3. disturbed \in [Threads -> BOOLEAN]
  BY DEF GuidTypeOK
<1> QED
  BY <1>1, <1>2, <1>3

\* No thread has an engine to begin with.
LEMMA InitGuids == GuidInit => GuidsIInv
<1> SUFFICES ASSUME GuidInit PROVE GuidsIInv
  OBVIOUS
<1>1. GuidTypeOK
  BY DEF GuidInit, GuidTypeOK
<1>2. \A t \in Threads : EngineCells(t) = {} /\ Len(table[t]) = 0
  BY DEF GuidInit, EngineCells, Cells
<1> QED
  BY <1>1, <1>2 DEF GuidInit, GuidsIInv, GuidsBelow, Ascending, Apart, Distinct, Even,
                        Offsets, EngineCells, Reading

\* An engine that is dropped and opened again has no cells.
LEMMA OpenKeeps ==
  ASSUME GuidsIInv, NEW t \in Threads, NEW n \in Sizes, Open(t, n)
  PROVE  GuidsIInv'
<1> USE DEF GuidsIInv
<1>0. n \in Nat
  BY CountsOK
<1>1. /\ table'[t] = <<>> /\ added'[t] = {} /\ first'[t] = 0
      /\ \A u \in Threads : u # t =>
           /\ table'[u] = table[u] /\ todo'[u] = todo[u] /\ added'[u] = added[u]
           /\ first'[u] = first[u] /\ offset'[u] = offset[u]
           /\ disturbed'[u] = disturbed[u] /\ reordered'[u] = reordered[u]
      /\ guid' = guid
  BY DEF Open, GuidTypeOK
<1>2. GuidTypeOK'
  <2>1. table' \in [Threads -> Seq(Nat)] /\ Len(table'[t]) = 0
    BY <1>1 DEF Open, GuidTypeOK
  <2> QED
    BY <1>0, <1>1, <2>1 DEF Open, GuidTypeOK
<1>3. EngineCells(t)' = {} /\ Cells(table[t])' = {}
  BY <1>1 DEF EngineCells, Cells
<1>4. \A u \in Threads : u # t =>
        EngineCells(u)' = EngineCells(u) /\ Cells(table[u])' = Cells(table[u])
  BY <1>1 DEF EngineCells, Cells
<1>5. GuidsBelow' /\ Apart'
  BY <1>1, <1>3, <1>4 DEF GuidsBelow, Apart
<1>6. Ascending' /\ Distinct' /\ Even' /\ Offsets'
  <2>1. Len(table'[t]) = 0
    BY <1>1
  <2>2. Ascending' /\ Distinct'
    BY <1>1, <2>1 DEF Ascending, Distinct
  <2>3. Even'
    BY <1>1, <2>1 DEF Even, Reading
  <2>4. Offsets'
    BY <1>1 DEF Offsets, Distance
  <2> QED BY <2>2, <2>3, <2>4
<1> QED
  BY <1>2, <1>5, <1>6

\* An entry gets the next GUID: behind those of its table, new to all others.
LEMMA ReadEntryKeeps ==
  ASSUME GuidsIInv, NEW t \in Threads, ReadEntry(t)
  PROVE  GuidsIInv'
<1> USE DEF GuidsIInv
<1> DEFINE s == table[t]
           new == Append(s, guid)
<1>1. /\ guid \in Nat /\ guid' = guid + 1
      /\ disturbed' \in [Threads -> BOOLEAN]
      /\ \A u \in Threads : disturbed'[u] <=>
           disturbed[u] \/ (u # t /\ Reading(u) /\ table[u] # <<>>)
  BY TakenGuid DEF ReadEntry
<1>2. /\ table'[t] = new /\ todo'[t] = todo[t] - 1
      /\ \A u \in Threads : u # t => table'[u] = table[u] /\ todo'[u] = todo[u]
      /\ added' = added /\ first' = first /\ offset' = offset
      /\ resolved' = resolved /\ reordered' = reordered
      /\ s \in Seq(Nat) /\ todo[t] \in Nat /\ todo[t] > 0
  BY DEF ReadEntry, Reading, GuidTypeOK
<1>3. /\ new \in Seq(Nat) /\ new # <<>>
      /\ Len(s) \in Nat /\ Len(new) = Len(s) + 1 /\ LastOf(new) = guid
      /\ \A i \in 1..Len(s) : new[i] = s[i] /\ s[i] \in Nat
      /\ new[Len(s) + 1] = guid
      /\ Cells(new) = Cells(s) \cup {guid}
  BY SMTT(60), <1>1, <1>2, AppendGuid
<1> HIDE DEF new, s
<1>4. GuidTypeOK'
  <2>1. table' \in [Threads -> Seq(Nat)] /\ todo' \in [Threads -> Nat]
    BY <1>2, <1>3 DEF ReadEntry, GuidTypeOK, new, s
  <2>2. \A u \in Threads : first'[u] \in 0..Len(table'[u])
    <3> TAKE u \in Threads
    <3>1. CASE u = t
      <4>1. first[t] \in 0..Len(s)
        BY DEF GuidTypeOK, s
      <4> QED BY <3>1, <4>1, <1>2, <1>3
    <3>2. CASE u # t
      BY <3>2, <1>2 DEF GuidTypeOK
    <3> QED BY <3>1, <3>2
  <2> QED
    BY <1>1, <1>2, <2>1, <2>2 DEF GuidTypeOK
<1>5. /\ EngineCells(t)' = EngineCells(t) \cup {guid}
      /\ Cells(table[t])' = Cells(table[t]) \cup {guid}
      /\ \A u \in Threads : u # t =>
           EngineCells(u)' = EngineCells(u) /\ Cells(table[u])' = Cells(table[u])
  BY <1>2, <1>3 DEF EngineCells, s
<1>6. \A u \in Threads : \A g \in EngineCells(u) : g \in Nat /\ g < guid
  <2> TAKE u \in Threads
  <2> TAKE g \in EngineCells(u)
  <2>1. table[u] \in Seq(Nat) /\ added[u] \in SUBSET Nat
    BY DEF GuidTypeOK
  <2>2. g \in Nat
    BY <2>1, CellsOfSeq DEF EngineCells
  <2> QED BY <2>2 DEF GuidsBelow
<1>7. GuidsBelow'
  BY <1>1, <1>5, <1>6 DEF GuidsBelow
<1>8. Apart'
  <2>1. guid \notin UNION {EngineCells(u) : u \in Threads}
    BY <1>1, <1>6
  <2>2. \A u \in Threads : added'[u] \subseteq EngineCells(u) /\ added'[u] = added[u]
    BY <1>2 DEF EngineCells
  <2> QED
    BY <1>5, <2>1, <2>2 DEF Apart
<1>9. \A i \in 1..Len(s) : s[i] < guid
  BY <1>6, <1>2, <1>3 DEF EngineCells, Cells, s
<1>10. Ascending'
  <2> SUFFICES ASSUME NEW u \in Threads, ~reordered[u], NEW i \in 1..Len(table'[u]),
                      NEW n \in 1..Len(table'[u]), i <= n
               PROVE  table'[u][n] - table'[u][i] >= n - i
    BY <1>2 DEF Ascending
  <2>1. CASE u # t
    BY <2>1, <1>2 DEF Ascending
  <2>2. CASE u = t /\ n \in 1..Len(s)
    <3>1. i \in 1..Len(s)
      BY <2>2, <1>2, <1>3
    <3>2. s[n] - s[i] >= n - i
      BY <3>1, <2>2 DEF Ascending, s
    <3> QED BY <3>1, <3>2, <2>2, <1>2, <1>3
  <2>3. CASE u = t /\ n = Len(s) + 1 /\ i \in 1..Len(s)
    <3>1. s[Len(s)] - s[i] >= Len(s) - i /\ s[Len(s)] < guid
      <4>1. Len(s) \in 1..Len(s) /\ i <= Len(s)
        BY <2>3, <1>3
      <4> QED BY <4>1, <2>3, <1>9 DEF Ascending, s
    <3>2. s[Len(s)] \in Nat /\ s[i] \in Nat
      BY <2>3, <1>3
    <3>3. table'[u][n] = guid /\ table'[u][i] = s[i]
      BY <2>3, <1>2, <1>3
    <3> HIDE DEF s
    <3> QED BY <3>1, <3>2, <3>3, <2>3, <1>1, <1>3, SMTT(20)
  <2>4. CASE u = t /\ n = Len(s) + 1 /\ i = Len(s) + 1
    BY <2>4, <1>1, <1>2, <1>3
  <2> QED BY <2>1, <2>2, <2>3, <2>4, <1>2, <1>3
<1>11. Even'
  <2> SUFFICES ASSUME NEW u \in Threads, ~disturbed'[u], ~reordered[u]
               PROVE  /\ \A i, n \in 1..Len(table'[u]) : table'[u][n] - table'[u][i] = n - i
                      /\ Reading(u)' /\ table'[u] # <<>> => guid' = LastOf(table'[u]) + 1
    BY <1>2 DEF Even
  <2>1. CASE u # t
    <3>1. ~disturbed[u] /\ (Reading(u) => table[u] = <<>>)
      BY <2>1, <1>1
    <3> QED BY <2>1, <3>1, <1>2 DEF Even, Reading
  <2>2. CASE u = t
    <3>1. /\ \A i, n \in 1..Len(s) : s[n] - s[i] = n - i
          /\ s # <<>> => guid = LastOf(s) + 1
      BY <2>2, <1>1, <1>2 DEF Even, Reading, s
    <3>2. \A i \in 1..Len(s) : guid - s[i] = Len(s) + 1 - i
      <4> TAKE i \in 1..Len(s)
      <4>1. s # <<>> /\ Len(s) \in 1..Len(s)
        BY <1>2, <1>3, EmptySeq
      <4>2. guid = s[Len(s)] + 1
        BY <3>1, <4>1 DEF LastOf
      <4>3. s[Len(s)] - s[i] = Len(s) - i
        BY <3>1, <4>1
      <4>4. /\ s[i] \in Nat /\ s[Len(s)] \in Nat /\ i \in Nat /\ Len(s) \in Nat
        BY <4>1, <1>3
      <4> HIDE DEF s
      <4> QED BY <4>2, <4>3, <4>4
    <3>3. ASSUME NEW i \in 1..Len(new), NEW n \in 1..Len(new)
          PROVE  new[n] - new[i] = n - i
      <4>1. CASE i \in 1..Len(s) /\ n \in 1..Len(s)
        BY <4>1, <3>1, <1>3
      <4>2. CASE i \in 1..Len(s) /\ n = Len(s) + 1
        <5>1. guid - s[i] = Len(s) + 1 - i
          BY <4>2, <3>2
        <5>2. new[i] = s[i] /\ new[n] = guid
          BY <4>2, <1>3
        <5> QED BY <4>2, <5>1, <5>2
      <4>3. CASE i = Len(s) + 1 /\ n \in 1..Len(s)
        <5>1. guid - s[n] = Len(s) + 1 - n /\ s[n] \in Nat
          BY <4>3, <3>2, <1>3
        <5>2. new[n] = s[n] /\ new[i] = guid
          BY <4>3, <1>3
        <5> QED BY <4>3, <5>1, <5>2, <1>1, <1>3
      <4>4. CASE i = Len(s) + 1 /\ n = Len(s) + 1
        BY <4>4, <1>1, <1>3
      <4> QED BY <4>1, <4>2, <4>3, <4>4, <1>3
    <3> QED BY <2>2, <3>3, <1>1, <1>2, <1>3
  <2> QED BY <2>1, <2>2
<1>12. Offsets'
  <2> SUFFICES ASSUME NEW u \in Threads, first'[u] # 0
               PROVE  offset'[u] = Distance(u, first[u])'
    BY DEF Offsets
  <2>1. offset[u] = table[u][first[u]] - table[u][1] /\ first[u] \in 1..Len(table[u])
    BY <1>2 DEF Offsets, Distance, GuidTypeOK
  <2>2. table'[u][first[u]] = table[u][first[u]] /\ table'[u][1] = table[u][1]
    <3>1. CASE u # t
      BY <3>1, <1>2
    <3>2. CASE u = t
      <4>1. first[t] \in 1..Len(s) /\ 1 \in 1..Len(s)
        BY <2>1, <3>2, <1>3 DEF s
      <4> QED BY <3>2, <4>1, <1>2, <1>3 DEF s
    <3> QED BY <3>1, <3>2
  <2> QED BY <2>1, <2>2, <1>2 DEF Distance
<1>13. Distinct'
  <2> SUFFICES ASSUME NEW u \in Threads, NEW i \in 1..Len(table'[u]),
                      NEW n \in 1..Len(table'[u]), table'[u][i] = table'[u][n]
               PROVE  i = n
    BY DEF Distinct
  <2>1. CASE u # t
    BY <2>1, <1>2 DEF Distinct
  <2>2. CASE u = t
    <3>1. \A m \in 1..Len(s) : new[m] = s[m] /\ s[m] \in Nat /\ s[m] < guid
      BY <1>3, <1>9
    <3>2. \A k, m \in 1..Len(s) : s[k] = s[m] => k = m
      BY DEF Distinct, s
    <3>3. /\ i \in 1..Len(s) \/ i = Len(s) + 1
          /\ n \in 1..Len(s) \/ n = Len(s) + 1
      BY <2>2, <1>2, <1>3
    <3>4. new[i] = new[n] /\ new[Len(s) + 1] = guid
      BY <2>2, <1>2, <1>3
    <3>5. CASE i \in 1..Len(s) /\ n \in 1..Len(s)
      BY <3>1, <3>2, <3>4, <3>5
    <3>6. ~(i \in 1..Len(s) /\ n = Len(s) + 1)
      BY <3>1, <3>4, <1>1
    <3>7. ~(n \in 1..Len(s) /\ i = Len(s) + 1)
      BY <3>1, <3>4, <1>1
    <3> QED BY <3>3, <3>5, <3>6, <3>7
  <2> QED BY <2>1, <2>2
<1> QED
  BY <1>4, <1>7, <1>8, <1>10, <1>11, <1>12, <1>13

\* A cell beside the tables is new to every engine; it disturbs who is reading.
LEMMA AddCellKeeps ==
  ASSUME GuidsIInv, NEW t \in Threads, AddCell(t)
  PROVE  GuidsIInv'
<1> USE DEF GuidsIInv
<1>1. /\ guid \in Nat /\ guid' = guid + 1
      /\ disturbed' \in [Threads -> BOOLEAN]
      /\ \A u \in Threads : disturbed'[u] <=>
           disturbed[u] \/ (u # t /\ Reading(u) /\ table[u] # <<>>)
  BY TakenGuid DEF AddCell
<1>2. /\ table' = table /\ todo' = todo /\ first' = first /\ offset' = offset
      /\ resolved' = resolved /\ reordered' = reordered
      /\ added'[t] = added[t] \cup {guid} /\ ~Reading(t)
      /\ \A u \in Threads : u # t => added'[u] = added[u]
  BY DEF AddCell, GuidTypeOK
<1>3. GuidTypeOK'
  <2>1. added' \in [Threads -> SUBSET Nat]
    BY <1>1 DEF AddCell, GuidTypeOK
  <2> QED BY <1>1, <1>2, <2>1 DEF GuidTypeOK
<1>4. \A u \in Threads : \A g \in EngineCells(u) : g \in Nat /\ g < guid
  <2> TAKE u \in Threads
  <2> TAKE g \in EngineCells(u)
  <2>1. table[u] \in Seq(Nat) /\ added[u] \in SUBSET Nat
    BY DEF GuidTypeOK
  <2>2. g \in Nat
    BY <2>1, CellsOfSeq DEF EngineCells
  <2> QED BY <2>2 DEF GuidsBelow
<1>5. /\ EngineCells(t)' = EngineCells(t) \cup {guid}
      /\ \A u \in Threads : u # t => EngineCells(u)' = EngineCells(u)
      /\ \A u \in Threads : Cells(table[u])' = Cells(table[u])
  BY <1>2 DEF EngineCells
<1>6. GuidsBelow'
  BY <1>1, <1>4, <1>5 DEF GuidsBelow
<1>7. Apart'
  <2>1. \A u \in Threads : guid \notin EngineCells(u)
    BY <1>1, <1>4
  <2>2. \A u \in Threads : Cells(table[u]) \subseteq EngineCells(u)
    BY DEF EngineCells
  <2> QED BY <1>2, <1>5, <2>1, <2>2 DEF Apart
<1>8. Ascending' /\ Distinct' /\ Offsets'
  BY <1>2 DEF Ascending, Distinct, Offsets, Distance
<1>9. Even'
  <2> SUFFICES ASSUME NEW u \in Threads, ~disturbed'[u]
               PROVE  /\ ~disturbed[u]
                      /\ ~(Reading(u) /\ table[u] # <<>>)
    BY <1>2 DEF Even, Reading
  <2> QED BY <1>1, <1>2
<1> QED
  BY <1>3, <1>6, <1>7, <1>8, <1>9

\* Taking an offset changes no cell.
LEMMA ResolveOffsetKeeps ==
  ASSUME GuidsIInv, NEW t \in Threads, NEW i \in 1..Len(table[t]), ResolveOffset(t, i)
  PROVE  GuidsIInv'
<1> USE DEF GuidsIInv
<1>1. /\ guid' = guid /\ table' = table /\ todo' = todo /\ added' = added
      /\ disturbed' = disturbed /\ reordered' = reordered
      /\ first'[t] = i /\ offset'[t] = table[t][i] - table[t][1]
      /\ \A u \in Threads : u # t => first'[u] = first[u] /\ offset'[u] = offset[u]
  BY DEF ResolveOffset, Distance, GuidTypeOK
<1>2. table[t] \in Seq(Nat) /\ Len(table[t]) \in Nat
  BY LenProperties DEF GuidTypeOK
<1>3. table[t][i] \in Nat /\ table[t][1] \in Nat /\ i \in Nat
  BY <1>2, LenProperties
<1>4. GuidTypeOK'
  <2>1. /\ offset' \in [Threads -> Int] /\ first' \in [Threads -> Nat]
        /\ resolved' \in [Threads -> BOOLEAN]
    BY <1>1, <1>3 DEF ResolveOffset, Distance, GuidTypeOK
  <2>2. \A u \in Threads : first'[u] \in 0..Len(table[u])
    <3> TAKE u \in Threads
    <3>1. CASE u = t
      BY <3>1, <1>1, <1>2, <1>3
    <3>2. CASE u # t
      BY <3>2, <1>1 DEF GuidTypeOK
    <3> QED BY <3>1, <3>2
  <2> QED BY <1>1, <2>1, <2>2 DEF GuidTypeOK
<1>5. GuidsBelow' /\ Ascending' /\ Apart' /\ Distinct' /\ Even'
  <2>1. \A u \in Threads : EngineCells(u)' = EngineCells(u)
    BY <1>1 DEF EngineCells
  <2>2. GuidsBelow' /\ Apart'
    BY <1>1, <2>1 DEF GuidsBelow, Apart
  <2>3. Ascending' /\ Distinct' /\ Even'
    BY <1>1 DEF Ascending, Distinct, Even, Reading
  <2> QED BY <2>2, <2>3
<1>6. Offsets'
  BY <1>1 DEF Offsets, Distance
<1> QED BY <1>4, <1>5, <1>6

\* An engine has finitely many cells, and a table made of them is a sequence of
\* different ones (TableMaker::push).
LEMMA ArrangedCells ==
  ASSUME GuidsIInv, NEW t \in Threads, NEW s \in Arrangements(EngineCells(t))
  PROVE  /\ s \in Seq(Nat) /\ Cells(s) \subseteq EngineCells(t)
         /\ EngineCells(t) \subseteq Nat
         /\ \A i, n \in 1..Len(s) : s[i] = s[n] => i = n
<1> DEFINE S == EngineCells(t)
<1>1. guid \in Nat /\ table[t] \in Seq(Nat) /\ added[t] \in SUBSET Nat
  BY DEF GuidsIInv, GuidTypeOK
<1>2. S \subseteq Nat
  BY <1>1, CellsOfSeq DEF EngineCells
<1>3. S \subseteq 0..guid
  BY <1>1, <1>2 DEF GuidsIInv, GuidsBelow
<1>4. IsFiniteSet(S)
  <2>1. IsFiniteSet(0..guid)
    BY <1>1, FS_Interval
  <2> QED BY <1>3, <2>1, FS_Subset
<1>5. Cardinality(S) \in Nat
  BY <1>4, FS_CardinalityType
<1>6. PICK n \in 0..Cardinality(S) :
        s \in {x \in [1..n -> S] : \A i, k \in 1..n : x[i] = x[k] => i = k}
  BY DEF Arrangements
<1>7. n \in Nat /\ s \in [1..n -> S] /\ \A i, k \in 1..n : s[i] = s[k] => i = k
  BY <1>5, <1>6
<1>8. s \in Seq(S)
  BY <1>7, SeqDef
<1>9. Len(s) = n
  BY <1>7, <1>8, LenProperties
<1>10. s \in Seq(Nat)
  BY <1>2, <1>7, SeqDef
<1> QED
  BY <1>2, <1>7, <1>8, <1>9, <1>10, CellsOfSeq

\* reorganize makes a table of cells that are the engine's.
LEMMA ReorganizeKeeps ==
  ASSUME GuidsIInv, NEW t \in Threads, Reorganize(t)
  PROVE  GuidsIInv'
<1> USE DEF GuidsIInv
<1>1. PICK s \in Arrangements(EngineCells(t)) :
        /\ table' = [table EXCEPT ![t] = s]
        /\ added' = [added EXCEPT ![t] = EngineCells(t) \ Cells(s)]
        /\ reordered' = [reordered EXCEPT ![t] = @ \/ s # table[t]]
  BY DEF Reorganize
<1>2. /\ s \in Seq(Nat) /\ Cells(s) \subseteq EngineCells(t)
      /\ EngineCells(t) \subseteq Nat
      /\ \A i, n \in 1..Len(s) : s[i] = s[n] => i = n
  BY ArrangedCells
<1>3. /\ table'[t] = s /\ added'[t] = EngineCells(t) \ Cells(s) /\ first'[t] = 0
      /\ reordered'[t] <=> reordered[t] \/ s # table[t]
      /\ guid' = guid /\ todo' = todo /\ disturbed' = disturbed /\ resolved' = resolved
      /\ \A u \in Threads : u # t =>
           /\ table'[u] = table[u] /\ added'[u] = added[u] /\ first'[u] = first[u]
           /\ offset'[u] = offset[u] /\ (reordered'[u] <=> reordered[u])
  BY <1>1 DEF Reorganize, GuidTypeOK
<1>4. GuidTypeOK'
  <2>1. /\ table' \in [Threads -> Seq(Nat)] /\ added' \in [Threads -> SUBSET Nat]
        /\ first' \in [Threads -> Nat] /\ offset' \in [Threads -> Int]
        /\ reordered' \in [Threads -> BOOLEAN]
    BY <1>1, <1>2 DEF Reorganize, GuidTypeOK
  <2>2. Len(s) \in Nat
    BY <1>2, LenProperties
  <2>3. \A u \in Threads : first'[u] \in 0..Len(table'[u])
    BY <1>3, <2>2 DEF GuidTypeOK
  <2> QED BY <1>3, <2>1, <2>3 DEF GuidTypeOK
<1>5. /\ EngineCells(t)' = EngineCells(t)
      /\ \A u \in Threads : u # t =>
           EngineCells(u)' = EngineCells(u) /\ Cells(table[u])' = Cells(table[u])
      /\ Cells(table[t])' = Cells(s)
  BY <1>2, <1>3 DEF EngineCells
<1>6. GuidsBelow' /\ Apart'
  BY <1>3, <1>5 DEF GuidsBelow, Apart
<1>7. Distinct'
  BY <1>2, <1>3 DEF Distinct
<1>8. Ascending' /\ Even' /\ Offsets'
  <2>1. \A u \in Threads : ~reordered'[u] => ~reordered[u] /\ table'[u] = table[u]
    BY <1>3
  <2>2. Ascending'
    BY <2>1 DEF Ascending
  <2>3. Even'
    BY <1>3, <2>1 DEF Even, Reading
  <2>4. Offsets'
    BY <1>3 DEF Offsets, Distance
  <2> QED BY <2>2, <2>3, <2>4
<1> QED
  BY <1>4, <1>6, <1>7, <1>8

\* The invariant holds in every state, however the threads interleave (TableCell::new).
THEOREM GuidsInductive == GuidSpec => []GuidsIInv
<1>1. ASSUME GuidsIInv, [GuidNext]_guidVars PROVE GuidsIInv'
  <2>1. CASE UNCHANGED guidVars
    BY <1>1, <2>1 DEF guidVars, GuidsIInv, GuidTypeOK, GuidsBelow, Ascending, Apart, Distinct,
                      Even, Offsets, EngineCells, Reading, Distance
  <2>2. CASE GuidNext
    <3> PICK t \in Threads :
          \/ \E n \in Sizes : Open(t, n)
          \/ ReadEntry(t)
          \/ AddCell(t)
          \/ \E i \in 1..Len(table[t]) : ResolveOffset(t, i)
          \/ Reorganize(t)
      BY <2>2 DEF GuidNext
    <3> QED BY <1>1, OpenKeeps, ReadEntryKeeps, AddCellKeeps, ResolveOffsetKeeps,
                ReorganizeKeeps
  <2> QED BY <1>1, <2>1, <2>2
<1> QED BY InitGuids, <1>1, PTL DEF GuidSpec

\* For any number of threads, no two cells of any engines have one GUID.
THEOREM UniqueGuids == GuidSpec => []GuidsAreUnique
<1>1. GuidsIInv => GuidsAreUnique
  BY DEF GuidsIInv, Apart, Distinct, GuidsAreUnique
<1> QED BY <1>1, GuidsInductive, PTL

\* However threads interleave, an offset falls short of the distance only in a table
\* that reorganize has changed, and only because a later cell stands before an
\* earlier one; and only the first info is at offset 0 (PackagedEngine::resolve).
THEOREM ShortOnlyReordered == GuidSpec => []ShortOnlyIfReordered
<1>1. GuidsIInv => ShortOnlyIfReordered
  <2> SUFFICES ASSUME GuidsIInv, NEW t \in Threads, first[t] # 0
               PROVE  /\ offset[t] < first[t] - 1 =>
                           /\ reordered[t]
                           /\ \E i, n \in 1..first[t] : i < n /\ table[t][i] > table[t][n]
                      /\ offset[t] = 0 <=> first[t] = 1
    BY DEF ShortOnlyIfReordered
  <2>1. /\ table[t] \in Seq(Nat) /\ Len(table[t]) \in Nat
        /\ first[t] \in 1..Len(table[t]) /\ 1 \in 1..Len(table[t]) /\ first[t] >= 1
    BY LenProperties DEF GuidsIInv, GuidTypeOK
  <2>2. offset[t] = table[t][first[t]] - table[t][1]
    BY DEF GuidsIInv, Offsets, Distance
  <2>3. \A i \in 1..first[t] : i \in 1..Len(table[t]) /\ table[t][i] \in Nat
    BY <2>1, LenProperties
  <2>4. offset[t] = 0 <=> first[t] = 1
    BY <2>1, <2>2, <2>3 DEF GuidsIInv, Distinct
  <2>5. ASSUME offset[t] < first[t] - 1 PROVE reordered[t]
    <3> SUFFICES ASSUME ~reordered[t] PROVE FALSE
      OBVIOUS
    <3>1. table[t][first[t]] - table[t][1] >= first[t] - 1
      BY <2>1 DEF GuidsIInv, Ascending
    <3> QED BY <2>1, <2>2, <2>3, <2>5, <3>1
  <2>6. ASSUME offset[t] < first[t] - 1
        PROVE  \E i, n \in 1..first[t] : i < n /\ table[t][i] > table[t][n]
    <3> SUFFICES ASSUME \A i, n \in 1..first[t] : i < n => table[t][i] <= table[t][n]
                 PROVE  FALSE
      BY <2>3
    <3>1. first[t] \in Nat /\ \A i \in 1..first[t] : table[t][i] \in Nat
      BY <2>1, <2>3
    <3>2. \A i, n \in 1..first[t] : i < n => table[t][i] < table[t][n]
      BY <2>1, <2>3, <3>1 DEF GuidsIInv, Distinct
    <3>3. table[t][first[t]] - table[t][1] >= first[t] - 1
      BY <2>1, <3>1, <3>2, RisesByOne
    <3> QED BY <2>1, <2>2, <2>3, <2>6, <3>3
  <2> QED BY <2>4, <2>5, <2>6
<1> QED BY <1>1, GuidsInductive, PTL

\* An offset is exact unless another thread made a cell during the read, or
\* reorganize has changed the table since (PackagedEngine::resolve).
THEOREM ExactAlone == GuidSpec => []OffsetIsExactAlone
<1>1. GuidsIInv => OffsetIsExactAlone
  <2> SUFFICES ASSUME GuidsIInv, NEW t \in Threads, first[t] # 0, ~disturbed[t], ~reordered[t]
               PROVE  offset[t] = first[t] - 1
    BY DEF OffsetIsExactAlone
  <2>1. first[t] \in 1..Len(table[t]) /\ 1 \in 1..Len(table[t])
    BY LenProperties DEF GuidsIInv, GuidTypeOK
  <2>2. table[t][first[t]] - table[t][1] = first[t] - 1
    BY <2>1 DEF GuidsIInv, Even
  <2> QED BY <2>2 DEF GuidsIInv, Offsets, Distance
<1> QED BY <1>1, GuidsInductive, PTL

-----------------------------------------------------------------------------
(* HashKeys, for every width of the parts: the halves of a key never       *)
(* disturb each other, and the raw structures find the same index.         *)

(* Division with remainder. *)

\* A larger factor makes a larger product.
LEMMA ProductGrows ==
  ASSUME NEW n \in Nat \ {0}, NEW a \in Int, NEW b \in Int, a < b
  PROVE  n * a + n <= n * b
<1>1. b = a + 1 + (b - a - 1) /\ b - a - 1 \in Nat
  OBVIOUS
<1>2. PICK c \in Nat : b = a + 1 + c
  BY <1>1
<1>3. n * (a + 1 + c) = n * a + n + n * c
  OBVIOUS
<1>4. n * c >= 0
  OBVIOUS
<1> QED
  BY <1>2, <1>3, <1>4

\* There is one quotient and one remainder below the divisor.
LEMMA OneQuotient ==
  ASSUME NEW n \in Nat \ {0}, NEW p \in Int, NEW q \in Int,
         NEW r \in 0..(n - 1), NEW s \in 0..(n - 1), n * p + r = n * q + s
  PROVE  p = q /\ r = s
<1>1. ~(p < q)
  <2>1. SUFFICES ASSUME p < q PROVE FALSE
    OBVIOUS
  <2>2. n * p + n <= n * q
    BY <2>1, ProductGrows
  <2>3. n * p \in Int /\ n * q \in Int
    OBVIOUS
  <2> QED
    BY <2>2, <2>3
<1>2. ~(q < p)
  <2>1. SUFFICES ASSUME q < p PROVE FALSE
    OBVIOUS
  <2>2. n * q + n <= n * p
    BY <2>1, ProductGrows
  <2>3. n * p \in Int /\ n * q \in Int
    OBVIOUS
  <2> QED
    BY <2>2, <2>3
<1>3. p = q
  BY <1>1, <1>2
<1>4. n * p \in Int
  OBVIOUS
<1> QED
  BY <1>3, <1>4

\* What the provers know of div and %.
LEMMA Division ==
  ASSUME NEW n \in Nat \ {0}, NEW x \in Int
  PROVE  /\ x \div n \in Int /\ x % n \in 0..(n - 1)
         /\ x = n * (x \div n) + (x % n)
  OBVIOUS

\* The quotient and the remainder of a sum made of the two.
LEMMA Divided ==
  ASSUME NEW n \in Nat \ {0}, NEW q \in Int, NEW r \in 0..(n - 1)
  PROVE  (r + n * q) % n = r /\ (r + n * q) \div n = q
<1> DEFINE x == r + n * q
<1>1. x \in Int /\ n * q \in Int
  OBVIOUS
<1>2. /\ x \div n \in Int /\ x % n \in 0..(n - 1)
      /\ x = n * (x \div n) + (x % n)
  BY <1>1, Division
<1>3. n * (x \div n) + (x % n) = n * q + r
  BY <1>1, <1>2
<1> HIDE DEF x
<1>4. x \div n = q /\ x % n = r
  BY <1>2, <1>3, OneQuotient
<1> QED
  BY <1>4 DEF x

-----------------------------------------------------------------------------
(* The parts of a key. *)

\* The hash has room for something.
LEMMA Spans ==
  /\ WordSpan \in Nat \ {0} /\ LenSpan \in Nat \ {0} /\ IndexSpan \in Nat \ {0}
  /\ HashSpan \in Nat \ {0}
  BY SpansOK DEF HashSpan

\* An index is cut to its width.
LEMMA Remainder ==
  ASSUME NEW i \in Nat
  PROVE  i % IndexSpan \in 0..(IndexSpan - 1)
<1> QED
  BY Spans, Division

\* HashKey::new, hash and index undo each other, and the key is a word.
LEMMA PartsOfNew ==
  ASSUME NEW h \in Hash40, NEW i \in Nat
  PROVE  /\ Hash(h + Shifted(i)) = h
         /\ Index(h + Shifted(i)) = i % IndexSpan
         /\ h + Shifted(i) \in 0..(HashSpan * IndexSpan - 1)
<1> DEFINE n == HashSpan
           q == i % IndexSpan
<1>1. n \in Nat \ {0} /\ q \in 0..(IndexSpan - 1) /\ h \in 0..(n - 1)
  BY Spans, Remainder DEF Hash40
<1>2. IndexSpan \in Nat \ {0}
  BY Spans
<1>3. Shifted(i) = n * q
  BY DEF Shifted
<1> HIDE DEF n, q
<1>4. (h + n * q) % n = h /\ (h + n * q) \div n = q
  BY <1>1, Divided
<1>5. n * q + n <= n * IndexSpan /\ n * q \in Nat /\ n * IndexSpan \in Nat
  BY <1>1, <1>2, ProductGrows
<1>6. h + n * q \in 0..(n * IndexSpan - 1)
  BY <1>1, <1>5
<1> QED
  BY <1>3, <1>4, <1>6 DEF Hash, Index, n, q

-----------------------------------------------------------------------------
(* The invariant says outright what a key is made of. *)

KeysIInv ==
  /\ hash \in Hash40 /\ index \in Indices
  /\ key = hash + Shifted(index)

\* The invariant: a key is its two halves; it implies the properties.
LEMMA Implied ==
  ASSUME KeysIInv
  PROVE  KeyTypeOK /\ HalvesAreApart
<1>1. hash \in Hash40 /\ index \in Nat /\ index \in Indices
  BY SpansOK DEF KeysIInv
<1> QED
  BY <1>1, PartsOfNew DEF KeysIInv, KeyTypeOK, HalvesAreApart

\* A new key is its two halves.
LEMMA InitKeys ==
  ASSUME KeyInit
  PROVE  KeysIInv
<1> QED
  BY DEF KeyInit, New, KeysIInv

\* set_hash and set_index replace one half.
LEMMA KeysNext ==
  ASSUME KeysIInv, [KeyNext]_keyVars
  PROVE  KeysIInv'
<1>1. Hash(key) = hash /\ hash \in Hash40 /\ index \in Indices
  BY Implied DEF HalvesAreApart, KeysIInv
<1>2. CASE \E h \in Hash40 : SetHash(h)
  <2>1. PICK h \in Hash40 : SetHash(h)
    BY <1>2
  <2>2. key' = key - Hash(key) + h /\ hash' = h /\ index' = index
    BY <2>1 DEF SetHash, WithHash
  <2>3. Shifted(index) \in Int /\ hash \in Int /\ h \in Int
    <3>1. index % IndexSpan \in Int /\ HashSpan \in Int
      BY <1>1, SpansOK, Spans, Remainder
    <3>2. HashSpan * (index % IndexSpan) \in Int
      BY <3>1
    <3> QED
      BY <1>1, <3>2 DEF Shifted, Hash40
  <2>4. key' = h + Shifted(index)
    BY <1>1, <2>2, <2>3 DEF KeysIInv
  <2> QED
    BY <1>1, <2>2, <2>4 DEF KeysIInv, Shifted
<1>3. CASE \E i \in Indices : SetIndex(i)
  <2>1. PICK i \in Indices : SetIndex(i)
    BY <1>3
  <2> QED
    BY <1>1, <2>1 DEF SetIndex, WithIndex, KeysIInv, Shifted
<1>4. CASE UNCHANGED keyVars
  BY <1>4 DEF KeysIInv, keyVars, Shifted
<1> QED
  BY <1>2, <1>3, <1>4 DEF KeyNext

\* A key is its two halves after any sequence of calls (HashKey).
THEOREM KeysInductive == KeySpec => []KeysIInv
<1> QED
  BY InitKeys, KeysNext, PTL DEF KeySpec

\* A key is a word, whatever index is put into it.
THEOREM KeyTypeCorrect == KeySpec => []KeyTypeOK
<1> QED
  BY KeysInductive, Implied, PTL

\* Whatever the widths of the two halves, and whatever indices a client stores:
\* the hash of a key is the one it was given last, and its index is the one it was
\* given last as far as that has room.
THEOREM HalvesApart == KeySpec => []HalvesAreApart
<1> QED
  BY KeysInductive, Implied, PTL

\* The quotient by the word and then by the length is that by both.
LEMMA TwoQuotients ==
  ASSUME NEW x \in Nat
  PROVE  (x \div WordSpan) \div LenSpan = x \div HashSpan
<1> DEFINE w == WordSpan
           l == LenSpan
           a == x \div w
           b == a \div l
<1>1. w \in Nat \ {0} /\ l \in Nat \ {0}
  BY Spans
<1>2. a \in Int /\ x % w \in 0..(w - 1) /\ x = w * a + (x % w)
  BY <1>1, Division
<1>3. b \in Int /\ a % l \in 0..(l - 1) /\ a = l * b + (a % l)
  BY <1>1, <1>2, Division
<1> DEFINE r == w * (a % l) + (x % w)
<1> HIDE DEF w, l, a, b
<1>4. PICK c \in 0..(l - 1), d \in 0..(w - 1) : a % l = c /\ x % w = d
  BY <1>2, <1>3
<1>5. r = w * c + d /\ a = l * b + c /\ x = w * a + d
  BY <1>2, <1>3, <1>4
<1>6. r \in 0..(w * l - 1)
  <2>1. c < l /\ c \in Int /\ l \in Int
    BY <1>1, <1>4
  <2>2. w * c + w <= w * l
    BY <1>1, <2>1, ProductGrows
  <2>3. w * c \in Nat /\ w * l \in Nat
    BY <1>1, <1>4
  <2> QED
    BY <1>1, <1>4, <1>5, <2>2, <2>3
<1>7. x = r + (w * l) * b
  <2>1. w * (l * b + c) = (w * l) * b + w * c
    BY <1>1, <1>3, <1>4
  <2> QED
    BY <1>1, <1>3, <1>4, <1>5, <2>1
<1>8. w * l \in Nat \ {0}
  BY <1>1
<1> HIDE DEF r
<1>9. (r + (w * l) * b) \div (w * l) = b
  BY <1>3, <1>6, <1>8, Divided
<1> QED
  BY <1>7, <1>9 DEF HashSpan, w, l, a, b

\* The index of the raw structures is that of the key.
THEOREM RawIndexIsIndex == KeySpec => []RawIndexAgrees
<1>1. ASSUME KeysIInv PROVE RawIndexAgrees
  <2>1. key \in Nat
    BY <1>1, Implied, Spans DEF KeyTypeOK
  <2> QED
    BY <2>1, TwoQuotients DEF RawIndexAgrees, RawIndex, LenAndIndex, Index
<1> QED
  BY <1>1, KeysInductive, PTL

-----------------------------------------------------------------------------
(* GlobalDecompressor: no thread is ever in a decompressor that is no longer *)
(* installed.                                                              *)

\* A thread that is in a decompressor holds the lock.
UsersHold == \A t \in Callers : using[t] # Nothing => t \in Holders

LockIInv == LockTypeOK /\ UsersHold /\ OneInUse

\* Every step of a thread keeps the invariant: the one that installs finds the lock
\* free, so that nobody is in the decompressor that goes (set_decompressor).
LEMMA LockStepKeeps ==
  ASSUME LockIInv, NEW t \in Callers, NEW d \in Decompressors,
         Decompress(t) \/ Fail(t) \/ GoesOn(t) \/ GetsIn(t) \/ SetDecompressor(t, d)
  PROVE  LockIInv'
<1>1. CASE Decompress(t)
  BY <1>1 DEF LockIInv, LockTypeOK, UsersHold, OneInUse, Holders, Decompress, At, Goes
<1>2. CASE Fail(t)
  BY <1>2 DEF LockIInv, LockTypeOK, UsersHold, OneInUse, Holders, Fail, At, Goes
<1>3. CASE Enter(t)
  BY <1>3 DEF LockIInv, LockTypeOK, UsersHold, OneInUse, Holders, Enter, At, Goes
<1>4. CASE Finish(t)
  BY <1>4, DefaultIsOne DEF LockIInv, LockTypeOK, UsersHold, OneInUse, Holders, Finish, At, Goes
<1>5. CASE Unwind(t)
  BY <1>5, DefaultIsOne DEF LockIInv, LockTypeOK, UsersHold, OneInUse, Holders, Unwind, At, Goes
<1>6. CASE Install(t)
  <2>1. \A u \in Callers : using[u] = Nothing
    BY <1>6 DEF LockIInv, UsersHold, Install, MayWrite
  <2> QED
    BY <1>6, <2>1 DEF LockIInv, LockTypeOK, UsersHold, OneInUse, Install, At, Goes
<1>7. CASE SetDecompressor(t, d)
  BY <1>7 DEF LockIInv, LockTypeOK, UsersHold, OneInUse, Holders, SetDecompressor, At, Goes
<1> QED
  BY <1>1, <1>2, <1>3, <1>4, <1>5, <1>6, <1>7 DEF GoesOn, GetsIn

\* The invariant holds in every state (LockSpec).
THEOREM LockInductive == LockSpec => []LockIInv
<1>1. LockInit => LockIInv
  BY DefaultIsOne DEF LockInit, LockIInv, LockTypeOK, UsersHold, OneInUse, Holders
<1>2. LockIInv /\ [LockNext]_lockVars => LockIInv'
  <2> SUFFICES ASSUME LockIInv, [LockNext]_lockVars PROVE LockIInv'
    OBVIOUS
  <2>1. CASE UNCHANGED lockVars
    BY <2>1 DEF lockVars, LockIInv, LockTypeOK, UsersHold, OneInUse, Holders
  <2>2. CASE LockNext
    BY <2>2, LockStepKeeps, DefaultIsOne DEF LockNext, Begins
  <2> QED BY <2>1, <2>2
<1> QED BY <1>1, <1>2, PTL DEF LockSpec

\* For any number of threads: who is in a decompressor is in the one that is
\* installed (decompress_data, set_decompressor).
THEOREM OneDecompressor == LockSpec => []OneInUse
<1>1. LockIInv => OneInUse
  BY DEF LockIInv
<1> QED BY <1>1, LockInductive, PTL

-----------------------------------------------------------------------------
(* BucketMap: the buckets do not show - for every number of buckets and       *)
(* every set of hashes they implement a map.                                *)


\* bucket_for_hash stays within the vector.
LEMMA BucketInBounds ==
  ASSUME NEW bs, Len(bs) \in Nat \ {0}, NEW hk \in Nat
  PROVE  BucketForHash(bs, hk) \in 1..Len(bs)
BY DEF BucketForHash

\* A bucket, seen as what it answers.
LEMMA BucketLookup ==
  ASSUME NEW map \in Bucket, NEW hk
  PROVE  /\ DOMAIN map \subseteq Hashes
         /\ Lookup(map, hk) \in Values \cup {Absent}
         /\ hk \in DOMAIN map <=> Lookup(map, hk) # Absent
         /\ hk \in DOMAIN map => Lookup(map, hk) = map[hk]
<1>1. PICK keys \in SUBSET Hashes : map \in [keys -> Values]
  BY DEF Bucket
<1>2. DOMAIN map = keys /\ \A x \in keys : map[x] \in Values
  BY <1>1
<1> QED
  BY <1>2, AbsentIsNoValue DEF Lookup

\* BTreeMap::insert and remove of one bucket.
LEMMA BucketInsert ==
  ASSUME NEW map \in Bucket, NEW hk \in Hashes, NEW value \in Values
  PROVE  /\ Insert(map, hk, value) \in Bucket
         /\ DOMAIN Insert(map, hk, value) = DOMAIN map \cup {hk}
         /\ Lookup(Insert(map, hk, value), hk) = value
         /\ \A x : x # hk =>
              Lookup(Insert(map, hk, value), x) = Lookup(map, x)
<1> DEFINE new == Insert(map, hk, value)
<1>1. PICK keys \in SUBSET Hashes : map \in [keys -> Values]
  BY DEF Bucket
<1>2. new \in [keys \cup {hk} -> Values]
  BY <1>1 DEF Insert
<1>3. keys \cup {hk} \in SUBSET Hashes
  BY <1>1
<1>4. new \in Bucket
  BY <1>2, <1>3 DEF Bucket
<1>5. DOMAIN new = DOMAIN map \cup {hk}
  BY DEF Insert
<1>6. new[hk] = value /\ \A x \in DOMAIN map : x # hk => new[x] = map[x]
  BY DEF Insert
<1> QED
  BY <1>4, <1>5, <1>6 DEF Lookup

\* BTreeMap::remove of one bucket.
LEMMA BucketRemove ==
  ASSUME NEW map \in Bucket, NEW hk
  PROVE  /\ Without(map, hk) \in Bucket
         /\ DOMAIN Without(map, hk) \subseteq DOMAIN map
         /\ Lookup(Without(map, hk), hk) = Absent
         /\ \A x : x # hk => Lookup(Without(map, hk), x) = Lookup(map, x)
<1> DEFINE new == Without(map, hk)
<1>1. PICK keys \in SUBSET Hashes : map \in [keys -> Values]
  BY DEF Bucket
<1>2. new \in [keys \ {hk} -> Values]
  BY <1>1 DEF Without
<1>3. keys \ {hk} \in SUBSET Hashes
  BY <1>1
<1>4. new \in Bucket
  BY <1>2, <1>3 DEF Bucket
<1>5. DOMAIN new = DOMAIN map \ {hk} /\ \A x \in DOMAIN new : new[x] = map[x]
  BY DEF Without
<1> QED
  BY <1>4, <1>5 DEF Lookup

-----------------------------------------------------------------------------
IInv == BucketTypeOK /\ InOwnBucket

\* A new bucket has no entry.
LEMMA EmptyBucket == EmptyMap \in Bucket /\ DOMAIN EmptyMap = {}
<1>1. EmptyMap \in [{} -> Values] /\ {} \in SUBSET Hashes
  BY DEF EmptyMap
<1> QED
  BY <1>1 DEF Bucket, EmptyMap

\* BucketInit: the buckets of a new map are empty.
LEMMA InitIInv == BucketInit => IInv
<1> SUFFICES ASSUME BucketInit PROVE IInv
  OBVIOUS
<1>1. PICK n \in BucketCounts : buckets = NewMap(n)
  BY DEF BucketInit
<1>2. n \in Nat /\ n > 0
  BY SomeBuckets
<1>3. buckets \in [1..n -> Bucket] /\ \A b \in 1..n : DOMAIN buckets[b] = {}
  BY <1>1, EmptyBucket DEF NewMap
<1>4. buckets \in Seq(Bucket) /\ Len(buckets) = n
  BY <1>2, <1>3, SeqDef, LenProperties
<1>5. image.entries \in Bucket /\ Len(image.bounds) = 0 /\ open = TRUE
  BY EmptyBucket, EmptySeq DEF BucketInit
<1> QED
  BY <1>2, <1>3, <1>4, <1>5 DEF BucketInit, IInv, BucketTypeOK, InOwnBucket

\* What is known of the buckets in every state of the invariant.
LEMMA OfIInv ==
  ASSUME IInv
  PROVE  /\ Len(buckets) \in Nat /\ Len(buckets) > 0
         /\ \A b \in 1..Len(buckets) : buckets[b] \in Bucket
         /\ \A hk \in Hashes :
              /\ hk \in Nat
              /\ BucketForHash(buckets, hk) \in 1..Len(buckets)
              /\ buckets[BucketForHash(buckets, hk)] \in Bucket
<1>1. /\ Len(buckets) \in Nat /\ Len(buckets) > 0
      /\ \A b \in 1..Len(buckets) : buckets[b] \in Bucket
  BY LenProperties DEF IInv, BucketTypeOK
<1>2. \A hk \in Hashes : hk \in Nat
  BY HashesAreNumbers
<1> QED
  BY <1>1, <1>2, BucketInBounds

\* One bucket replaced: the rest of the vector is as it was.
LEMMA ReplaceBucket ==
  ASSUME IInv, NEW hk \in Hashes, NEW new \in Bucket,
         DOMAIN new \subseteq DOMAIN buckets[BucketForHash(buckets, hk)] \cup {hk},
         buckets' = [buckets EXCEPT ![BucketForHash(buckets, hk)] = new]
  PROVE  /\ buckets' \in Seq(Bucket) /\ Len(buckets') = Len(buckets)
         /\ InOwnBucket'
         /\ \A x \in Hashes :
              Get(buckets', x) = IF BucketForHash(buckets, x) = BucketForHash(buckets, hk)
                                   THEN Lookup(new, x) ELSE Get(buckets, x)
<1> DEFINE b == BucketForHash(buckets, hk)
<1>1. /\ Len(buckets) \in Nat /\ Len(buckets) > 0 /\ b \in 1..Len(buckets)
      /\ buckets \in Seq(Bucket)
  BY OfIInv DEF IInv, BucketTypeOK
<1>2. buckets \in [1..Len(buckets) -> Bucket]
  BY <1>1, LenProperties
<1>3. /\ buckets' \in [1..Len(buckets) -> Bucket]
      /\ buckets'[b] = new
      /\ \A c \in 1..Len(buckets) : c # b => buckets'[c] = buckets[c]
  BY <1>1, <1>2
<1>4. buckets' \in Seq(Bucket) /\ Len(buckets') = Len(buckets)
  BY <1>1, <1>3, SeqDef, LenProperties
<1>5. \A x : BucketForHash(buckets', x) = BucketForHash(buckets, x)
  BY <1>4 DEF BucketForHash
<1>6. InOwnBucket'
  <2> SUFFICES ASSUME NEW c \in 1..Len(buckets), NEW x \in DOMAIN buckets'[c]
               PROVE  BucketForHash(buckets, x) = c
    BY <1>4, <1>5 DEF InOwnBucket
  <2>1. CASE c = b
    BY <2>1, <1>1, <1>3 DEF IInv, InOwnBucket
  <2>2. CASE c # b
    BY <2>2, <1>3 DEF IInv, InOwnBucket
  <2> QED BY <2>1, <2>2
<1>7. ASSUME NEW x \in Hashes
      PROVE  Get(buckets', x) = IF BucketForHash(buckets, x) = b THEN Lookup(new, x)
                                ELSE Get(buckets, x)
  <2>1. BucketForHash(buckets, x) \in 1..Len(buckets)
    BY OfIInv
  <2> HIDE DEF b
  <2> QED BY <1>3, <1>5, <2>1 DEF Get
<1> QED
  BY <1>4, <1>6, <1>7

\* Only the hk itself can be answered differently.
LEMMA PutValue ==
  ASSUME IInv, NEW hk \in Hashes, NEW new \in Bucket, NEW value,
         DOMAIN new \subseteq DOMAIN buckets[BucketForHash(buckets, hk)] \cup {hk},
         Lookup(new, hk) = value,
         \A x : x # hk =>
           Lookup(new, x) = Lookup(buckets[BucketForHash(buckets, hk)], x),
         buckets' = [buckets EXCEPT ![BucketForHash(buckets, hk)] = new]
  PROVE  \A x \in Hashes :
           Get(buckets', x) = IF x = hk THEN value ELSE Get(buckets, x)
<1> TAKE x \in Hashes
<1>1. Get(buckets', x) = IF BucketForHash(buckets, x) = BucketForHash(buckets, hk)
                           THEN Lookup(new, x) ELSE Get(buckets, x)
  BY ReplaceBucket
<1> QED
  BY <1>1 DEF Get

-----------------------------------------------------------------------------
\* What insert and remove do to the map.
LEMMA InsertStep ==
  ASSUME IInv, NEW hk \in Hashes, NEW value \in Values, InsertValue(hk, value)
  PROVE  /\ IInv'
         /\ returned' = Get(buckets, hk)
         /\ \A x \in Hashes :
              Get(buckets', x) = IF x = hk THEN value ELSE Get(buckets, x)
<1> DEFINE b == BucketForHash(buckets, hk)
           new == Insert(buckets[b], hk, value)
<1>1. b \in 1..Len(buckets) /\ buckets[b] \in Bucket
  BY OfIInv
<1>2. /\ new \in Bucket /\ DOMAIN new = DOMAIN buckets[b] \cup {hk}
      /\ Lookup(new, hk) = value
      /\ \A x : x # hk => Lookup(new, x) = Lookup(buckets[b], x)
  BY <1>1, BucketInsert
<1>3. /\ buckets' = [buckets EXCEPT ![b] = new]
      /\ returned' = Lookup(buckets[b], hk) /\ image' = image /\ open' = open
  BY DEF InsertValue
<1>4. /\ buckets' \in Seq(Bucket) /\ Len(buckets') = Len(buckets) /\ InOwnBucket'
  BY <1>2, <1>3, ReplaceBucket
<1>5. \A x \in Hashes : Get(buckets', x) = IF x = hk THEN value ELSE Get(buckets, x)
  BY <1>2, <1>3, PutValue
<1>6. returned' \in Values \cup {Absent}
  BY <1>1, <1>3, BucketLookup
<1> QED
  BY <1>3, <1>4, <1>5, <1>6 DEF IInv, BucketTypeOK, Get

\* remove: the key is gone, nothing else changes.
LEMMA RemoveStep ==
  ASSUME IInv, NEW hk \in Hashes, Remove(hk)
  PROVE  /\ IInv'
         /\ returned' = Get(buckets, hk)
         /\ \A x \in Hashes :
              Get(buckets', x) = IF x = hk THEN Absent ELSE Get(buckets, x)
<1> DEFINE b == BucketForHash(buckets, hk)
           new == Without(buckets[b], hk)
<1>1. b \in 1..Len(buckets) /\ buckets[b] \in Bucket
  BY OfIInv
<1>2. /\ new \in Bucket /\ DOMAIN new \subseteq DOMAIN buckets[b]
      /\ Lookup(new, hk) = Absent
      /\ \A x : x # hk => Lookup(new, x) = Lookup(buckets[b], x)
  BY <1>1, BucketRemove
<1>3. /\ buckets' = [buckets EXCEPT ![b] = new]
      /\ returned' = Lookup(buckets[b], hk) /\ image' = image /\ open' = open
  BY DEF Remove
<1>4. /\ buckets' \in Seq(Bucket) /\ Len(buckets') = Len(buckets) /\ InOwnBucket'
  BY <1>2, <1>3, ReplaceBucket
<1>5. \A x \in Hashes : Get(buckets', x) = IF x = hk THEN Absent ELSE Get(buckets, x)
  <2>1. DOMAIN new \subseteq DOMAIN buckets[b] \cup {hk}
    BY <1>2
  <2>2. \A x : x # hk => Lookup(new, x) = Lookup(buckets[b], x)
    BY <1>2
  <2>3. new \in Bucket /\ Lookup(new, hk) = Absent
    BY <1>2
  <2>4. buckets' = [buckets EXCEPT ![b] = new]
    BY <1>3
  <2> HIDE DEF new
  <2>5. ASSUME NEW x \in Hashes
        PROVE  Get(buckets', x) = IF BucketForHash(buckets, x) = b THEN Lookup(new, x)
                                  ELSE Get(buckets, x)
    BY <2>1, <2>3, <2>4, ReplaceBucket
  <2> QED BY <2>2, <2>3, <2>5 DEF Get
<1>6. returned' \in Values \cup {Absent}
  BY <1>1, <1>3, BucketLookup
<1>7. returned' = Get(buckets, hk)
  BY <1>3 DEF Get
<1>8. IInv'
  <2> HIDE DEF new, b
  <2> QED BY <1>3, <1>4, <1>6 DEF IInv, BucketTypeOK
<1> QED
  BY <1>5, <1>7, <1>8

\* The table of paths holds what the map held when it was written.
LEMMA SaveStep ==
  ASSUME IInv, NEW form, Save(form)
  PROVE  /\ IInv' /\ open /\ ~open' /\ returned' = returned
         /\ \A x \in Hashes : Lookup(image'.entries, x) = Get(buckets, x)
<1>1. /\ image'.entries = Entries(buckets) /\ image'.bounds = Bounds(buckets, form)
      /\ open /\ ~open' /\ buckets' = buckets /\ returned' = returned
      /\ open' \in BOOLEAN
  BY DEF Save
<1>2. \A x \in Hashes : Get(buckets, x) \in Values \cup {Absent}
  BY OfIInv, BucketLookup DEF Get
<1> DEFINE keys == {h \in Hashes : Get(buckets, h) # Absent}
<1>3. Entries(buckets) \in [keys -> Values] /\ keys \in SUBSET Hashes
  BY <1>2 DEF Entries
<1>4. Entries(buckets) \in Bucket
  BY <1>3 DEF Bucket
<1>5. Len(buckets) \in Nat /\ Len(buckets) > 0
  BY OfIInv
<1>6. Len(Bounds(buckets, form)) = Len(buckets)
  <2>1. DOMAIN Bounds(buckets, form) = 1..Len(buckets)
    BY DEF Bounds
  <2>2. Bounds(buckets, form)
          \in [1..Len(buckets) -> {Bounds(buckets, form)[b] : b \in 1..Len(buckets)}]
    BY DEF Bounds
  <2> QED BY <1>5, <2>1, <2>2, SeqDef, LenProperties
<1>7. \A x \in Hashes : Lookup(Entries(buckets), x) = Get(buckets, x)
  BY <1>3 DEF Entries, Lookup
<1>8. IInv'
  BY <1>1, <1>4, <1>5, <1>6 DEF IInv, BucketTypeOK, InOwnBucket, BucketForHash
<1> QED
  BY <1>1, <1>7, <1>8

\* A map of any number of buckets filled from a table has the table's entries.
LEMMA RefilledMap ==
  ASSUME NEW n \in Nat \ {0}, NEW entries \in Bucket
  PROVE  /\ Refilled(n, entries) \in Seq(Bucket) /\ Len(Refilled(n, entries)) = n
         /\ \A b \in 1..n : \A hk \in DOMAIN Refilled(n, entries)[b] :
              BucketForHash(Refilled(n, entries), hk) = b
         /\ \A x \in Hashes : Get(Refilled(n, entries), x) = Lookup(entries, x)
<1> DEFINE bs == Refilled(n, entries)
           stays(b) == {h \in DOMAIN entries : (h % n) + 1 = b}
<1>1. PICK keys \in SUBSET Hashes : entries \in [keys -> Values]
  BY DEF Bucket
<1>2. ASSUME NEW b \in 1..n
      PROVE  /\ bs[b] \in Bucket /\ DOMAIN bs[b] = stays(b)
             /\ \A h \in stays(b) : bs[b][h] = entries[h]
  <2>1. bs[b] = [hk \in stays(b) |-> entries[hk]]
    BY DEF Refilled
  <2>2. stays(b) \in SUBSET Hashes /\ \A h \in stays(b) : entries[h] \in Values
    BY <1>1
  <2>3. bs[b] \in [stays(b) -> Values]
    BY <2>1, <2>2
  <2> QED BY <2>1, <2>2, <2>3 DEF Bucket
<1>3. bs \in [1..n -> Bucket]
  BY <1>2 DEF Refilled
<1>4. bs \in Seq(Bucket) /\ Len(bs) = n
  BY <1>3, SeqDef, LenProperties
<1>5. \A x : BucketForHash(bs, x) = (x % n) + 1
  BY <1>4 DEF BucketForHash
<1>6. ASSUME NEW x \in Hashes PROVE Get(bs, x) = Lookup(entries, x)
  <2>1. x \in Nat
    BY HashesAreNumbers
  <2>2. BucketForHash(bs, x) \in 1..n
    BY <2>1, <1>4, BucketInBounds
  <2>3. x \in DOMAIN bs[BucketForHash(bs, x)] <=> x \in DOMAIN entries
    BY <2>2, <1>2, <1>5
  <2> QED BY <2>2, <2>3, <1>2 DEF Get, Lookup
<1> QED
  BY <1>2, <1>4, <1>5, <1>6

\* A read: the map is what the table of paths says.
LEMMA LoadStep ==
  ASSUME IInv, Load
  PROVE  /\ IInv' /\ ~open /\ open' /\ returned' = returned
         /\ \A x \in Hashes : Get(buckets', x) = Lookup(image.entries, x)
<1>1. /\ ~open /\ open' /\ returned' = returned /\ image' = image
      /\ buckets' = Refilled(Len(image.bounds), image.entries)
      /\ open' \in BOOLEAN
  BY DEF Load
<1>2. Len(image.bounds) \in Nat \ {0} /\ image.entries \in Bucket
  BY <1>1 DEF IInv, BucketTypeOK
<1> QED
  BY ZenonT(60), <1>1, <1>2, RefilledMap DEF IInv, BucketTypeOK, InOwnBucket

\* The invariant holds after any sequence of calls, saves and reads.
THEOREM Inductive == BucketSpec => []IInv
<1>1. ASSUME IInv, [BucketNext]_bucketVars PROVE IInv'
  <2>1. CASE UNCHANGED bucketVars
    BY <1>1, <2>1 DEF bucketVars, IInv, BucketTypeOK, InOwnBucket, BucketForHash
  <2>2. ASSUME NEW hk \in Hashes, Remove(hk) PROVE IInv'
    BY <1>1, <2>2, RemoveStep
  <2>3. ASSUME NEW hk \in Hashes, NEW value \in Values, InsertValue(hk, value)
        PROVE IInv'
    BY <1>1, <2>3, InsertStep
  <2>4. ASSUME NEW form \in {"memory", "directory"}, Save(form) PROVE IInv'
    BY <1>1, <2>4, SaveStep
  <2>5. CASE Load
    BY <1>1, <2>5, LoadStep
  <2> QED BY <1>1, <2>1, <2>2, <2>3, <2>4, <2>5 DEF BucketNext
<1> QED BY InitIInv, <1>1, PTL DEF BucketSpec

\* Every entry is in the bucket its hk is looked for in, whatever the number
\* of buckets the archive was read with.
THEOREM EntriesAreFound == BucketSpec => [](BucketTypeOK /\ InOwnBucket)
<1>1. IInv => BucketTypeOK /\ InOwnBucket
  BY DEF IInv
<1> QED BY <1>1, Inductive, PTL

\* A step of the buckets is a step of the map, or none.
LEMMA StepRefines ==
  ASSUME IInv, [BucketNext]_bucketVars
  PROVE  [Abstract!Next]_<<AsMap, returned>>
<1>1. CASE UNCHANGED bucketVars
  BY <1>1 DEF bucketVars, AsMap, Get, BucketForHash
<1>2. ASSUME NEW hk \in Hashes, NEW value \in Values \cup {Absent},
             open, open',
             returned' = Get(buckets, hk),
             \A x \in Hashes :
               Get(buckets', x) = IF x = hk THEN value ELSE Get(buckets, x)
      PROVE  Abstract!Next
  <2>1. AsMap = [x \in Hashes |-> Get(buckets, x)]
    BY <1>2 DEF AsMap
  <2>2. AsMap' = [x \in Hashes |-> Get(buckets', x)]
    BY <1>2 DEF AsMap
  <2>3. AsMap' = [AsMap EXCEPT ![hk] = value]
    BY <1>2, <2>1, <2>2
  <2>4. returned' = AsMap[hk]
    BY <1>2, <2>1
  <2> QED BY <2>3, <2>4 DEF Abstract!Next, Abstract!Put
<1>3. ASSUME NEW hk \in Hashes, Remove(hk) PROVE Abstract!Next
  <2>1. open /\ open'
    BY <1>3 DEF Remove
  <2> QED BY <1>2, <1>3, <2>1, RemoveStep
<1>4. ASSUME NEW hk \in Hashes, NEW value \in Values, InsertValue(hk, value)
      PROVE Abstract!Next
  <2>1. open /\ open'
    BY <1>4 DEF InsertValue
  <2> QED BY <1>2, <1>4, <2>1, InsertStep
<1>5. ASSUME NEW form \in {"memory", "directory"}, Save(form)
      PROVE  AsMap' = AsMap /\ returned' = returned
  BY <1>5, SaveStep DEF AsMap
<1>6. ASSUME Load PROVE AsMap' = AsMap /\ returned' = returned
  BY <1>6, LoadStep DEF AsMap
<1> QED
  BY <1>1, <1>3, <1>4, <1>5, <1>6 DEF BucketNext

\* A new map is an empty one.
LEMMA InitRefines == BucketInit => Abstract!Init
<1> SUFFICES ASSUME BucketInit PROVE Abstract!Init
  OBVIOUS
<1>1. PICK n \in BucketCounts : buckets = NewMap(n)
  BY DEF BucketInit
<1>2. Len(buckets) = n /\ n \in Nat \ {0} /\ \A b \in 1..n : buckets[b] = EmptyMap
  <2>1. n \in Nat \ {0} /\ buckets = [b \in 1..n |-> EmptyMap]
    BY <1>1, SomeBuckets DEF NewMap
  <2>2. buckets \in Seq({EmptyMap}) /\ Len(buckets) = n
    BY <2>1, SeqDef, LenProperties
  <2> QED BY <2>1, <2>2
<1>3. \A x \in Hashes : Get(buckets, x) = Absent
  <2> TAKE x \in Hashes
  <2>1. BucketForHash(buckets, x) \in 1..n
    BY <1>2, HashesAreNumbers, BucketInBounds
  <2> QED BY <1>2, <2>1, EmptyBucket DEF Get, Lookup
<1> QED
  BY <1>3 DEF BucketInit, Abstract!Init, AsMap

\* For every set of hashes and every number of buckets, of the run's own map
\* and of every archive it is read back from, a BucketMap is a map.
THEOREM MapIsImplemented == BucketSpec => ImplementsMap
<1>1. BucketInit => Abstract!Init
  BY InitRefines
<1>2. IInv /\ [BucketNext]_bucketVars => [Abstract!Next]_<<AsMap, returned>>
  BY StepRefines
<1> QED
  BY <1>1, <1>2, Inductive, PTL DEF BucketSpec, ImplementsMap, Abstract!Spec

-----------------------------------------------------------------------------
(* The lookup as it is written: every entry has a place of its own, and the  *)
(* places of a bucket are where its bounds say.                            *)

\* The entries of all buckets, and those that iter() gives before one.
AllEntries(bs) ==
  {e \in (DOMAIN bs) \X Hashes : e[2] \in DOMAIN bs[e[1]]}

Earlier(bs, b, hk) ==
  {e \in AllEntries(bs) : e[1] < b \/ (e[1] = b /\ e[2] < hk)}

EarlierBuckets(bs, b) == {e \in AllEntries(bs) : e[1] < b}

\* A vector of buckets with finitely many entries, as it is in memory.
IsFilled(bs) ==
  /\ bs \in Seq(Bucket)
  /\ \A b \in 1..Len(bs) : IsFiniteSet(DOMAIN bs[b])

\* Such a vector has finitely many entries.
LEMMA FiniteEntries ==
  ASSUME NEW bs, IsFilled(bs)
  PROVE  /\ IsFiniteSet(AllEntries(bs))
         /\ DOMAIN bs = 1..Len(bs) /\ Len(bs) \in Nat
         /\ \A b \in 1..Len(bs) : DOMAIN bs[b] \subseteq Hashes
         /\ Hashes \subseteq Nat
<1>1. DOMAIN bs = 1..Len(bs) /\ Len(bs) \in Nat /\ \A b \in 1..Len(bs) : bs[b] \in Bucket
  BY LenProperties DEF IsFilled
<1>2. \A b \in 1..Len(bs) : DOMAIN bs[b] \subseteq Hashes
  BY <1>1, BucketLookup
<1> DEFINE Names == {DOMAIN bs[b] : b \in 1..Len(bs)}
<1>3. IsFiniteSet(1..Len(bs))
  BY <1>1, FS_Interval
<1>4. IsFiniteSet(Names)
  <2> DEFINE m == [b \in 1..Len(bs) |-> DOMAIN bs[b]]
  <2>1. m \in Surjection(1..Len(bs), Names)
    BY DEF Surjection
  <2> QED BY <1>3, <2>1, FS_Surjection
<1>5. \A S \in Names : IsFiniteSet(S)
  BY DEF IsFilled
<1>6. IsFiniteSet(UNION Names)
  BY <1>4, <1>5, FS_UNION
<1>7. IsFiniteSet((1..Len(bs)) \X (UNION Names))
  BY <1>3, <1>6, FS_Product
<1>8. AllEntries(bs) \in SUBSET ((1..Len(bs)) \X (UNION Names))
  BY <1>1 DEF AllEntries
<1>9. IsFiniteSet(AllEntries(bs))
  BY <1>7, <1>8, FS_Subset
<1> QED
  BY <1>1, <1>2, <1>9, HashesAreNumbers

\* The set that Before counts.
LEMMA CountedBefore ==
  ASSUME NEW bs, IsFilled(bs), NEW b
  PROVE  /\ Before(bs, b) = Cardinality(EarlierBuckets(bs, b))
         /\ IsFiniteSet(EarlierBuckets(bs, b))
         /\ Before(bs, b) \in Nat
<1>1. EarlierBuckets(bs, b)
        = {p \in (DOMAIN bs) \X Hashes : p[2] \in DOMAIN bs[p[1]] /\ p[1] < b}
  BY DEF EarlierBuckets, AllEntries
<1>2. EarlierBuckets(bs, b) \in SUBSET AllEntries(bs)
  BY DEF EarlierBuckets
<1>3. IsFiniteSet(EarlierBuckets(bs, b))
  BY <1>2, FiniteEntries, FS_Subset
<1> QED
  BY <1>1, <1>3, FS_CardinalityType DEF Before

\* As many entries of one bucket as there are names.
LEMMA OfOneBucket ==
  ASSUME NEW b, NEW S, IsFiniteSet(S)
  PROVE  /\ IsFiniteSet({b} \X S)
         /\ Cardinality({b} \X S) = Cardinality(S)
         /\ Cardinality(S) \in Nat
<1>1. IsFiniteSet({b}) /\ Cardinality({b}) = 1
  BY FS_Singleton
<1>2. Cardinality(S) \in Nat
  BY FS_CardinalityType
<1>3. IsFiniteSet({b} \X S) /\ Cardinality({b} \X S) = 1 * Cardinality(S)
  BY <1>1, FS_Product
<1> QED
  BY <1>2, <1>3

\* Two sets apart are counted one after the other.
LEMMA CountsAdd ==
  ASSUME NEW S, NEW T, IsFiniteSet(S), IsFiniteSet(T), S \cap T = {}
  PROVE  IsFiniteSet(S \cup T) /\ Cardinality(S \cup T) = Cardinality(S) + Cardinality(T)
<1>1. Cardinality(S \cap T) = 0
  BY FS_EmptySet
<1>2. Cardinality(S) \in Nat /\ Cardinality(T) \in Nat
  BY FS_CardinalityType
<1>3. /\ IsFiniteSet(S \cup T)
      /\ Cardinality(S \cup T)
           = Cardinality(S) + Cardinality(T) - Cardinality(S \cap T)
  BY FS_Union
<1> QED
  BY <1>1, <1>2, <1>3

\* The set that Place counts.
LEMMA CountedPlace ==
  ASSUME NEW bs, IsFilled(bs), NEW b \in 1..Len(bs), NEW hk \in Nat
  PROVE  /\ Place(bs, b, hk) = Cardinality(Earlier(bs, b, hk))
         /\ IsFiniteSet(Earlier(bs, b, hk))
         /\ Place(bs, b, hk) \in Nat
<1> DEFINE S == {x \in DOMAIN bs[b] : x < hk}
<1>1. IsFiniteSet(S)
  <2>1. S \in SUBSET (DOMAIN bs[b])
    OBVIOUS
  <2> QED BY <2>1, FS_Subset DEF IsFilled
<1>2. /\ IsFiniteSet({b} \X S) /\ Cardinality({b} \X S) = Cardinality(S)
  BY <1>1, OfOneBucket
<1>3. Earlier(bs, b, hk) = EarlierBuckets(bs, b) \cup ({b} \X S)
  <2>1. DOMAIN bs[b] \subseteq Hashes /\ DOMAIN bs = 1..Len(bs)
    BY FiniteEntries
  <2>2. ASSUME NEW e \in Earlier(bs, b, hk)
        PROVE  e \in EarlierBuckets(bs, b) \cup ({b} \X S)
    BY DEF Earlier, EarlierBuckets, AllEntries
  <2>3. ASSUME NEW e \in {b} \X S
        PROVE  e \in Earlier(bs, b, hk)
    BY <2>1 DEF Earlier, AllEntries
  <2> QED BY <2>2, <2>3 DEF Earlier, EarlierBuckets
<1>4. EarlierBuckets(bs, b) \cap ({b} \X S) = {}
  BY FiniteEntries DEF EarlierBuckets, AllEntries
<1>5. /\ IsFiniteSet(Earlier(bs, b, hk))
      /\ Cardinality(Earlier(bs, b, hk)) = Before(bs, b) + Cardinality(S)
  <2>1. PICK T : T = {b} \X S
    OBVIOUS
  <2>2. PICK R : R = EarlierBuckets(bs, b)
    OBVIOUS
  <2>3. /\ IsFiniteSet(R) /\ IsFiniteSet(T) /\ R \cap T = {}
        /\ Cardinality(R) = Before(bs, b)
    BY <1>2, <1>4, <2>1, <2>2, CountedBefore
  <2>4. IsFiniteSet(R \cup T) /\ Cardinality(R \cup T) = Cardinality(R) + Cardinality(T)
    BY <2>3, CountsAdd
  <2> QED BY <1>2, <1>3, <2>1, <2>2, <2>3, <2>4
<1> QED
  BY <1>5, FS_CardinalityType DEF Place

\* The next bucket begins where this one ends.
LEMMA NextBefore ==
  ASSUME NEW bs, IsFilled(bs), NEW b \in 1..Len(bs)
  PROVE  /\ Before(bs, b + 1) = Before(bs, b) + Cardinality(DOMAIN bs[b])
         /\ Cardinality(DOMAIN bs[b]) \in Nat
<1> DEFINE S == DOMAIN bs[b]
<1>1. IsFiniteSet(S)
  BY DEF IsFilled
<1>2. /\ IsFiniteSet({b} \X S) /\ Cardinality({b} \X S) = Cardinality(S)
      /\ Cardinality(S) \in Nat
  BY <1>1, OfOneBucket
<1>3. EarlierBuckets(bs, b + 1) = EarlierBuckets(bs, b) \cup ({b} \X S)
  <2>1. DOMAIN bs[b] \subseteq Hashes /\ DOMAIN bs = 1..Len(bs) /\ Len(bs) \in Nat
    BY FiniteEntries
  <2>2. ASSUME NEW e \in EarlierBuckets(bs, b + 1)
        PROVE  e \in EarlierBuckets(bs, b) \cup ({b} \X S)
    BY <2>1 DEF EarlierBuckets, AllEntries
  <2>3. ASSUME NEW e \in {b} \X S
        PROVE  e \in EarlierBuckets(bs, b + 1)
    BY <2>1 DEF EarlierBuckets, AllEntries
  <2>4. ASSUME NEW e \in EarlierBuckets(bs, b)
        PROVE  e \in EarlierBuckets(bs, b + 1)
    BY <2>1 DEF EarlierBuckets, AllEntries
  <2> QED BY <2>2, <2>3, <2>4
<1>4. EarlierBuckets(bs, b) \cap ({b} \X S) = {}
  BY FiniteEntries DEF EarlierBuckets, AllEntries
<1> QED
  BY <1>2, <1>3, <1>4, CountedBefore, CountsAdd

\* A set within another is not larger, and smaller if something is left out.
LEMMA CountsMore ==
  ASSUME NEW T, IsFiniteSet(T), NEW S, S \subseteq T
  PROVE  /\ Cardinality(S) \in Nat /\ Cardinality(T) \in Nat
         /\ Cardinality(S) <= Cardinality(T)
         /\ S # T => Cardinality(S) < Cardinality(T)
<1>1. IsFiniteSet(S) /\ Cardinality(S) <= Cardinality(T)
      /\ (Cardinality(S) = Cardinality(T) => S = T)
  BY FS_Subset
<1>2. Cardinality(S) \in Nat /\ Cardinality(T) \in Nat
  BY <1>1, FS_CardinalityType
<1> QED
  BY <1>1, <1>2

\* Entries keep the order of their buckets and, within one, of their hashes.
LEMMA PlacesAscend ==
  ASSUME NEW bs, IsFilled(bs), NEW d \in AllEntries(bs), NEW e \in AllEntries(bs),
         d[1] < e[1] \/ (d[1] = e[1] /\ d[2] < e[2])
  PROVE  Place(bs, d[1], d[2]) < Place(bs, e[1], e[2])
<1>1. /\ d[1] \in 1..Len(bs) /\ e[1] \in 1..Len(bs) /\ Len(bs) \in Nat
      /\ d[2] \in Nat /\ e[2] \in Nat
  BY FiniteEntries DEF AllEntries
<1>2. Earlier(bs, d[1], d[2]) \subseteq Earlier(bs, e[1], e[2])
  <2> SUFFICES ASSUME NEW x \in AllEntries(bs),
                      x[1] < d[1] \/ (x[1] = d[1] /\ x[2] < d[2])
               PROVE  x[1] < e[1] \/ (x[1] = e[1] /\ x[2] < e[2])
    BY DEF Earlier
  <2>1. x[1] \in 1..Len(bs) /\ x[2] \in Nat
    BY FiniteEntries DEF AllEntries
  <2> QED BY <1>1, <2>1
<1>3. d \in Earlier(bs, e[1], e[2]) /\ d \notin Earlier(bs, d[1], d[2])
  BY <1>1 DEF Earlier
<1>4. /\ IsFiniteSet(Earlier(bs, e[1], e[2]))
      /\ Place(bs, e[1], e[2]) = Cardinality(Earlier(bs, e[1], e[2]))
      /\ Place(bs, d[1], d[2]) = Cardinality(Earlier(bs, d[1], d[2]))
  BY <1>1, CountedPlace
<1>5. Cardinality(Earlier(bs, d[1], d[2])) < Cardinality(Earlier(bs, e[1], e[2]))
  BY <1>2, <1>3, <1>4, CountsMore
<1> QED
  BY <1>4, <1>5

\* No two entries have one place.
LEMMA PlacesDiffer ==
  ASSUME NEW bs, IsFilled(bs), NEW d \in AllEntries(bs), NEW e \in AllEntries(bs),
         Place(bs, d[1], d[2]) = Place(bs, e[1], e[2])
  PROVE  d = e
<1>1. /\ d[1] \in 1..Len(bs) /\ e[1] \in 1..Len(bs) /\ Len(bs) \in Nat
      /\ d[2] \in Nat /\ e[2] \in Nat /\ d = <<d[1], d[2]>> /\ e = <<e[1], e[2]>>
  <2>1. d \in (DOMAIN bs) \X Hashes /\ e \in (DOMAIN bs) \X Hashes
    BY DEF AllEntries
  <2>2. d = <<d[1], d[2]>> /\ e = <<e[1], e[2]>>
    BY <2>1
  <2> QED BY <2>1, <2>2, FiniteEntries
<1>2. /\ Place(bs, d[1], d[2]) \in Nat /\ Place(bs, e[1], e[2]) \in Nat
  BY <1>1, CountedPlace
<1>3. ~(d[1] < e[1] \/ (d[1] = e[1] /\ d[2] < e[2]))
  BY <1>2, PlacesAscend
<1>4. ~(e[1] < d[1] \/ (e[1] = d[1] /\ e[2] < d[2]))
  BY <1>2, PlacesAscend
<1> QED
  BY <1>1, <1>3, <1>4

\* The places of a bucket are those between its beginning and its end.
LEMMA PlaceInBucket ==
  ASSUME NEW bs, IsFilled(bs), NEW e \in AllEntries(bs), NEW b \in 1..Len(bs)
  PROVE  /\ Place(bs, e[1], e[2]) \in Nat
         /\ e[1] = b <=> /\ Before(bs, b) <= Place(bs, e[1], e[2])
                         /\ Place(bs, e[1], e[2]) < Before(bs, b + 1)
<1>1. /\ e[1] \in 1..Len(bs) /\ Len(bs) \in Nat /\ e[2] \in Nat
      /\ DOMAIN bs = 1..Len(bs)
  BY FiniteEntries DEF AllEntries
<1> DEFINE here == Earlier(bs, e[1], e[2])
<1>2. /\ Place(bs, e[1], e[2]) = Cardinality(here) /\ IsFiniteSet(here)
      /\ Place(bs, e[1], e[2]) \in Nat
  BY <1>1, CountedPlace
<1>3. \A c : /\ Before(bs, c) = Cardinality(EarlierBuckets(bs, c))
             /\ IsFiniteSet(EarlierBuckets(bs, c))
  BY CountedBefore
<1>4. ASSUME NEW c \in Int, e[1] < c PROVE Place(bs, e[1], e[2]) < Before(bs, c)
  <2>1. here \subseteq EarlierBuckets(bs, c)
    <3> SUFFICES ASSUME NEW x \in here PROVE x \in EarlierBuckets(bs, c)
      OBVIOUS
    <3>1. x \in AllEntries(bs) /\ (x[1] < e[1] \/ x[1] = e[1])
      BY DEF Earlier
    <3>2. x[1] \in 1..Len(bs)
      BY <3>1, <1>1 DEF AllEntries
    <3> QED BY <1>1, <1>4, <3>1, <3>2 DEF EarlierBuckets
  <2>2. e \in EarlierBuckets(bs, c) /\ e \notin here
    BY <1>1, <1>4 DEF EarlierBuckets, Earlier
  <2> QED BY <1>2, <1>3, <2>1, <2>2, CountsMore
<1>5. ASSUME NEW c \in Int, c <= e[1] PROVE Before(bs, c) <= Place(bs, e[1], e[2])
  <2>1. EarlierBuckets(bs, c) \subseteq here
    <3> SUFFICES ASSUME NEW x \in EarlierBuckets(bs, c) PROVE x \in here
      OBVIOUS
    <3>1. x \in AllEntries(bs) /\ x[1] < c
      BY DEF EarlierBuckets
    <3>2. x[1] \in 1..Len(bs)
      BY <3>1, <1>1 DEF AllEntries
    <3> QED BY <1>1, <1>5, <3>1, <3>2 DEF Earlier
  <2> QED BY <1>2, <1>3, <2>1, CountsMore
<1>6. Before(bs, b) \in Nat /\ Before(bs, b + 1) \in Nat
  BY CountedBefore
<1>7. CASE e[1] < b
  BY <1>1, <1>2, <1>4, <1>6, <1>7
<1>8. CASE e[1] = b
  BY <1>1, <1>2, <1>4, <1>5, <1>6, <1>8
<1>9. CASE e[1] > b
  <2>1. b + 1 <= e[1] /\ b + 1 \in Int
    BY <1>1, <1>9
  <2>2. Before(bs, b + 1) <= Place(bs, e[1], e[2])
    BY <2>1, <1>5
  <2> QED BY <1>1, <1>2, <1>6, <1>9, <2>2
<1> QED
  BY <1>1, <1>2, <1>7, <1>8, <1>9

\* Every place is that of an entry: there are as many places as entries.
LEMMA PlaceIsTaken ==
  ASSUME NEW bs, IsFilled(bs), NEW n \in 0..(Before(bs, Len(bs) + 1) - 1)
  PROVE  \E e \in AllEntries(bs) : Place(bs, e[1], e[2]) = n
<1> DEFINE A == AllEntries(bs)
           total == Before(bs, Len(bs) + 1)
           m == [e \in A |-> Place(bs, e[1], e[2])]
<1>1. IsFiniteSet(A) /\ DOMAIN bs = 1..Len(bs) /\ Len(bs) \in Nat
  BY FiniteEntries
<1>2. total = Cardinality(A) /\ total \in Nat
  <2>1. EarlierBuckets(bs, Len(bs) + 1) = A
    BY <1>1 DEF EarlierBuckets, AllEntries
  <2> QED BY <2>1, CountedBefore
<1>3. ASSUME NEW e \in A PROVE m[e] \in 0..(total - 1)
  <2>1. e[1] \in 1..Len(bs) /\ e[2] \in Nat
    BY FiniteEntries DEF AllEntries
  <2>2. /\ Place(bs, e[1], e[2]) = Cardinality(Earlier(bs, e[1], e[2]))
        /\ Place(bs, e[1], e[2]) \in Nat
    BY <2>1, CountedPlace
  <2>3. Earlier(bs, e[1], e[2]) \subseteq A /\ e \notin Earlier(bs, e[1], e[2])
    BY <2>1 DEF Earlier
  <2>4. Cardinality(Earlier(bs, e[1], e[2])) < Cardinality(A)
    BY <1>1, <2>3, CountsMore
  <2> QED BY <1>2, <2>2, <2>4
<1>4. \A d, e \in A : m[d] = m[e] => d = e
  BY PlacesDiffer
<1>5. m \in Injection(A, 0..(total - 1))
  <2>1. m \in [A -> 0..(total - 1)]
    BY <1>3
  <2> QED BY <1>4, <2>1 DEF Injection, IsInjective
<1>6. IsFiniteSet(0..(total - 1)) /\ Cardinality(0..(total - 1)) = total
  BY <1>2, FS_Interval
<1>7. m \in Surjection(A, 0..(total - 1))
  BY <1>2, <1>5, <1>6, FS_Injection
<1> QED
  BY <1>7 DEF Surjection

\* The key written at a place is the hash of the entry whose place it is.
LEMMA KeyOfPlace ==
  ASSUME NEW bs, IsFilled(bs)
  PROVE  /\ \A i \in 1..Before(bs, Len(bs) + 1) :
              \E e \in AllEntries(bs) :
                Place(bs, e[1], e[2]) = i - 1 /\ KeysInOrder(bs)[i] = e[2]
         /\ \A e \in AllEntries(bs) :
              /\ Place(bs, e[1], e[2]) + 1 \in 1..Before(bs, Len(bs) + 1)
              /\ KeysInOrder(bs)[Place(bs, e[1], e[2]) + 1] = e[2]
<1> DEFINE total == Before(bs, Len(bs) + 1)
           at(i, hk) == \E b \in DOMAIN bs : hk \in DOMAIN bs[b] /\ Place(bs, b, hk) = i - 1
<1>1. /\ total \in Nat /\ DOMAIN bs = 1..Len(bs) /\ Len(bs) \in Nat
  BY CountedBefore, FiniteEntries
<1>2. ASSUME NEW i \in 1..total
      PROVE  \E e \in AllEntries(bs) :
               Place(bs, e[1], e[2]) = i - 1 /\ KeysInOrder(bs)[i] = e[2]
  <2>1. KeysInOrder(bs)[i] = CHOOSE hk \in Hashes : at(i, hk)
    BY DEF KeysInOrder
  <2>2. i - 1 \in 0..(total - 1)
    BY <1>1
  <2>3. PICK e \in AllEntries(bs) : Place(bs, e[1], e[2]) = i - 1
    BY <2>2, PlaceIsTaken
  <2>4. e[2] \in Hashes /\ at(i, e[2])
    BY <2>3 DEF AllEntries
  <2>5. /\ KeysInOrder(bs)[i] \in Hashes /\ at(i, KeysInOrder(bs)[i])
    BY <2>1, <2>4
  <2>6. PICK b \in DOMAIN bs : /\ KeysInOrder(bs)[i] \in DOMAIN bs[b]
                               /\ Place(bs, b, KeysInOrder(bs)[i]) = i - 1
    BY <2>5
  <2>7. <<b, KeysInOrder(bs)[i]>> \in AllEntries(bs)
    BY <2>5, <2>6 DEF AllEntries
  <2> QED BY <2>6, <2>7
<1>3. ASSUME NEW e \in AllEntries(bs)
      PROVE  /\ Place(bs, e[1], e[2]) + 1 \in 1..total
             /\ KeysInOrder(bs)[Place(bs, e[1], e[2]) + 1] = e[2]
  <2>1. e[1] \in 1..Len(bs) /\ e[2] \in Nat
    BY <1>1, FiniteEntries DEF AllEntries
  <2>2. PICK n \in Nat : n = Place(bs, e[1], e[2])
    BY <2>1, CountedPlace
  <2>3. n < total
    <3>1. n = Cardinality(Earlier(bs, e[1], e[2]))
      BY <2>1, <2>2, CountedPlace
    <3>2. /\ Earlier(bs, e[1], e[2]) \subseteq AllEntries(bs)
          /\ e \notin Earlier(bs, e[1], e[2])
      BY <2>1 DEF Earlier
    <3>3. EarlierBuckets(bs, Len(bs) + 1) = AllEntries(bs)
      BY <1>1 DEF EarlierBuckets, AllEntries
    <3> QED BY <3>1, <3>2, <3>3, CountedBefore, FiniteEntries, CountsMore
  <2>4. n + 1 \in 1..total /\ (n + 1) - 1 = n
    BY <1>1, <2>3
  <2>5. PICK d \in AllEntries(bs) :
          Place(bs, d[1], d[2]) = n /\ KeysInOrder(bs)[n + 1] = d[2]
    BY <2>4, <1>2
  <2>6. d = e
    BY <2>2, <2>5, PlacesDiffer
  <2> QED BY <2>2, <2>4, <2>5, <2>6
<1> QED
  BY <1>2, <1>3

\* The bounds of a bucket, as a reader of either form takes them.
LEMMA WrittenBounds ==
  ASSUME NEW bs, IsFilled(bs), NEW form, NEW b \in 1..Len(bs)
  PROVE  LET bounds == Bounds(bs, form)
         IN /\ bounds[b][1] = Before(bs, b)
            /\ Before(bs, b) \in Nat /\ Before(bs, b + 1) \in Nat
            /\ Before(bs, b + 1)
                 = IF form = "memory" THEN bounds[b][1] + bounds[b][2] ELSE bounds[b][2]
<1>1. /\ Before(bs, b) \in Nat /\ Before(bs, b + 1) \in Nat
      /\ Before(bs, b + 1) = Before(bs, b) + Cardinality(DOMAIN bs[b])
  BY CountedBefore, NextBefore
<1>2. Bounds(bs, form)[b]
        = <<Before(bs, b), IF form = "memory" THEN Cardinality(DOMAIN bs[b])
                           ELSE Before(bs, b) + Cardinality(DOMAIN bs[b])>>
  BY DEF Bounds
<1> QED
  BY <1>1, <1>2

\* The buckets begin one after the other.
LEMMA BeforeGrows ==
  ASSUME NEW bs, IsFilled(bs), NEW b \in 1..Len(bs)
  PROVE  Before(bs, b + 1) <= Before(bs, Len(bs) + 1)
<1>1. DOMAIN bs = 1..Len(bs) /\ Len(bs) \in Nat
  BY FiniteEntries
<1>2. EarlierBuckets(bs, b + 1) \subseteq EarlierBuckets(bs, Len(bs) + 1)
  BY <1>1 DEF EarlierBuckets, AllEntries
<1>3. /\ Before(bs, b + 1) = Cardinality(EarlierBuckets(bs, b + 1))
      /\ Before(bs, Len(bs) + 1) = Cardinality(EarlierBuckets(bs, Len(bs) + 1))
      /\ IsFiniteSet(EarlierBuckets(bs, Len(bs) + 1))
  BY CountedBefore
<1> QED
  BY <1>2, <1>3, CountsMore

\* The keys between the bounds of a bucket are its hashes, in their order.
LEMMA KeysOfBucket ==
  ASSUME NEW bs, IsFilled(bs), NEW b \in 1..Len(bs)
  PROVE  /\ \A i \in (Before(bs, b) + 1)..Before(bs, b + 1) :
              KeysInOrder(bs)[i] \in DOMAIN bs[b]
         /\ \A hk \in DOMAIN bs[b] :
              \E i \in (Before(bs, b) + 1)..Before(bs, b + 1) : KeysInOrder(bs)[i] = hk
         /\ \A x, y \in (Before(bs, b) + 1)..Before(bs, b + 1) :
              x < y => KeysInOrder(bs)[x] < KeysInOrder(bs)[y]
<1>1. /\ DOMAIN bs = 1..Len(bs) /\ Len(bs) \in Nat
      /\ DOMAIN bs[b] \subseteq Hashes /\ Hashes \subseteq Nat
      /\ Before(bs, b) \in Nat /\ Before(bs, b + 1) \in Nat
      /\ Before(bs, Len(bs) + 1) \in Nat
  BY FiniteEntries, CountedBefore
<1>2. ASSUME NEW i \in (Before(bs, b) + 1)..Before(bs, b + 1)
      PROVE  /\ KeysInOrder(bs)[i] \in DOMAIN bs[b]
             /\ <<b, KeysInOrder(bs)[i]>> \in AllEntries(bs)
             /\ Place(bs, b, KeysInOrder(bs)[i]) = i - 1
  <2>1. i \in 1..Before(bs, Len(bs) + 1)
    BY <1>1, BeforeGrows
  <2>2. PICK e \in AllEntries(bs) :
          Place(bs, e[1], e[2]) = i - 1 /\ KeysInOrder(bs)[i] = e[2]
    BY <2>1, KeyOfPlace
  <2>3. Before(bs, b) <= i - 1 /\ i - 1 < Before(bs, b + 1)
    BY <1>1
  <2>4. e[1] = b
    BY <2>2, <2>3, PlaceInBucket
  <2>5. e \in (DOMAIN bs) \X Hashes /\ e[2] \in DOMAIN bs[e[1]]
    BY DEF AllEntries
  <2>6. e = <<e[1], e[2]>>
    BY <2>5
  <2> QED BY <2>2, <2>4, <2>5, <2>6
<1>3. ASSUME NEW hk \in DOMAIN bs[b]
      PROVE  \E i \in (Before(bs, b) + 1)..Before(bs, b + 1) : KeysInOrder(bs)[i] = hk
  <2>1. PICK e : e = <<b, hk>>
    OBVIOUS
  <2>2. e[1] = b /\ e[2] = hk /\ e \in AllEntries(bs)
    BY <1>1, <2>1 DEF AllEntries
  <2>3. PICK n \in Nat : n = Place(bs, e[1], e[2])
    BY <2>2, PlaceInBucket
  <2>4. Before(bs, b) <= n /\ n < Before(bs, b + 1)
    BY <2>2, <2>3, PlaceInBucket
  <2>5. KeysInOrder(bs)[n + 1] = hk
    BY <2>2, <2>3, KeyOfPlace
  <2>6. n + 1 \in (Before(bs, b) + 1)..Before(bs, b + 1)
    BY <1>1, <2>4
  <2> QED BY <2>5, <2>6
<1>4. ASSUME NEW x \in (Before(bs, b) + 1)..Before(bs, b + 1),
             NEW y \in (Before(bs, b) + 1)..Before(bs, b + 1), x < y
      PROVE  KeysInOrder(bs)[x] < KeysInOrder(bs)[y]
  <2>1. PICK h \in Nat, g \in Nat : h = KeysInOrder(bs)[x] /\ g = KeysInOrder(bs)[y]
    BY <1>1, <1>2
  <2>2. PICK d, e : d = <<b, h>> /\ e = <<b, g>>
    OBVIOUS
  <2>3. /\ d \in AllEntries(bs) /\ e \in AllEntries(bs)
        /\ d[1] = b /\ d[2] = h /\ e[1] = b /\ e[2] = g
    BY <1>2, <2>1, <2>2
  <2>4. Place(bs, b, h) = x - 1 /\ Place(bs, b, g) = y - 1
    BY <1>2, <2>1
  <2>5. x \in Int /\ y \in Int
    BY <1>1
  <2>6. ASSUME g < h PROVE FALSE
    <3>1. Place(bs, b, g) < Place(bs, b, h)
      BY <2>3, <2>6, PlacesAscend
    <3> QED BY <1>4, <2>4, <2>5, <3>1
  <2>7. g # h
    BY <1>4, <2>4, <2>5
  <2> QED BY <2>1, <2>6, <2>7
<1> QED
  BY <1>2, <1>3, <1>4

\* What is saved leads a reader of either form to every entry.
LEMMA SavedKeys ==
  ASSUME IInv, IsFilled(buckets), NEW form \in {"memory", "directory"}, Save(form)
  PROVE  KeysFindEntries'
<1> DEFINE bounds == Bounds(buckets, form)
           keys == KeysInOrder(buckets)
<1>1. /\ image' = [form |-> form, keys |-> keys, bounds |-> bounds,
                   entries |-> Entries(buckets)]
  BY DEF Save
<1>2. /\ image'.form = form /\ image'.keys = keys /\ image'.bounds = bounds
      /\ image'.entries = Entries(buckets)
  BY <1>1
<1>3. Len(buckets) \in Nat /\ Len(buckets) > 0
  BY OfIInv
<1>4. Len(bounds) = Len(buckets)
  <2>1. bounds \in [1..Len(buckets) -> {bounds[b] : b \in 1..Len(buckets)}]
    BY DEF Bounds
  <2> QED BY <1>3, <2>1, SeqDef, LenProperties
<1>5. \A hk : BucketForHash(bounds, hk) = BucketForHash(buckets, hk)
  BY <1>4 DEF BucketForHash
<1>6. ASSUME NEW hk \in Hashes
      PROVE  /\ BucketForHash(buckets, hk) \in 1..Len(buckets)
             /\ hk \in DOMAIN Entries(buckets)
                  <=> hk \in DOMAIN buckets[BucketForHash(buckets, hk)]
  <2>1. /\ BucketForHash(buckets, hk) \in 1..Len(buckets)
        /\ buckets[BucketForHash(buckets, hk)] \in Bucket
    BY OfIInv
  <2>2. hk \in DOMAIN Entries(buckets) <=> Get(buckets, hk) # Absent
    BY DEF Entries
  <2> QED BY <2>1, <2>2, BucketLookup DEF Get
<1> DEFINE start(b) == bounds[b][1] + 1
           end(b) == IF form = "memory" THEN bounds[b][1] + bounds[b][2] ELSE bounds[b][2]
<1>7. ASSUME NEW b \in 1..Len(buckets)
      PROVE  start(b) = Before(buckets, b) + 1 /\ end(b) = Before(buckets, b + 1)
  BY WrittenBounds
<1> HIDE DEF bounds, keys
<1>8. ASSUME NEW b \in 1..Len(buckets)
      PROVE  \A x, y \in start(b)..end(b) : x < y => keys[x] < keys[y]
  BY <1>7, KeysOfBucket DEF keys
<1>9. ASSUME NEW hk \in Hashes
      PROVE  (\E i \in start(BucketForHash(buckets, hk))..end(BucketForHash(buckets, hk)) :
                keys[i] = hk)
               <=> hk \in DOMAIN Entries(buckets)
  BY <1>6, <1>7, KeysOfBucket DEF keys
<1> QED
  BY <1>2, <1>4, <1>5, <1>8, <1>9 DEF KeysFindEntries

\* Nothing but a save makes a lookup.
LEMMA SameLookup ==
  ASSUME image' = image, KeysFindEntries
  PROVE  KeysFindEntries'
BY DEF KeysFindEntries, BucketForHash

\* What is in memory, and on disk, are finitely many entries.
FilledIInv ==
  /\ IInv
  /\ IsFilled(buckets)
  /\ IsFiniteSet(DOMAIN image.entries)
  /\ KeysFindEntries

\* One bucket changed by at most one hash.
LEMMA StillFilled ==
  ASSUME IInv, IsFilled(buckets), NEW hk \in Hashes, NEW new \in Bucket,
         DOMAIN new \subseteq DOMAIN buckets[BucketForHash(buckets, hk)] \cup {hk},
         buckets' = [buckets EXCEPT ![BucketForHash(buckets, hk)] = new]
  PROVE  IsFilled(buckets')
<1> DEFINE b == BucketForHash(buckets, hk)
<1>1. /\ buckets' \in Seq(Bucket) /\ Len(buckets') = Len(buckets)
  BY ReplaceBucket
<1>2. b \in 1..Len(buckets) /\ DOMAIN buckets = 1..Len(buckets)
  BY OfIInv, FiniteEntries
<1>3. IsFiniteSet(DOMAIN buckets[b])
  BY <1>2 DEF IsFilled
<1>4. IsFiniteSet(DOMAIN new)
  <2>1. IsFiniteSet(DOMAIN buckets[b] \cup {hk})
    BY <1>3, FS_AddElement
  <2> QED BY <2>1, FS_Subset
<1>5. \A c \in 1..Len(buckets) : buckets'[c] = IF c = b THEN new ELSE buckets[c]
  BY <1>2
<1> QED
  BY <1>1, <1>4, <1>5 DEF IsFilled

\* A step of the buckets keeps them finite, and the lookup on disk right.
LEMMA FilledStep ==
  ASSUME FilledIInv, [BucketNext]_bucketVars
  PROVE  FilledIInv'
<1> USE DEF FilledIInv
<1>1. CASE UNCHANGED bucketVars
  BY <1>1, SameLookup
    DEF bucketVars, IInv, BucketTypeOK, InOwnBucket, BucketForHash, IsFilled
<1>2. ASSUME NEW hk \in Hashes, Remove(hk) PROVE FilledIInv'
  <2> DEFINE b == BucketForHash(buckets, hk)
  <2>1. /\ buckets' = [buckets EXCEPT ![b] = Without(buckets[b], hk)]
        /\ image' = image
    BY <1>2 DEF Remove
  <2>2. /\ Without(buckets[b], hk) \in Bucket
        /\ DOMAIN Without(buckets[b], hk) \subseteq DOMAIN buckets[b]
    BY OfIInv, BucketRemove
  <2>3. DOMAIN Without(buckets[b], hk) \subseteq DOMAIN buckets[b] \cup {hk}
    BY <2>2
  <2>4. IsFilled(buckets')
    BY <2>1, <2>2, <2>3, StillFilled
  <2>5. KeysFindEntries'
    BY <2>1, SameLookup
  <2> QED BY <1>2, <2>1, <2>4, <2>5, RemoveStep DEF IsFilled
<1>3. ASSUME NEW hk \in Hashes, NEW value \in Values, InsertValue(hk, value)
      PROVE FilledIInv'
  <2> DEFINE b == BucketForHash(buckets, hk)
  <2>1. /\ buckets' = [buckets EXCEPT ![b] = Insert(buckets[b], hk, value)]
        /\ image' = image
    BY <1>3 DEF InsertValue
  <2>2. /\ Insert(buckets[b], hk, value) \in Bucket
        /\ DOMAIN Insert(buckets[b], hk, value) \subseteq DOMAIN buckets[b] \cup {hk}
    BY OfIInv, BucketInsert
  <2>3. IsFilled(buckets')
    BY <2>1, <2>2, StillFilled
  <2>4. KeysFindEntries'
    BY <2>1, SameLookup
  <2> QED BY <1>3, <2>1, <2>3, <2>4, InsertStep DEF IsFilled
<1>4. ASSUME NEW form \in {"memory", "directory"}, Save(form) PROVE FilledIInv'
  <2>1. buckets' = buckets /\ image'.entries = Entries(buckets)
    BY <1>4 DEF Save
  <2>2. IsFiniteSet(DOMAIN Entries(buckets))
    <3> DEFINE Names == {e[2] : e \in AllEntries(buckets)}
               m == [e \in AllEntries(buckets) |-> e[2]]
    <3>1. m \in Surjection(AllEntries(buckets), Names)
      BY DEF Surjection
    <3>2. IsFiniteSet(Names)
      BY <3>1, FiniteEntries, FS_Surjection
    <3>3. ASSUME NEW hk \in DOMAIN Entries(buckets) PROVE hk \in Names
      <4>1. hk \in Hashes /\ Get(buckets, hk) # Absent
        BY DEF Entries
      <4>2. /\ BucketForHash(buckets, hk) \in 1..Len(buckets)
            /\ buckets[BucketForHash(buckets, hk)] \in Bucket
        BY <4>1, OfIInv
      <4>3. hk \in DOMAIN buckets[BucketForHash(buckets, hk)]
        BY <4>1, <4>2, BucketLookup DEF Get
      <4>4. PICK e : e = <<BucketForHash(buckets, hk), hk>>
        OBVIOUS
      <4>5. e \in AllEntries(buckets) /\ e[2] = hk
        BY <4>1, <4>2, <4>3, <4>4, FiniteEntries DEF AllEntries
      <4> QED BY <4>5
    <3> QED BY <3>2, <3>3, FS_Subset
  <2>3. KeysFindEntries'
    BY <1>4, SavedKeys
  <2> QED BY <1>4, <2>1, <2>2, <2>3, SaveStep DEF IsFilled
<1>5. CASE Load
  <2>1. /\ buckets' = Refilled(Len(image.bounds), image.entries)
        /\ image' = image /\ ~open
    BY <1>5 DEF Load
  <2>2. Len(image.bounds) \in Nat \ {0} /\ image.entries \in Bucket
    BY <2>1 DEF IInv, BucketTypeOK
  <2>3. buckets' \in Seq(Bucket) /\ Len(buckets') = Len(image.bounds)
    BY <2>1, <2>2, RefilledMap
  <2>4. ASSUME NEW b \in 1..Len(buckets') PROVE IsFiniteSet(DOMAIN buckets'[b])
    <3>1. DOMAIN buckets'[b] \subseteq DOMAIN image.entries
      BY <2>1, <2>3 DEF Refilled
    <3> QED BY <3>1, FS_Subset
  <2>5. KeysFindEntries'
    BY <2>1, SameLookup
  <2> QED BY <1>5, <2>1, <2>3, <2>4, <2>5, LoadStep DEF IsFilled
<1> QED
  BY <1>1, <1>2, <1>3, <1>4, <1>5 DEF BucketNext

\* A reader that searches the written keys by the written bounds finds every
\* entry, for any number of buckets and in both forms (PackagedWriter's
\* to_memory and to_directory).
THEOREM KeysAreFound == BucketSpec => []KeysFindEntries
<1>1. BucketInit => FilledIInv
  <2> SUFFICES ASSUME BucketInit PROVE FilledIInv
    OBVIOUS
  <2>1. IInv
    BY InitIInv
  <2>2. PICK n \in BucketCounts : buckets = NewMap(n)
    BY DEF BucketInit
  <2>3. \A b \in 1..Len(buckets) : buckets[b] = EmptyMap
    <3>1. n \in Nat /\ DOMAIN buckets = 1..n
      BY <2>2, SomeBuckets DEF NewMap
    <3>2. Len(buckets) = n
      BY <3>1, <2>1, LenProperties DEF IInv, BucketTypeOK
    <3> QED BY <2>2, <3>2 DEF NewMap
  <2>4. IsFilled(buckets)
    BY <2>1, <2>3, EmptyBucket, FS_EmptySet DEF IInv, BucketTypeOK, IsFilled
  <2>5. IsFiniteSet(DOMAIN image.entries) /\ image.form = "none"
    BY EmptyBucket, FS_EmptySet DEF BucketInit
  <2> QED BY <2>1, <2>4, <2>5 DEF FilledIInv, KeysFindEntries
<1>2. FilledIInv => KeysFindEntries
  BY DEF FilledIInv
<1> QED BY <1>1, <1>2, FilledStep, PTL DEF BucketSpec

-----------------------------------------------------------------------------
(* Locales: the three tables kept by hand agree. *)

Known == {LocaleNames[i] : i \in 1..14}

\* No two locales have one name, so that each has its number.
LEMMA NumberOfLocale ==
  ASSUME NEW i \in 1..14
  PROVE  /\ NumberOf(LocaleNames, LocaleNames[i]) = i - 1
         /\ LocaleNames[i] # "Invalid"
<1>1. Len(LocaleNames) = 14
  BY DEF LocaleNames
<1>2. \A n \in 1..14 : LocaleNames[n] = LocaleNames[i] => n = i
  BY DEF LocaleNames
<1>3. LocaleNames[i] # "Invalid"
  BY DEF LocaleNames
<1> QED
  BY <1>1, <1>2, <1>3 DEF NumberOf

\* Locale::as_str gives the code of the same place.
LEMMA CodeOfLocale ==
  ASSUME NEW i \in 1..14
  PROVE  AsStr(LocaleNames[i]) = LocaleCodes[i]
<1>1. AsStr(LocaleNames[i]) = LocaleCodes[(i - 1) + 1]
  BY NumberOfLocale DEF AsStr
<1> QED
  BY <1>1

\* Region::from_str of each region's code.
LEMMA RegionOfCode ==
  ASSUME NEW i \in 1..5
  PROVE  RegionFromStr(RegionCodes[i]) = RegionNames[i]
<1>1. Len(RegionCodes) = 5 /\ Len(RegionNames) = 5
  BY DEF RegionCodes, RegionNames
<1>2. \A n \in 1..5 : RegionCodes[n] = RegionCodes[i] <=> n = i
  BY DEF RegionCodes
<1>3. {n \in 1..Len(RegionCodes) : RegionCodes[n] = RegionCodes[i]} = {i}
  BY <1>1, <1>2
<1>4. RegionFromStr(RegionCodes[i]) = FromNumber(RegionNames, i - 1)
  BY <1>3 DEF RegionFromStr
<1> QED
  BY <1>1, <1>4 DEF FromNumber

\* Each locale's region is the one its code begins with.
LEMMA RegionsAgree ==
  ASSUME NEW l \in Known \cup {"Invalid"}
  PROVE  RegionOf(l) = RegionFromStr(AsStr(l)[1])
<1>1. CASE l = "Invalid"
  <2>1. AsStr(l)[1] = ""
    BY <1>1 DEF AsStr, NoCode
  <2>2. {i \in 1..Len(RegionCodes) : RegionCodes[i] = ""} = {}
    <3>1. Len(RegionCodes) = 5
      BY DEF RegionCodes
    <3>2. \A n \in 1..5 : RegionCodes[n] \in {"jp", "us", "eu", "kr", "zh"}
      BY DEF RegionCodes
    <3>3. "" \notin {"jp", "us", "eu", "kr", "zh"}
      OBVIOUS
    <3> QED BY <3>1, <3>2, <3>3
  <2> QED BY <1>1, <2>1, <2>2 DEF RegionFromStr, RegionOf
<1>2. ASSUME NEW i \in 1..14, l = LocaleNames[i]
      PROVE  RegionOf(l) = RegionFromStr(AsStr(l)[1])
  <2>1. AsStr(l)[1] = LocaleCodes[i][1]
    BY <1>2, CodeOfLocale
  <2>2. /\ RegionFromStr("jp") = "Japan" /\ RegionFromStr("us") = "NorthAmerica"
        /\ RegionFromStr("eu") = "Europe" /\ RegionFromStr("kr") = "Korea"
        /\ RegionFromStr("zh") = "China"
    <3>1. \A n \in 1..5 : RegionFromStr(RegionCodes[n]) = RegionNames[n]
      BY RegionOfCode
    <3> QED BY <3>1 DEF RegionCodes, RegionNames
  <2>3. RegionOf(l) = RegionFromStr(LocaleCodes[i][1])
    BY <1>2, <2>2 DEF RegionOf, LocaleNames, LocaleCodes
  <2> QED BY <2>1, <2>3
<1> QED
  BY <1>1, <1>2 DEF Known

\* What a client picks, by number or by code, is a locale that is known, or the
\* invalid one; and whichever it is, its region is that of its code
\* (From<Locale> for Region, Locale::as_str, Region::from_str).
THEOREM CodesAgree == LocaleSpec => []CodesAgreeWithRegions
<1> DEFINE PickedIInv == locale \in Known \cup {"Invalid"} /\ region = RegionOf(locale)
<1>1. LocaleInit => PickedIInv
  BY DEF LocaleInit, RegionOf
<1>2. ASSUME PickedIInv, [LocaleNext]_localeVars PROVE PickedIInv'
  <2>1. \A n \in -1..Len(LocaleNames) :
          FromNumber(LocaleNames, n) \in Known \cup {"Invalid"}
    BY DEF FromNumber, Known, LocaleNames
  <2>2. \A code : FromStr(code) \in Known \cup {"Invalid"}
    <3> TAKE code
    <3> DEFINE meant == IF code \in {"eu"} \X {"en", "fr", "es"} THEN <<"us", code[2]>>
                        ELSE code
               found == {i \in 1..Len(LocaleCodes) : LocaleCodes[i] = meant}
    <3>1. Len(LocaleCodes) = 14
      BY DEF LocaleCodes
    <3>2. CASE found = {}
      BY <3>2 DEF FromStr
    <3>3. CASE found # {}
      <4>1. (CHOOSE i \in found : TRUE) \in 1..14
        BY <3>1, <3>3
      <4> QED BY <3>3, <4>1 DEF FromStr, Known
    <3> QED BY <3>2, <3>3
  <2>3. ASSUME NEW n \in -1..Len(LocaleNames), PickNumber(n) PROVE PickedIInv'
    BY <2>1, <2>3 DEF PickNumber, Pick
  <2>4. CASE Keep
    BY <1>2, <2>4 DEF Keep
  <2>5. CASE PickKept
    BY <2>2, <2>5 DEF PickKept, Pick
  <2>6. CASE UNCHANGED localeVars
    BY <1>2, <2>6 DEF localeVars
  <2> QED BY <1>2, <2>3, <2>4, <2>5, <2>6 DEF LocaleNext
<1>3. PickedIInv => CodesAgreeWithRegions
  BY RegionsAgree DEF CodesAgreeWithRegions
<1> QED BY <1>1, <1>2, <1>3, PTL DEF LocaleSpec
=============================================================================
