-------------------------- MODULE PackagedFsProofs --------------------------
(***************************************************************************)
(* Proofs about PackagedFs, for every number of locales and regions, every  *)
(* image that parses, every liberty of the client and every bound.  What   *)
(* loops do is proved with the induction of Iteration.                     *)
(***************************************************************************)
EXTENDS PackagedFsInvariant, TablesProofs, WellFoundedInduction

-----------------------------------------------------------------------------
(* Positions and sums. *)

\* A set of indices that is not empty has a first one, and Min is one of them.
LEMMA MinIsLeast ==
  ASSUME NEW T, T \subseteq Nat, T # {}
  PROVE  Min(T) \in T /\ \A m \in T : Min(T) <= m
<1> DEFINE R == OpToRel(<, Nat)
<1>1. IsWellFoundedOn(R, Nat)
  BY NatLessThanWellFounded
<1>2. PICK n \in T : \A m \in T : ~(<<m, n>> \in R)
  <2> HIDE DEF R
  <2> QED BY <1>1, WFMin
<1>3. \A m \in T : ~(m < n)
  BY <1>2 DEF OpToRel
<1>4. \A m \in T : n <= m
  BY <1>3
<1> QED
  BY <1>2, <1>4 DEF Min

\* What the code calls the index of a cell is the place of it in the table.
LEMMA PositionIsIndex ==
  ASSUME NEW S, NEW s \in Seq(S), NEW c \in Cells(s)
  PROVE  /\ PositionOf(s, c) \in 0..(Len(s) - 1)
         /\ PositionOf(s, c) + 1 \in 1..Len(s)
         /\ s[PositionOf(s, c) + 1] = c
<1> DEFINE I == {i \in 1..Len(s) : s[i] = c}
<1>1. Len(s) \in Nat
  BY LenProperties
<1>2. I \subseteq Nat /\ I # {}
  BY <1>1 DEF Cells
<1>3. Min(I) \in I
  <2> HIDE DEF I
  <2> QED BY <1>2, MinIsLeast
<1>4. PositionOf(s, c) = Min(I) - 1
  BY <1>2 DEF PositionOf, SelectInSeq
<1>5. PICK n : n = Min(I)
  OBVIOUS
<1>6. n \in 1..Len(s) /\ s[n] = c /\ PositionOf(s, c) = n - 1
  BY <1>3, <1>4, <1>5
<1>7. (n - 1) + 1 = n /\ n - 1 \in 0..(Len(s) - 1)
  BY <1>1, <1>6
<1> QED
  BY <1>6, <1>7

IsCount(n) == n \in Nat
WithTable(image, n, t) == n + Len(image[t])

Sums == INSTANCE Iteration WITH
  step <- LAMBDA image, q, r, n, t : WithTable(image, n, t),
  Inv <- LAMBDA image, b, c, d, n, v : IsCount(v)

\* The tables of an image make as many cells as they have entries.
LEMMA CellsAreCounted ==
  ASSUME NEW image, IsImage(image)
  PROVE  LET order == ReadOrder(image.kind)
         IN /\ Len(order) = 10 /\ order \in Seq(TableNames)
            /\ Cells(order) = TableNames
            /\ \A n \in 0..10 : CellsBefore(image, n) \in Nat
            /\ \A n \in 0..9 : CellsBefore(image, n + 1)
                                 = CellsBefore(image, n) + Len(image[order[n + 1]])
<1> DEFINE order == ReadOrder(image.kind)
           run == CHOOSE f : Sums!IsRun(f, image, 0, 0, 0, order, Len(order))
<1>1. /\ Len(order) = 10 /\ order \in Seq(TableNames)
      /\ Cells(order) = TableNames
  <2>1. CASE image.kind = "memory"
    <3>1. order = <<"paths", "links", "packages", "groups", "children", "infos",
           "descriptors", "metadatas", "patches", "files">>
      BY <2>1 DEF ReadOrder
    <3>2. /\ Len(order) = 10
          /\ order[1] = "paths" /\ order[2] = "links" /\ order[3] = "packages"
          /\ order[4] = "groups" /\ order[5] = "children" /\ order[6] = "infos"
          /\ order[7] = "descriptors" /\ order[8] = "metadatas" /\ order[9] = "patches"
          /\ order[10] = "files"
      BY <3>1
    <3>3. order \in Seq(TableNames)
      BY <3>1 DEF TableNames
    <3> HIDE DEF order
    <3>4. Cells(order) = {order[i] : i \in 1..10}
      BY <3>2 DEF Cells
    <3> QED BY <3>2, <3>3, <3>4 DEF TableNames
  <2>2. CASE image.kind # "memory"
    <3>1. order = <<"patches", "files", "packages", "children", "groups", "paths",
           "links", "infos", "descriptors", "metadatas">>
      BY <2>2 DEF ReadOrder
    <3>2. /\ Len(order) = 10
          /\ order[1] = "patches" /\ order[2] = "files" /\ order[3] = "packages"
          /\ order[4] = "children" /\ order[5] = "groups" /\ order[6] = "paths"
          /\ order[7] = "links" /\ order[8] = "infos" /\ order[9] = "descriptors"
          /\ order[10] = "metadatas"
      BY <3>1
    <3>3. order \in Seq(TableNames)
      BY <3>1 DEF TableNames
    <3> HIDE DEF order
    <3>4. Cells(order) = {order[i] : i \in 1..10}
      BY <3>2 DEF Cells
    <3> QED BY <3>2, <3>3, <3>4 DEF TableNames
  <2> QED BY <2>1, <2>2
<1>2. \A t \in TableNames : Len(image[t]) \in Nat
  BY LenProperties DEF IsImage
<1>3. \A n : CellsBefore(image, n) = run[n]
  BY DEF CellsBefore, Sums!IsRun, WithTable
<1> HIDE DEF order
<1>4. Sums!IsRun(run, image, 0, 0, 0, order, Len(order)) /\ Len(order) \in Nat
  <2>1. \E f : Sums!IsRun(f, image, 0, 0, 0, order, Len(order))
    BY <1>1, Sums!RunExists
  <2> QED BY <1>1, <2>1
<1> HIDE DEF run
<1>5. \A m \in 1..10 : order[m] \in TableNames
  BY <1>1, ElementOfSeq
<1>6. \A m \in 0..10 : run[m] \in Nat
  <2>1. \A m \in 1..Len(order) : \A v : IsCount(v) => IsCount(WithTable(image, v, order[m]))
    BY <1>1, <1>2, <1>5 DEF WithTable, IsCount
  <2>2. IsCount(0)
    BY DEF IsCount
  <2>3. \A m \in 0..Len(order) : IsCount(run[m])
    BY <1>4, <2>1, <2>2, Sums!RunKeeps
  <2> QED BY <1>1, <2>3 DEF IsCount
<1>7. \A m \in 1..10 : run[m] = WithTable(image, run[m - 1], order[m])
  <2>1. \A m \in 1..Len(order) : run[m] = WithTable(image, run[m - 1], order[m])
    BY <1>4, Sums!RunSteps
  <2> QED BY <1>1, <2>1
<1>8. \A n \in 0..9 : run[n + 1] = run[n] + Len(image[order[n + 1]])
  <2> TAKE n \in 0..9
  <2>1. n + 1 \in 1..10 /\ (n + 1) - 1 = n
    OBVIOUS
  <2> QED BY <1>7, <2>1 DEF WithTable
<1> QED
  BY <1>1, <1>3, <1>6, <1>8 DEF order

-----------------------------------------------------------------------------
(* Records, as parsed: they refer to no cell yet. *)

LEMMA CountIsPositive ==
  \A kind \in Kinds : Count(kind) \in Nat /\ Count(kind) >= 1
BY CountsOK DEF Kinds, Count

LEMMA KeyIndexIsNat ==
  \A n \in Nat : HashKeyIndex(n) \in Nat
BY DEF HashKeyIndex

LEMMA SpanIsRange ==
  ASSUME NEW G, NEW start \in Nat, NEW count \in Nat
  PROVE  /\ Span(start, count) \in SpanSetOf(G) /\ ~IsSet(Span(start, count))
         /\ Span(start, count).start = start /\ Span(start, count).end = start + count
         /\ Span(start, count) \in [is : {"range"}, start : Nat, end : Nat]
BY DEF Span, SpanSetOf, IsSet

LEMMA ReferenceIsIndex ==
  ASSUME NEW G, NEW n \in Nat
  PROVE  /\ Unresolved(n) \in ReferenceTo(G) \ {None}
         /\ Optional(n) \in ReferenceTo(G)
         /\ Optional(n) \in {None} \cup [is : {"index"}, index : Nat]
<1>1. Unresolved(n) \in [is : {"index"}, index : Nat] /\ Unresolved(n) # None
  <2>1. Unresolved(n).is = "index" /\ None.is = "none"
    BY DEF Unresolved, None
  <2> QED BY <2>1 DEF Unresolved
<1> QED
  BY <1>1 DEF ReferenceTo, Optional

LEMMA ParsedPackage ==
  ASSUME NEW h, NEW x, x.kind \in Kinds,
         {x.group, x.info, x.infos, x.child, x.children} \subseteq Nat
  PROVE  PackageOK(h, ParsePackage(x))
<1> DEFINE y == ParsePackage(x)
<1>1. /\ Count(x.kind) \in Nat /\ Count(x.kind) >= 1 /\ HashKeyIndex(x.group) \in Nat
  BY CountIsPositive, KeyIndexIsNat
<1>2. /\ y.groups = Span(HashKeyIndex(x.group), Count(x.kind))
      /\ y.infos = Span(x.info, x.infos) /\ y.children = Span(x.child, x.children)
      /\ y.kind = x.kind
      /\ y = [fullPath |-> y.fullPath, kind |-> y.kind, groups |-> y.groups,
              infos |-> y.infos, children |-> y.children]
  BY DEF ParsePackage
<1> HIDE DEF y
<1>3. /\ y.groups \in SpanSetOf(DOMAIN h.groups) /\ ~IsSet(y.groups)
      /\ y.groups.start = HashKeyIndex(x.group)
      /\ y.groups.end = HashKeyIndex(x.group) + Count(x.kind)
  BY <1>1, <1>2, SpanIsRange
<1>4. y.groups.start < y.groups.end
  BY <1>1, <1>3
<1>5. y.infos \in SpanSetOf(DOMAIN h.infos) /\ y.children \in SpanSetOf(DOMAIN h.children)
  BY <1>2, SpanIsRange
<1>6. PackageOK(h, y)
  BY <1>2, <1>3, <1>4, <1>5 DEF PackageOK
<1> QED
  BY <1>6 DEF y

LEMMA ParsedChild ==
  ASSUME NEW h, NEW x, x.package \in Nat
  PROVE  ChildOK(h, ParseChild(x))
BY ReferenceIsIndex DEF ParseChild, ChildOK

LEMMA ParsedGroup ==
  ASSUME NEW h, NEW x, {x.start, x.count, x.sub} \subseteq Nat
  PROVE  GroupOK(h, ParseGroup(x))
<1> DEFINE y == ParseGroup(x)
<1>1. /\ y.files = Span(x.start, x.count) /\ y.sub = Optional(x.sub)
      /\ y = [offset |-> y.offset, files |-> y.files, sub |-> y.sub]
  BY DEF ParseGroup
<1> HIDE DEF y
<1>2. x.start \in Nat /\ x.count \in Nat /\ x.sub \in Nat
  OBVIOUS
<1>3. y.files \in [is : {"range"}, start : Nat, end : Nat]
  BY <1>1, <1>2, SpanIsRange
<1>4. y.sub \in {None} \cup [is : {"index"}, index : Nat]
  BY <1>1, <1>2, ReferenceIsIndex
<1>5. GroupOK(h, y)
  BY <1>1, <1>3, <1>4 DEF GroupOK
<1> QED
  BY <1>5 DEF y

LEMMA ParsedPath ==
  ASSUME NEW h, NEW x, {x.link, x.file} \subseteq Nat
  PROVE  PathOK(h, ParsePath(x))
<1>1. HashKeyIndex(x.link) \in Nat /\ HashKeyIndex(x.file) \in Nat
  BY KeyIndexIsNat
<1> QED
  BY <1>1, ReferenceIsIndex DEF ParsePath, PathOK

LEMMA ParsedLink ==
  ASSUME NEW h, NEW x, {x.owner, x.info} \subseteq Nat
  PROVE  LinkOK(h, ParseLink(x))
<1>1. Unresolved(x.owner) \in [is : {"index"}, index : Nat]
  BY DEF Unresolved
<1> QED
  BY <1>1, ReferenceIsIndex DEF ParseLink, LinkOK

LEMMA ParsedInfo ==
  ASSUME NEW h, NEW x, x.kind \in Kinds, {x.path, x.link, x.descriptor} \subseteq Nat
  PROVE  InfoOK(h, ParseInfo(x))
<1>1. Count(x.kind) \in Nat
  BY CountIsPositive
<1>2. Span(x.descriptor, Count(x.kind)) \in SpanSetOf(DOMAIN h.descriptors)
  BY <1>1, SpanIsRange
<1> QED
  BY <1>2, ReferenceIsIndex DEF ParseInfo, InfoOK

LEMMA ParsedDescriptor ==
  ASSUME NEW h, NEW x, {x.group, x.metadata, x.args} \subseteq Nat
  PROVE  DescriptorOK(h, ParseDescriptor(x))
<1> DEFINE y == ParseDescriptor(x)
<1>1. /\ y.group = Unresolved(x.group) /\ y.metadata = Optional(x.metadata)
      /\ y.args \in {Unresolved(x.args), None}
      /\ y = [group |-> y.group, metadata |-> y.metadata, load |-> y.load, args |-> y.args]
  BY DEF ParseDescriptor
<1> HIDE DEF y
<1>2. /\ y.group \in ReferenceTo(DOMAIN h.groups) \ {None}
      /\ y.metadata \in ReferenceTo(DOMAIN h.metadatas)
  BY <1>1, ReferenceIsIndex
<1>3. y.args \in ReferenceTo(DOMAIN h[ArgsTable(y)])
  BY <1>1, ReferenceIsIndex DEF ReferenceTo
<1>4. DescriptorOK(h, y)
  BY <1>1, <1>2, <1>3 DEF DescriptorOK
<1> QED
  BY <1>4 DEF y

LEMMA ParsedPatch ==
  ASSUME NEW h, NEW x, {x.group, x.file, x.files} \subseteq Nat
  PROVE  PatchOK(h, ParsePatch(x))
<1> DEFINE y == ParsePatch(x)
<1>1. /\ y.group = Unresolved(x.group) /\ y.files = Span(x.file, x.files)
      /\ y.infos = Span(x.file, x.files)
      /\ y = [version |-> y.version, group |-> y.group, files |-> y.files, infos |-> y.infos]
  BY DEF ParsePatch
<1> HIDE DEF y
<1>2. /\ y.group \in ReferenceTo(DOMAIN h.groups) \ {None}
      /\ y.files \in SpanSetOf(DOMAIN h.files) /\ y.infos \in SpanSetOf(DOMAIN h.infos)
      /\ y.infos.start = x.file /\ y.infos.end = x.file + x.files
  BY <1>1, SpanIsRange, ReferenceIsIndex
<1>3. y.infos.start <= y.infos.end
  BY <1>2
<1>4. PatchOK(h, y)
  BY <1>1, <1>2, <1>3 DEF PatchOK
<1> QED
  BY <1>4 DEF y

LEMMA ParsedVersionedFile ==
  ASSUME NEW h, NEW x, {x.info, x.link, x.changed} \subseteq Nat
  PROVE  VersionedFileOK(h, ParseFile(x))
BY ReferenceIsIndex DEF ParseFile, VersionedFileOK

-----------------------------------------------------------------------------
(* Reading. *)

\* The GUID of the n-th cell after "first", if others take "gap" of them.
GuidOf(first, at, gap, n) == first + n + (IF n >= at THEN gap ELSE 0)

\* The GUIDs that pass while an image is read.
ReadGuids(image, first, gap) == first..(first + CellsOf(image) + gap - 1)

IsRead(e, image, first, at, gap) == e = ReadEngine(image, first, at, gap)

\* Each entry of each table becomes a cell of its own, and the entry at its
\* place in the table.
LEMMA ReadCells ==
  ASSUME NEW image, IsImage(image), NEW first \in Nat, NEW at \in Nat, NEW gap \in Nat,
         NEW e, IsRead(e, image, first, at, gap), NEW t \in TableNames
  PROVE  /\ e.tables[t] \in Seq(ReadGuids(image, first, gap))
         /\ Len(e.tables[t]) = Len(image[t])
         /\ \A i, j \in 1..Len(image[t]) : e.tables[t][i] = e.tables[t][j] => i = j
         /\ DOMAIN e.heap[t] = Cells(e.tables[t])
         /\ IsFunction(e.heap[t])
         /\ \A i \in 1..Len(image[t]) : e.heap[t][e.tables[t][i]] = Parse(t, image[t][i])
<1> DEFINE order == ReadOrder(image.kind)
           G == ReadGuids(image, first, gap)
<1>1. /\ Len(order) = 10 /\ order \in Seq(TableNames) /\ Cells(order) = TableNames
      /\ \A n \in 0..10 : CellsBefore(image, n) \in Nat
      /\ \A n \in 0..9 : CellsBefore(image, n + 1)
                           = CellsBefore(image, n) + Len(image[order[n + 1]])
  BY CellsAreCounted
<1> HIDE DEF order
<1>2. PICK b : b = PositionOf(order, t)
  OBVIOUS
<1>3. b \in 0..9 /\ order[b + 1] = t
  <2>1. b \in 0..(Len(order) - 1) /\ order[b + 1] = t
    BY <1>1, <1>2, PositionIsIndex
  <2> QED BY <1>1, <2>1
<1>4. PICK n, before, total :
        n = Len(image[t]) /\ before = CellsBefore(image, b) /\ total = CellsOf(image)
  OBVIOUS
<1>5. n \in Nat /\ before \in Nat /\ total \in Nat /\ before + n <= total
  <2>1. n \in Nat
    BY <1>4, LenProperties DEF IsImage
  <2>2. before \in Nat /\ CellsBefore(image, b + 1) = before + n
    <3>1. b \in 0..10 /\ b \in 0..9
      BY <1>3
    <3> QED BY <1>1, <1>3, <1>4, <3>1
  <2>3. total = CellsBefore(image, 10)
    BY <1>1, <1>4 DEF CellsOf, order
  <2>4. \A m \in 0..9 : CellsBefore(image, m) <= CellsBefore(image, m + 1)
    <3>1. \A u \in TableNames : Len(image[u]) \in Nat
      BY LenProperties DEF IsImage
    <3>2. \A m \in 0..9 : order[m + 1] \in TableNames
      <4> TAKE m \in 0..9
      <4>1. m + 1 \in 1..Len(order)
        BY <1>1
      <4> QED BY <1>1, <4>1, ElementOfSeq
    <3> TAKE m \in 0..9
    <3>3. PICK v, l : v = CellsBefore(image, m) /\ l = Len(image[order[m + 1]])
      OBVIOUS
    <3>4. m \in 0..10 /\ v \in Nat /\ l \in Nat
      <4>1. m \in 0..10
        OBVIOUS
      <4>2. order[m + 1] \in TableNames
        BY <3>2
      <4> QED BY <1>1, <3>1, <3>3, <4>1, <4>2
    <3>5. CellsBefore(image, m + 1) = v + l
      BY <1>1, <3>3
    <3> QED BY <3>3, <3>4, <3>5
  <2>5. PICK c0, c1, c2, c3, c4, c5, c6, c7, c8, c9, c10 :
          /\ c0 = CellsBefore(image, 0) /\ c1 = CellsBefore(image, 1)
          /\ c2 = CellsBefore(image, 2) /\ c3 = CellsBefore(image, 3)
          /\ c4 = CellsBefore(image, 4) /\ c5 = CellsBefore(image, 5)
          /\ c6 = CellsBefore(image, 6) /\ c7 = CellsBefore(image, 7)
          /\ c8 = CellsBefore(image, 8) /\ c9 = CellsBefore(image, 9)
          /\ c10 = CellsBefore(image, 10)
    OBVIOUS
  <2>6. /\ c0 <= c1 /\ c1 <= c2 /\ c2 <= c3 /\ c3 <= c4 /\ c4 <= c5
        /\ c5 <= c6 /\ c6 <= c7 /\ c7 <= c8 /\ c8 <= c9 /\ c9 <= c10
    BY <2>4, <2>5
  <2>7. {c0, c1, c2, c3, c4, c5, c6, c7, c8, c9, c10} \subseteq Nat
    BY <1>1, <2>5
  <2>8. \A v \in {c1, c2, c3, c4, c5, c6, c7, c8, c9, c10} : v <= c10
    BY <2>6, <2>7
  <2>9. CellsBefore(image, b + 1) \in {c1, c2, c3, c4, c5, c6, c7, c8, c9, c10}
    <3>1. b + 1 \in {1, 2, 3, 4, 5, 6, 7, 8, 9, 10}
      BY <1>3
    <3> QED BY <2>5, <3>1
  <2> QED BY <2>1, <2>2, <2>3, <2>5, <2>7, <2>8, <2>9
<1>6. PICK s : s = [i \in 1..n |-> GuidOf(first, at, gap, before + i - 1)]
  OBVIOUS
<1>7. \A i \in 1..n : GuidOf(first, at, gap, before + i - 1) \in G
  <2> TAKE i \in 1..n
  <2>1. before + i - 1 \in Nat /\ before + i - 1 < total
    BY <1>5
  <2>2. \A m \in Nat : m < total => GuidOf(first, at, gap, m) \in first..(first + total + gap - 1)
    BY <1>5 DEF GuidOf
  <2> QED BY <1>4, <2>1, <2>2 DEF ReadGuids
<1>8. \A i, j \in 1..n : GuidOf(first, at, gap, before + i - 1)
                           = GuidOf(first, at, gap, before + j - 1) => i = j
  BY <1>5 DEF GuidOf
<1>9. s \in Seq(G) /\ Len(s) = n
  <2>1. s \in [1..n -> G]
    BY <1>6, <1>7
  <2> HIDE DEF G
  <2> QED BY <1>5, <2>1, SeqDef, LenProperties
<1>10. e.tables[t] = s
  BY <1>2, <1>4, <1>6 DEF IsRead, ReadEngine, GuidOf, order
<1>11. e.heap[t] = [c \in Cells(s) |-> Parse(t, CellAt(image[t], PositionOf(s, c)))]
  BY <1>10 DEF IsRead, ReadEngine
<1> HIDE DEF G
<1>12. \A i, j \in 1..n : s[i] = s[j] => i = j
  BY <1>6, <1>8
<1>13. ASSUME NEW i \in 1..n PROVE e.heap[t][s[i]] = Parse(t, image[t][i])
  <2>1. s[i] \in Cells(s)
    BY <1>9 DEF Cells
  <2>2. PICK p : p = PositionOf(s, s[i])
    OBVIOUS
  <2>3. p + 1 \in 1..n /\ s[p + 1] = s[i]
    BY <1>9, <2>1, <2>2, PositionIsIndex
  <2>4. p + 1 = i
    BY <1>12, <2>3
  <2> QED BY <1>11, <2>1, <2>2, <2>4 DEF CellAt
<1>14. IsFunction(e.heap[t]) /\ DOMAIN e.heap[t] = Cells(s)
  BY <1>11 DEF IsFunction
<1> QED
  BY <1>4, <1>9, <1>10, <1>12, <1>13, <1>14 DEF G

\* The engine that is read: nothing is resolved, and all cells are in the tables.
LEMMA EngineRead ==
  ASSUME NEW image, IsImage(image), NEW first \in Nat, NEW at \in Nat, NEW gap \in Nat,
         NEW e, IsRead(e, image, first, at, gap)
  PROVE  /\ EngineOK(e) /\ Fresh(e)
         /\ \A t \in TableNames :
              DOMAIN e.heap[t] \subseteq ReadGuids(image, first, gap)
<1> DEFINE h == e.heap
           G == ReadGuids(image, first, gap)
<1>1. \A t \in TableNames :
        /\ e.tables[t] \in Seq(G)
        /\ Len(e.tables[t]) = Len(image[t])
        /\ DOMAIN e.heap[t] = Cells(e.tables[t])
        /\ IsFunction(e.heap[t])
        /\ \A i \in 1..Len(image[t]) : e.heap[t][e.tables[t][i]] = Parse(t, image[t][i])
  <2> TAKE t \in TableNames
  <2> HIDE DEF G
  <2> QED BY ReadCells DEF G
<1>2. ASSUME NEW t \in TableNames
      PROVE  /\ e.tables[t] \in Seq(DOMAIN h[t]) /\ DOMAIN h[t] \subseteq G
             /\ \A c \in DOMAIN h[t] : \E x \in Cells(image[t]) : h[t][c] = Parse(t, x)
  <2> HIDE DEF G
  <2>1. /\ e.tables[t] \in Seq(Cells(e.tables[t])) /\ Cells(e.tables[t]) \subseteq G
        /\ \A c \in Cells(e.tables[t]) : \E i \in 1..Len(e.tables[t]) : c = e.tables[t][i]
    BY <1>1, CellsOfSeq
  <2>2. \A i \in 1..Len(image[t]) : image[t][i] \in Cells(image[t])
    BY DEF Cells
  <2>3. ASSUME NEW c \in DOMAIN h[t] PROVE \E x \in Cells(image[t]) : h[t][c] = Parse(t, x)
    <3>1. PICK i \in 1..Len(e.tables[t]) : c = e.tables[t][i]
      BY <1>1, <2>1
    <3>2. i \in 1..Len(image[t]) /\ h[t][c] = Parse(t, image[t][i])
      BY <1>1, <3>1
    <3> QED BY <2>2, <3>2
  <2> QED BY <1>1, <2>1, <2>3
<1> HIDE DEF G
<1>3. /\ e = [heap |-> e.heap, tables |-> e.tables,
              packageLookup |-> e.packageLookup, fileLookup |-> e.fileLookup]
      /\ e.heap = [t \in TableNames |-> e.heap[t]]
      /\ e.tables = [t \in TableNames |-> e.tables[t]]
  BY DEF IsRead, ReadEngine
<1>4. /\ "packages" \in TableNames /\ "children" \in TableNames /\ "groups" \in TableNames
      /\ "paths" \in TableNames /\ "links" \in TableNames /\ "infos" \in TableNames
      /\ "descriptors" \in TableNames /\ "metadatas" \in TableNames
      /\ "patches" \in TableNames /\ "files" \in TableNames
  BY DEF TableNames
<1>5. HeapOK(h)
  <2>1. \A c \in DOMAIN h.packages : PackageOK(h, h.packages[c])
    <3> TAKE c \in DOMAIN h.packages
    <3>1. PICK x \in Cells(image.packages) : h.packages[c] = ParsePackage(x)
      BY <1>2, <1>4 DEF Parse
    <3>2. x.kind \in Kinds /\ {x.group, x.info, x.infos, x.child, x.children} \subseteq Nat
      BY DEF IsImage
    <3> QED BY <3>1, <3>2, ParsedPackage
  <2>2. \A c \in DOMAIN h.children : ChildOK(h, h.children[c])
    <3> TAKE c \in DOMAIN h.children
    <3>1. PICK x \in Cells(image.children) : h.children[c] = ParseChild(x)
      BY <1>2, <1>4 DEF Parse
    <3>2. x.package \in Nat
      BY DEF IsImage
    <3> QED BY <3>1, <3>2, ParsedChild
  <2>3. \A c \in DOMAIN h.groups : GroupOK(h, h.groups[c])
    <3> TAKE c \in DOMAIN h.groups
    <3>1. PICK x \in Cells(image.groups) : h.groups[c] = ParseGroup(x)
      BY <1>2, <1>4 DEF Parse
    <3>2. {x.start, x.count, x.sub} \subseteq Nat
      BY DEF IsImage
    <3> QED BY <3>1, <3>2, ParsedGroup
  <2>4. \A c \in DOMAIN h.paths : PathOK(h, h.paths[c])
    <3> TAKE c \in DOMAIN h.paths
    <3>1. PICK x \in Cells(image.paths) : h.paths[c] = ParsePath(x)
      BY <1>2, <1>4 DEF Parse
    <3>2. {x.link, x.file} \subseteq Nat
      BY DEF IsImage
    <3> QED BY <3>1, <3>2, ParsedPath
  <2>5. \A c \in DOMAIN h.links : LinkOK(h, h.links[c])
    <3> TAKE c \in DOMAIN h.links
    <3>1. PICK x \in Cells(image.links) : h.links[c] = ParseLink(x)
      BY <1>2, <1>4 DEF Parse
    <3>2. {x.owner, x.info} \subseteq Nat
      BY DEF IsImage
    <3> QED BY <3>1, <3>2, ParsedLink
  <2>6. \A c \in DOMAIN h.infos : InfoOK(h, h.infos[c])
    <3> TAKE c \in DOMAIN h.infos
    <3>1. PICK x \in Cells(image.infos) : h.infos[c] = ParseInfo(x)
      BY <1>2, <1>4 DEF Parse
    <3>2. x.kind \in Kinds /\ {x.path, x.link, x.descriptor} \subseteq Nat
      BY DEF IsImage
    <3> QED BY <3>1, <3>2, ParsedInfo
  <2>7. \A c \in DOMAIN h.descriptors : DescriptorOK(h, h.descriptors[c])
    <3> TAKE c \in DOMAIN h.descriptors
    <3>1. PICK x \in Cells(image.descriptors) : h.descriptors[c] = ParseDescriptor(x)
      BY <1>2, <1>4 DEF Parse
    <3>2. {x.group, x.metadata, x.args} \subseteq Nat
      BY DEF IsImage
    <3> QED BY <3>1, <3>2, ParsedDescriptor
  <2>8. \A c \in DOMAIN h.patches : PatchOK(h, h.patches[c])
    <3> TAKE c \in DOMAIN h.patches
    <3>1. PICK x \in Cells(image.patches) : h.patches[c] = ParsePatch(x)
      BY <1>2, <1>4 DEF Parse
    <3>2. {x.group, x.file, x.files} \subseteq Nat
      BY DEF IsImage
    <3> QED BY <3>1, <3>2, ParsedPatch
  <2>9. \A c \in DOMAIN h.files : VersionedFileOK(h, h.files[c])
    <3> TAKE c \in DOMAIN h.files
    <3>1. PICK x \in Cells(image.files) : h.files[c] = ParseFile(x)
      BY <1>2, <1>4 DEF Parse
    <3>2. {x.info, x.link, x.changed} \subseteq Nat
      BY DEF IsImage
    <3> QED BY <3>1, <3>2, ParsedVersionedFile
  <2>10. ASSUME NEW t \in TableNames, NEW c \in DOMAIN h[t] PROVE RecordOK(h, t, h[t][c])
    BY <2>1, <2>2, <2>3, <2>4, <2>5, <2>6, <2>7, <2>8, <2>9 DEF RecordOK, TableNames
  <2> QED
    BY <1>1, <1>3, <2>10 DEF HeapOK
<1>6. ASSUME NEW t \in TableNames,
             NEW lookup, lookup = [p \in DOMAIN LookupOf(image[t], 1, {}) |->
                                     e.tables[t][LookupOf(image[t], 1, {})[p]]]
      PROVE  \A p \in DOMAIN lookup : lookup[p] \in DOMAIN h[t]
  <2> DEFINE entry == LookupOf(image[t], 1, {})
             S == Cells(image[t])
             K == {r.fullPath : r \in S}
  <2>1. image[t] \in Seq(S) /\ Len(image[t]) \in Nat
    BY LenProperties DEF IsImage
  <2>2. \A r \in S : r.fullPath \in K
    OBVIOUS
  <2>3. IsMap(entry, K, 1..(1 + Len(image[t]) - 1))
    <3> HIDE DEF S, K
    <3>1. 1 \in Nat
      OBVIOUS
    <3> QED BY <2>1, <2>2, <3>1, LookupIsMap
  <2>4. \A p \in DOMAIN entry : entry[p] \in 1..Len(e.tables[t])
    <3> HIDE DEF entry, K
    <3>1. \A p \in DOMAIN entry : entry[p] \in 1..(1 + Len(image[t]) - 1)
      BY <2>3 DEF IsMap
    <3>2. PICK n : n = Len(image[t])
      OBVIOUS
    <3>3. n \in Nat /\ n = Len(e.tables[t])
      BY <1>1, <2>1, <3>2
    <3>4. 1 + n - 1 = n
      BY <3>3
    <3> QED BY <3>1, <3>2, <3>3, <3>4
  <2>5. \A i \in 1..Len(e.tables[t]) : e.tables[t][i] \in DOMAIN h[t]
    BY <1>1 DEF Cells
  <2> HIDE DEF entry
  <2> QED BY <1>6, <2>4, <2>5 DEF entry
<1>7. /\ e.packageLookup = [p \in DOMAIN LookupOf(image["packages"], 1, {}) |->
                              e.tables["packages"][LookupOf(image["packages"], 1, {})[p]]]
      /\ e.fileLookup = [p \in DOMAIN LookupOf(image["paths"], 1, {}) |->
                              e.tables["paths"][LookupOf(image["paths"], 1, {})[p]]]
  BY <1>4 DEF IsRead, ReadEngine
<1>8. /\ \A p \in DOMAIN e.packageLookup : e.packageLookup[p] \in DOMAIN h["packages"]
      /\ \A p \in DOMAIN e.fileLookup : e.fileLookup[p] \in DOMAIN h["paths"]
  BY <1>4, <1>6, <1>7
<1>9. EngineOK(e)
  BY <1>2, <1>3, <1>5, <1>8 DEF EngineOK
<1> QED
  BY <1>1, <1>2, <1>9 DEF Fresh, G

-----------------------------------------------------------------------------
(* Cells that stay, and cells that are added. *)

Grows(h, g) == \A t \in TableNames : DOMAIN h[t] \subseteq DOMAIN g[t]

LEMMA Kinds10 ==
  /\ "packages" \in TableNames /\ "children" \in TableNames /\ "groups" \in TableNames
  /\ "paths" \in TableNames /\ "links" \in TableNames /\ "infos" \in TableNames
  /\ "descriptors" \in TableNames /\ "metadatas" \in TableNames
  /\ "patches" \in TableNames /\ "files" \in TableNames
BY DEF TableNames

LEMMA LargerReferences ==
  ASSUME NEW S, NEW T, S \subseteq T
  PROVE  /\ ReferenceTo(S) \subseteq ReferenceTo(T)
         /\ SpanSetOf(S) \subseteq SpanSetOf(T)
         /\ Seq(S) \subseteq Seq(T)
<1>1. Seq(S) \subseteq Seq(T)
  BY LargerHeap
<1> QED
  BY <1>1 DEF ReferenceTo, SpanSetOf

\* What a record refers to is there in a larger heap.
LEMMA RecordsStay ==
  ASSUME NEW h, NEW g, Grows(h, g), NEW t \in TableNames, NEW x, RecordOK(h, t, x)
  PROVE  RecordOK(g, t, x)
<1>1. /\ DOMAIN h.packages \subseteq DOMAIN g.packages
      /\ DOMAIN h.children \subseteq DOMAIN g.children
      /\ DOMAIN h.groups \subseteq DOMAIN g.groups /\ DOMAIN h.paths \subseteq DOMAIN g.paths
      /\ DOMAIN h.links \subseteq DOMAIN g.links /\ DOMAIN h.infos \subseteq DOMAIN g.infos
      /\ DOMAIN h.descriptors \subseteq DOMAIN g.descriptors
      /\ DOMAIN h.metadatas \subseteq DOMAIN g.metadatas
      /\ DOMAIN h.files \subseteq DOMAIN g.files
  BY Kinds10 DEF Grows
<1>2. CASE t = "packages"
  <2>1. PackageOK(h, x)
    BY <1>2 DEF RecordOK
  <2>2. PackageOK(g, x)
    BY <1>1, <2>1, LargerReferences DEF PackageOK
  <2> QED BY <1>2, <2>2 DEF RecordOK
<1>3. CASE t = "children"
  BY <1>1, <1>3, LargerReferences DEF RecordOK, ChildOK
<1>4. CASE t = "groups"
  <2>1. GroupOK(h, x)
    BY <1>4 DEF RecordOK
  <2>2. OwnersIn(h) \subseteq OwnersIn(g)
    BY <1>1 DEF OwnersIn
  <2>3. FileSets(h) \subseteq FileSets(g)
    <3>1. Seq(DOMAIN h.infos) \subseteq Seq(DOMAIN g.infos)
      BY <1>1, LargerReferences
    <3>2. Seq(DOMAIN h.metadatas) \subseteq Seq(DOMAIN g.metadatas)
      BY <1>1, LargerReferences
    <3> QED BY <3>1, <3>2 DEF FileSets
  <2>4. GroupOK(g, x)
    BY <2>1, <2>2, <2>3 DEF GroupOK
  <2> QED BY <1>4, <2>4 DEF RecordOK
<1>5. CASE t = "paths"
  BY <1>1, <1>5, LargerReferences DEF RecordOK, PathOK
<1>6. CASE t = "links"
  <2>1. LinkOK(h, x)
    BY <1>6 DEF RecordOK
  <2>2. OwnersIn(h) \subseteq OwnersIn(g)
    BY <1>1 DEF OwnersIn
  <2>3. LinkOK(g, x)
    BY <1>1, <2>1, <2>2, LargerReferences DEF LinkOK
  <2> QED BY <1>6, <2>3 DEF RecordOK
<1>7. CASE t = "infos"
  <2>1. InfoOK(h, x)
    BY <1>7 DEF RecordOK
  <2>2. InfoOK(g, x)
    BY <1>1, <2>1, LargerReferences DEF InfoOK
  <2> QED BY <1>7, <2>2 DEF RecordOK
<1>8. CASE t = "descriptors"
  <2>1. DescriptorOK(h, x)
    BY <1>8 DEF RecordOK
  <2>2. DOMAIN h[ArgsTable(x)] \subseteq DOMAIN g[ArgsTable(x)]
    BY Kinds10 DEF Grows, ArgsTable
  <2>3. DescriptorOK(g, x)
    BY <1>1, <2>1, <2>2, LargerReferences DEF DescriptorOK
  <2> QED BY <1>8, <2>3 DEF RecordOK
<1>9. CASE t = "metadatas"
  BY <1>9 DEF RecordOK
<1>10. CASE t = "patches"
  <2>1. PatchOK(h, x)
    BY <1>10 DEF RecordOK
  <2>2. PatchOK(g, x)
    BY <1>1, <2>1, LargerReferences DEF PatchOK
  <2> QED BY <1>10, <2>2 DEF RecordOK
<1>11. CASE t = "files"
  BY <1>1, <1>11, LargerReferences DEF RecordOK, VersionedFileOK
<1> QED
  BY <1>2, <1>3, <1>4, <1>5, <1>6, <1>7, <1>8, <1>9, <1>10, <1>11 DEF TableNames

\* One kind of records is replaced, and the cells stay.
Put(e, t, F) == [e EXCEPT !.heap[t] = F]

LEMMA PutKeepsEngine ==
  ASSUME NEW e, EngineOK(e), NEW t \in TableNames, NEW F, IsFunction(F),
         DOMAIN F = DOMAIN e.heap[t],
         \A c \in DOMAIN F : RecordOK(e.heap, t, F[c])
  PROVE  /\ EngineOK(Put(e, t, F))
         /\ Put(e, t, F).tables = e.tables
         /\ Put(e, t, F).heap[t] = F
         /\ \A u \in TableNames : u # t => Put(e, t, F).heap[u] = e.heap[u]
         /\ \A u \in TableNames : DOMAIN Put(e, t, F).heap[u] = DOMAIN e.heap[u]
<1> DEFINE f == Put(e, t, F)
<1>1. /\ e = [heap |-> e.heap, tables |-> e.tables,
              packageLookup |-> e.packageLookup, fileLookup |-> e.fileLookup]
      /\ e.heap = [u \in TableNames |-> e.heap[u]]
  BY DEF EngineOK, HeapOK
<1>2. /\ f.heap = [e.heap EXCEPT ![t] = F] /\ f.tables = e.tables
      /\ f.packageLookup = e.packageLookup /\ f.fileLookup = e.fileLookup
      /\ f = [heap |-> f.heap, tables |-> f.tables,
              packageLookup |-> f.packageLookup, fileLookup |-> f.fileLookup]
  BY <1>1 DEF Put
<1>3. /\ f.heap = [u \in TableNames |-> f.heap[u]]
      /\ f.heap[t] = F
      /\ \A u \in TableNames : u # t => f.heap[u] = e.heap[u]
  BY <1>1, <1>2
<1> HIDE DEF f
<1>4. \A u \in TableNames : DOMAIN f.heap[u] = DOMAIN e.heap[u]
  BY <1>3
<1>5. Grows(e.heap, f.heap)
  BY <1>4 DEF Grows
<1>6. HeapOK(f.heap)
  <2>1. ASSUME NEW u \in TableNames
        PROVE  IsFunction(f.heap[u]) /\ \A c \in DOMAIN f.heap[u] : RecordOK(f.heap, u, f.heap[u][c])
    <3>1. IsFunction(f.heap[u])
      BY <1>3 DEF EngineOK, HeapOK
    <3>2. \A c \in DOMAIN f.heap[u] : RecordOK(e.heap, u, f.heap[u][c])
      BY <1>3 DEF EngineOK, HeapOK
    <3> QED BY <1>5, <3>1, <3>2, RecordsStay
  <2> QED BY <1>3, <2>1 DEF HeapOK
<1>7. EngineOK(f)
  BY <1>2, <1>4, <1>6, Kinds10 DEF EngineOK
<1> QED
  BY <1>2, <1>3, <1>4, <1>7 DEF f

-----------------------------------------------------------------------------
(* resolve: references become cells. *)

LEMMA SpanResolved ==
  ASSUME NEW G, NEW table \in Seq(G), NEW set \in SpanSetOf(G), SpanFits(set, table)
  PROVE  /\ ResolveSpan(set, table) \in SpanSetOf(G) /\ IsSet(ResolveSpan(set, table))
         /\ ResolveSpan(set, table).cells \in Seq(G)
         /\ IsSet(set) => ResolveSpan(set, table) = set
         /\ ~IsSet(set) /\ set.start < set.end => ResolveSpan(set, table).cells # <<>>
<1> DEFINE y == ResolveSpan(set, table)
<1>1. CASE IsSet(set)
  <2>1. y = set /\ set.cells \in Seq(G)
    BY <1>1 DEF ResolveSpan, SpanSetOf, IsSet
  <2> QED BY <1>1, <2>1
<1>2. CASE ~IsSet(set)
  <2>1. PICK m, n : m = set.start /\ n = set.end
    OBVIOUS
  <2>2. m \in Nat /\ n \in Nat /\ n <= Len(table)
    BY <1>2, <2>1 DEF SpanSetOf, IsSet, SpanFits
  <2>3. m + 1 \in Nat /\ m + 1 >= 1
    BY <2>2
  <2>4. PICK c : c = SubSeq(table, m + 1, n)
    OBVIOUS
  <2>5. y = Set(c)
    BY <1>2, <2>1, <2>4 DEF ResolveSpan
  <2>6. c \in Seq(G)
    BY <2>2, <2>3, <2>4, SubSeqIsSeq
  <2>7. ASSUME m < n PROVE c # <<>>
    <3>1. /\ m + 1 \in Int /\ n \in Int /\ Len(table) \in Nat
          /\ \A i \in (m + 1)..n : i \in 1..Len(table)
      BY <2>2, LenProperties
    <3>2. \A i \in 1..Len(table) : table[i] \in G
      BY ElementOfSeq
    <3>3. Len(c) = IF m + 1 <= n THEN n - (m + 1) + 1 ELSE 0
      <4>1. \A i \in (m + 1)..n : table[i] \in G
        BY <3>1, <3>2
      <4> QED BY <2>4, <3>1, <4>1, SubSeqProperties
    <3>4. Len(c) # 0
      BY <2>2, <2>7, <3>3
    <3> QED BY <3>4, EmptySeq
  <2>8. y.cells = c /\ IsSet(y) /\ y \in SpanSetOf(G)
    BY <2>5, <2>6 DEF Set, IsSet, SpanSetOf
  <2> HIDE DEF y
  <2>9. y \in SpanSetOf(G) /\ IsSet(y) /\ y.cells \in Seq(G) /\ (set.start < set.end => y.cells # <<>>)
    BY <2>1, <2>6, <2>7, <2>8
  <2> QED BY <1>2, <2>9 DEF y
<1> QED
  BY <1>1, <1>2

\* A reference that is there, and fits a table, is to a cell of it.
LEMMA ReferenceResolved ==
  ASSUME NEW G, NEW table \in Seq(G), NEW ref \in ReferenceTo(G), Fits(ref, table)
  PROVE  /\ Resolve(ref, table) \in ReferenceTo(G) /\ ~IsUnresolved(Resolve(ref, table))
         /\ ref # None => Resolve(ref, table) # None /\ IsCell(Resolve(ref, table))
         /\ ~IsUnresolved(ref) => Resolve(ref, table) = ref
<1>1. CASE IsUnresolved(ref)
  <2>1. PICK i : i = ref.index
    OBVIOUS
  <2>2. i \in Nat /\ i < Len(table)
    BY <1>1, <2>1 DEF ReferenceTo, IsUnresolved, None, Fits, InBounds
  <2>3. table[i + 1] \in G
    <3>1. i + 1 \in 1..Len(table)
      BY <2>2, LenProperties
    <3> QED BY <3>1, ElementOfSeq
  <2>4. Resolve(ref, table) = Resolved(table[i + 1])
    BY <1>1, <2>1 DEF Resolve, CellAt
  <2>5. Resolved(table[i + 1]) \in [is : {"cell"}, cell : G]
    BY <2>3 DEF Resolved
  <2>6. Resolved(table[i + 1]).is = "cell" /\ None.is = "none"
    BY DEF Resolved, None
  <2> QED BY <1>1, <2>4, <2>5, <2>6 DEF ReferenceTo, IsUnresolved, IsCell
<1>2. CASE ~IsUnresolved(ref)
  BY <1>2 DEF Resolve, ReferenceTo, IsUnresolved, IsCell, None
<1> QED
  BY <1>1, <1>2

LEMMA ReferenceShifted ==
  ASSUME NEW G, NEW ref \in ReferenceTo(G), NEW n \in Nat
  PROVE  /\ Shifted(ref, n) \in ReferenceTo(G)
         /\ ref # None => Shifted(ref, n) # None
         /\ ~IsUnresolved(ref) => Shifted(ref, n) = ref
<1>1. CASE IsUnresolved(ref)
  <2>1. PICK i : i = ref.index
    OBVIOUS
  <2>2. i \in Nat
    BY <1>1, <2>1 DEF ReferenceTo, IsUnresolved, None
  <2>3. i + n \in Nat
    BY <2>2
  <2>4. Shifted(ref, n) = Unresolved(i + n)
    BY <1>1, <2>1 DEF Shifted
  <2>5. Unresolved(i + n) \in [is : {"index"}, index : Nat]
    BY <2>3 DEF Unresolved
  <2>6. Unresolved(i + n).is = "index" /\ None.is = "none"
    BY DEF Unresolved, None
  <2> QED BY <1>1, <2>4, <2>5, <2>6 DEF ReferenceTo
<1>2. CASE ~IsUnresolved(ref)
  BY <1>2 DEF Shifted
<1> QED
  BY <1>1, <1>2

LEMMA OwnerResolved ==
  ASSUME NEW h, NEW s, s.packages \in Seq(DOMAIN h.packages), s.groups \in Seq(DOMAIN h.groups),
         NEW ref \in {None} \cup [is : {"index"}, index : Nat] \cup OwnersIn(h),
         OwnerFits(ref, s)
  PROVE  /\ ResolveOwner(ref, s) \in {None} \cup OwnersIn(h)
         /\ ref # None => ResolveOwner(ref, s) \in OwnersIn(h)
         /\ ~IsUnresolved(ResolveOwner(ref, s))
<1>1. CASE IsUnresolved(ref)
  <2>1. PICK i : i = ref.index
    OBVIOUS
  <2>2. i \in Nat /\ (i < Len(s.packages) \/ i < Len(s.groups))
    BY <1>1, <2>1 DEF IsUnresolved, None, OwnersIn, OwnerFits
  <2>3. Len(s.packages) \in Nat /\ Len(s.groups) \in Nat
    BY LenProperties
  <2>4. CASE i < Len(s.packages)
    <3>1. i + 1 \in 1..Len(s.packages)
      BY <2>2, <2>3, <2>4
    <3>2. s.packages[i + 1] \in DOMAIN h.packages
      BY <3>1, ElementOfSeq
    <3>3. ResolveOwner(ref, s) = PackageRef(s.packages[i + 1])
      BY <1>1, <2>1, <2>4 DEF ResolveOwner, InBounds, CellAt
    <3>4. PackageRef(s.packages[i + 1]) \in OwnersIn(h)
      BY <3>2 DEF PackageRef, OwnersIn
    <3>5. PackageRef(s.packages[i + 1]).is = "package"
      BY DEF PackageRef
    <3> QED BY <3>3, <3>4, <3>5 DEF IsUnresolved
  <2>5. CASE ~(i < Len(s.packages))
    <3>1. i + 1 \in 1..Len(s.groups)
      BY <2>2, <2>3, <2>5
    <3>2. s.groups[i + 1] \in DOMAIN h.groups
      BY <3>1, ElementOfSeq
    <3>3. ResolveOwner(ref, s) = GroupRef(s.groups[i + 1])
      BY <1>1, <2>1, <2>5 DEF ResolveOwner, InBounds, CellAt
    <3>4. GroupRef(s.groups[i + 1]) \in OwnersIn(h)
      BY <3>2 DEF GroupRef, OwnersIn
    <3>5. GroupRef(s.groups[i + 1]).is = "group"
      BY DEF GroupRef
    <3> QED BY <3>3, <3>4, <3>5 DEF IsUnresolved
  <2> QED BY <2>4, <2>5
<1>2. CASE ~IsUnresolved(ref)
  BY <1>2 DEF ResolveOwner, IsUnresolved, None, OwnersIn
<1> QED
  BY <1>1, <1>2

\* What a step of a loop over a table does to the engine: one kind of records is
\* replaced, those of the table's cells for good.
Stepped(e, f, t) ==
  /\ EngineOK(f)
  /\ f.tables = e.tables
  /\ \A u \in TableNames : u # t => f.heap[u] = e.heap[u]
  /\ \A u \in TableNames : DOMAIN f.heap[u] = DOMAIN e.heap[u]

LEMMA PackagesResolved ==
  ASSUME NEW e, EngineOK(e), OwnersFit(e), NEW f, f = ResolvePackages(e)
  PROVE  /\ Stepped(e, f, "packages")
         /\ \A c \in DOMAIN e.heap.packages :
              IF c \in Cells(e.tables.packages)
                THEN LET y == f.heap.packages[c]
                     IN IsSet(y.groups) /\ IsSet(y.infos) /\ IsSet(y.children)
                ELSE f.heap.packages[c] = e.heap.packages[c]
<1> DEFINE s == e.tables
           h == e.heap
           New(x) == [x EXCEPT !.groups = ResolveSpan(@, s.groups),
                               !.infos = ResolveSpan(@, s.infos),
                               !.children = ResolveSpan(@, s.children)]
           F == [g \in DOMAIN h.packages |->
                   IF g \in Cells(s.packages) THEN New(h.packages[g]) ELSE h.packages[g]]
<1>1. f = Put(e, "packages", F)
  BY DEF ResolvePackages, OnTable, Put
<1>2. /\ s.groups \in Seq(DOMAIN h.groups) /\ s.infos \in Seq(DOMAIN h.infos)
      /\ s.children \in Seq(DOMAIN h.children)
  BY Kinds10 DEF EngineOK
<1>3. ASSUME NEW c \in DOMAIN h.packages, c \in Cells(s.packages)
      PROVE  LET y == New(h.packages[c])
             IN PackageOK(h, y) /\ IsSet(y.groups) /\ IsSet(y.infos) /\ IsSet(y.children)
  <2>1. PICK x : x = h.packages[c]
    OBVIOUS
  <2>2. PackageOK(h, x)
    BY <2>1, Kinds10 DEF EngineOK, HeapOK, RecordOK
  <2>3. SpanFits(x.groups, s.groups) /\ SpanFits(x.infos, s.infos) /\ SpanFits(x.children, s.children)
    BY <1>3, <2>1 DEF OwnersFit
  <2>4. PICK gs, is, cs : gs = ResolveSpan(x.groups, s.groups)
          /\ is = ResolveSpan(x.infos, s.infos) /\ cs = ResolveSpan(x.children, s.children)
    OBVIOUS
  <2>5. PICK y : y = New(x)
    OBVIOUS
  <2>6. y = [fullPath |-> x.fullPath, kind |-> x.kind, groups |-> gs, infos |-> is, children |-> cs]
    BY <2>2, <2>4, <2>5 DEF PackageOK
  <2>7. /\ gs \in SpanSetOf(DOMAIN h.groups) /\ IsSet(gs) /\ gs.cells # <<>>
        /\ is \in SpanSetOf(DOMAIN h.infos) /\ IsSet(is)
        /\ cs \in SpanSetOf(DOMAIN h.children) /\ IsSet(cs)
    BY <1>2, <2>2, <2>3, <2>4, SpanResolved DEF PackageOK
  <2>8. PackageOK(h, y) /\ IsSet(y.groups) /\ IsSet(y.infos) /\ IsSet(y.children)
    BY SMTT(60), <2>2, <2>6, <2>7 DEF PackageOK
  <2> HIDE DEF New
  <2> QED BY <2>1, <2>5, <2>8
<1>4. IsFunction(F) /\ DOMAIN F = DOMAIN h["packages"]
  BY DEF IsFunction
<1>5. \A c \in DOMAIN F : RecordOK(h, "packages", F[c])
  <2> TAKE c \in DOMAIN F
  <2>1. CASE c \in Cells(s.packages)
    <3>1. PackageOK(h, F[c])
      BY <1>3, <2>1
    <3> QED BY <3>1 DEF RecordOK
  <2>2. CASE c \notin Cells(s.packages)
    BY <2>2, Kinds10 DEF EngineOK, HeapOK
  <2> QED BY <2>1, <2>2
<1>6. \A c \in DOMAIN h.packages :
        IF c \in Cells(s.packages)
          THEN IsSet(F[c].groups) /\ IsSet(F[c].infos) /\ IsSet(F[c].children)
          ELSE F[c] = h.packages[c]
  <2> TAKE c \in DOMAIN h.packages
  <2> QED BY <1>3
<1> HIDE DEF F
<1>7. Stepped(e, f, "packages") /\ f.heap["packages"] = F
  BY <1>1, <1>4, <1>5, Kinds10, PutKeepsEngine DEF Stepped
<1> QED
  BY <1>6, <1>7

LEMMA ChildrenResolved ==
  ASSUME NEW e, EngineOK(e),
         \A c \in Cells(e.tables.children) :
           Fits(e.heap.children[c].package, e.tables.packages),
         NEW f, f = ResolveChildren(e)
  PROVE  /\ Stepped(e, f, "children")
         /\ \A c \in DOMAIN e.heap.children :
              IF c \in Cells(e.tables.children) THEN IsCell(f.heap.children[c].package)
              ELSE f.heap.children[c] = e.heap.children[c]
<1> DEFINE s == e.tables
           h == e.heap
           New(x) == [x EXCEPT !.package = Resolve(@, s.packages)]
           F == [g \in DOMAIN h.children |->
                   IF g \in Cells(s.children) THEN New(h.children[g]) ELSE h.children[g]]
<1>1. f = Put(e, "children", F)
  BY DEF ResolveChildren, OnTable, Put
<1>2. s.packages \in Seq(DOMAIN h.packages)
  BY Kinds10 DEF EngineOK
<1>3. ASSUME NEW c \in DOMAIN h.children, c \in Cells(s.children)
      PROVE  ChildOK(h, New(h.children[c])) /\ IsCell(New(h.children[c]).package)
  <2>1. PICK x : x = h.children[c]
    OBVIOUS
  <2>2. ChildOK(h, x) /\ Fits(x.package, s.packages)
    BY <1>3, <2>1, Kinds10 DEF EngineOK, HeapOK, RecordOK
  <2>3. PICK p : p = Resolve(x.package, s.packages)
    OBVIOUS
  <2>4. p \in ReferenceTo(DOMAIN h.packages) \ {None} /\ IsCell(p)
    BY <1>2, <2>2, <2>3, ReferenceResolved DEF ChildOK
  <2>5. New(x) = [fullPath |-> x.fullPath, package |-> p]
    BY <2>2, <2>3 DEF ChildOK
  <2> QED BY <2>1, <2>4, <2>5 DEF ChildOK
<1>4. IsFunction(F) /\ DOMAIN F = DOMAIN h["children"]
  BY DEF IsFunction
<1>5. \A c \in DOMAIN F : RecordOK(h, "children", F[c])
  <2> TAKE c \in DOMAIN F
  <2>1. CASE c \in Cells(s.children)
    <3>1. ChildOK(h, F[c])
      BY <1>3, <2>1
    <3> QED BY <3>1 DEF RecordOK
  <2>2. CASE c \notin Cells(s.children)
    BY <2>2, Kinds10 DEF EngineOK, HeapOK
  <2> QED BY <2>1, <2>2
<1>6. \A c \in DOMAIN h.children :
        IF c \in Cells(s.children) THEN IsCell(F[c].package) ELSE F[c] = h.children[c]
  <2> TAKE c \in DOMAIN h.children
  <2> QED BY <1>3
<1> HIDE DEF F
<1>7. Stepped(e, f, "children") /\ f.heap["children"] = F
  BY <1>1, <1>4, <1>5, Kinds10, PutKeepsEngine DEF Stepped
<1> QED
  BY <1>6, <1>7

\* Of a group that holds infos after resolve, those that it held before or such
\* as are in the table.
Holds(before, after, infos) ==
  after.is = "infos" => after = before \/ Cells(after.cells) \subseteq Cells(infos)

LEMMA GroupsResolved ==
  ASSUME NEW e, EngineOK(e),
         \A i \in 1..Len(e.tables.groups) :
           GroupFits(i - 1, e.heap.groups[e.tables.groups[i]], e.tables),
         NEW f, f = ResolveGroups(e)
  PROVE  /\ Stepped(e, f, "groups")
         /\ \A c \in DOMAIN e.heap.groups :
              IF c \in Cells(e.tables.groups)
                THEN ~IsUnresolved(f.heap.groups[c].sub) /\ f.heap.groups[c].files.is # "range"
                ELSE f.heap.groups[c] = e.heap.groups[c]
         /\ \A c \in Cells(e.tables.groups) :
              Holds(e.heap.groups[c].files, f.heap.groups[c].files, e.tables.infos)
<1> DEFINE s == e.tables
           h == e.heap
           New(i, x) == [x EXCEPT !.sub = ResolveSub(@, s), !.files = ResolveFiles(i, x, s)]
           F == [g \in DOMAIN h.groups |->
                   IF g \in Cells(s.groups)
                     THEN New(PositionOf(s.groups, g), h.groups[g]) ELSE h.groups[g]]
<1>1. f = Put(e, "groups", F)
  BY DEF ResolveGroups, OnTable, Put
<1>2. /\ s.packages \in Seq(DOMAIN h.packages) /\ s.groups \in Seq(DOMAIN h.groups)
      /\ s.infos \in Seq(DOMAIN h.infos) /\ s.metadatas \in Seq(DOMAIN h.metadatas)
  BY Kinds10 DEF EngineOK
<1>3. ASSUME NEW c \in DOMAIN h.groups, c \in Cells(s.groups)
      PROVE  LET y == New(PositionOf(s.groups, c), h.groups[c])
             IN /\ GroupOK(h, y) /\ ~IsUnresolved(y.sub) /\ y.files.is # "range"
                /\ Holds(h.groups[c].files, y.files, s.infos)
  <2>1. PICK x, i : x = h.groups[c] /\ i = PositionOf(s.groups, c)
    OBVIOUS
  <2>2. GroupOK(h, x) /\ GroupFits(i, x, s)
    <3>1. GroupOK(h, x)
      BY <2>1, Kinds10 DEF EngineOK, HeapOK, RecordOK
    <3>2. i \in 0..(Len(s.groups) - 1) /\ i + 1 \in 1..Len(s.groups) /\ s.groups[i + 1] = c
      BY <1>2, <1>3, <2>1, PositionIsIndex
    <3>3. (i + 1) - 1 = i
      BY <1>2, <3>2, LenProperties
    <3> QED BY <2>1, <3>1, <3>2, <3>3
  <2>3. PICK sub, files : sub = ResolveSub(x.sub, s) /\ files = ResolveFiles(i, x, s)
    OBVIOUS
  <2>4. New(i, x) = [offset |-> x.offset, files |-> files, sub |-> sub]
    <3>1. x = [offset |-> x.offset, files |-> x.files, sub |-> x.sub]
      BY <2>2 DEF GroupOK
    <3>2. New(i, x) = [x EXCEPT !.sub = sub, !.files = files]
      BY <2>3
    <3>3. PICK y : y = New(i, x)
      OBVIOUS
    <3>4. y = [offset |-> x.offset, files |-> files, sub |-> sub]
      BY <3>1, <3>2, <3>3
    <3> HIDE DEF New
    <3> QED BY <3>3, <3>4
  <2>5. sub \in {None} \cup OwnersIn(h) /\ ~IsUnresolved(sub)
    <3>1. CASE x.sub = Unresolved(0)
      <4>1. sub = None /\ None.is = "none"
        BY <2>3, <3>1 DEF ResolveSub, None
      <4> QED BY <4>1 DEF IsUnresolved
    <3>2. CASE x.sub # Unresolved(0)
      <4>1. sub = ResolveOwner(x.sub, s) /\ OwnerFits(x.sub, s)
        BY <2>2, <2>3, <3>2 DEF ResolveSub, GroupFits
      <4> QED BY <1>2, <2>2, <4>1, OwnerResolved DEF GroupOK
    <3> QED BY <3>1, <3>2
  <2>6. files \in FileSets(h) /\ files.is # "range" /\ Holds(x.files, files, s.infos)
    <3>1. CASE x.files.is # "range"
      <4>1. files = x.files
        BY <2>3, <3>1 DEF ResolveFiles
      <4>2. files \in FileSets(h)
        BY <2>2, <3>1, <4>1 DEF GroupOK, FileSets
      <4> QED BY <3>1, <4>1, <4>2 DEF Holds
    <3>2. CASE x.files.is = "range"
      <4>1. PICK m, n : m = x.files.start /\ n = x.files.end
        OBVIOUS
      <4>2. m \in Nat /\ n \in Nat
        BY <2>2, <3>2, <4>1 DEF GroupOK, FileSets
      <4>3. m + 1 \in Nat /\ m + 1 >= 1
        BY <4>2
      <4>4. CASE HoldsInfos(i, x)
        <5>1. n <= Len(s.infos)
          BY <2>2, <3>2, <4>1, <4>4 DEF GroupFits
        <5>2. /\ SubSeq(s.infos, m + 1, n) \in Seq(DOMAIN h.infos)
              /\ Cells(SubSeq(s.infos, m + 1, n)) \subseteq Cells(s.infos)
          BY <1>2, <4>2, <4>3, <5>1, SubSeqIsSeq
        <5>3. files = [is |-> "infos", cells |-> SubSeq(s.infos, m + 1, n)]
          BY <2>3, <3>2, <4>1, <4>4 DEF ResolveFiles
        <5> QED BY <5>2, <5>3 DEF FileSets, Holds
      <4>5. CASE ~HoldsInfos(i, x)
        <5>1. n <= Len(s.metadatas)
          BY <2>2, <3>2, <4>1, <4>5 DEF GroupFits
        <5>2. SubSeq(s.metadatas, m + 1, n) \in Seq(DOMAIN h.metadatas)
          BY <1>2, <4>2, <4>3, <5>1, SubSeqIsSeq
        <5>3. files = [is |-> "metadatas", cells |-> SubSeq(s.metadatas, m + 1, n)]
          BY <2>3, <3>2, <4>1, <4>5 DEF ResolveFiles
        <5> QED BY <5>2, <5>3 DEF FileSets, Holds
      <4> QED BY <4>4, <4>5
    <3> QED BY <3>1, <3>2
  <2>7. GroupOK(h, New(i, x))
    BY <2>4, <2>5, <2>6 DEF GroupOK
  <2> QED BY <2>1, <2>4, <2>5, <2>6, <2>7
<1>4. IsFunction(F) /\ DOMAIN F = DOMAIN h["groups"]
  BY DEF IsFunction
<1>5. \A c \in DOMAIN F : RecordOK(h, "groups", F[c])
  <2> TAKE c \in DOMAIN F
  <2>1. CASE c \in Cells(s.groups)
    <3>1. GroupOK(h, F[c])
      BY <1>3, <2>1
    <3> QED BY <3>1 DEF RecordOK
  <2>2. CASE c \notin Cells(s.groups)
    BY <2>2, Kinds10 DEF EngineOK, HeapOK
  <2> QED BY <2>1, <2>2
<1>6. \A c \in DOMAIN h.groups :
        IF c \in Cells(s.groups)
          THEN /\ ~IsUnresolved(F[c].sub) /\ F[c].files.is # "range"
               /\ Holds(h.groups[c].files, F[c].files, s.infos)
          ELSE F[c] = h.groups[c]
  <2> TAKE c \in DOMAIN h.groups
  <2> QED BY <1>3
<1> HIDE DEF F
<1>7. Stepped(e, f, "groups") /\ f.heap["groups"] = F
  BY <1>1, <1>4, <1>5, Kinds10, PutKeepsEngine DEF Stepped
<1>8. Cells(s.groups) \subseteq DOMAIN h.groups
  BY <1>2, CellsOfSeq
<1> QED
  BY <1>6, <1>7, <1>8

\* The loops over packages, child packages and groups leave none unresolved.
LEMMA OwnersResolved ==
  ASSUME NEW e, EngineOK(e), OwnersFit(e), Fresh(e) \/ OwnersKnown(e.heap),
         NEW f, f = ResolveOwners(e)
  PROVE  /\ EngineOK(f)
         /\ f.tables = e.tables
         /\ \A u \in TableNames : DOMAIN f.heap[u] = DOMAIN e.heap[u]
         /\ \A u \in TableNames \ {"packages", "children", "groups"} : f.heap[u] = e.heap[u]
         /\ OwnersKnown(f.heap)
         /\ \A c \in Cells(e.tables.groups) :
              Holds(e.heap.groups[c].files, f.heap.groups[c].files, e.tables.infos)
<1>1. PICK e1, e2 : e1 = ResolvePackages(e) /\ e2 = ResolveChildren(e1)
  OBVIOUS
<1>2. f = ResolveGroups(e2)
  BY <1>1 DEF ResolveOwners
<1>3. /\ Stepped(e, e1, "packages")
      /\ \A c \in DOMAIN e.heap.packages :
           IF c \in Cells(e.tables.packages)
             THEN LET y == e1.heap.packages[c]
                  IN IsSet(y.groups) /\ IsSet(y.infos) /\ IsSet(y.children)
             ELSE e1.heap.packages[c] = e.heap.packages[c]
  BY <1>1, PackagesResolved
<1>4. /\ EngineOK(e1) /\ e1.tables = e.tables
      /\ e1.heap.children = e.heap.children /\ e1.heap.groups = e.heap.groups
  BY <1>3, Kinds10 DEF Stepped
<1>5. /\ Stepped(e1, e2, "children")
      /\ \A c \in DOMAIN e1.heap.children :
           IF c \in Cells(e1.tables.children) THEN IsCell(e2.heap.children[c].package)
           ELSE e2.heap.children[c] = e1.heap.children[c]
  <2>1. \A c \in Cells(e1.tables.children) :
          Fits(e1.heap.children[c].package, e1.tables.packages)
    BY <1>4 DEF OwnersFit
  <2> QED BY <1>1, <1>4, <2>1, ChildrenResolved
<1>6. /\ EngineOK(e2) /\ e2.tables = e.tables
      /\ e2.heap.packages = e1.heap.packages /\ e2.heap.groups = e.heap.groups
  BY <1>4, <1>5, Kinds10 DEF Stepped
<1>7. /\ Stepped(e2, f, "groups")
      /\ \A c \in DOMAIN e2.heap.groups :
           IF c \in Cells(e2.tables.groups)
             THEN ~IsUnresolved(f.heap.groups[c].sub) /\ f.heap.groups[c].files.is # "range"
             ELSE f.heap.groups[c] = e2.heap.groups[c]
      /\ \A c \in Cells(e2.tables.groups) :
           Holds(e2.heap.groups[c].files, f.heap.groups[c].files, e2.tables.infos)
  <2>1. \A i \in 1..Len(e2.tables.groups) :
          GroupFits(i - 1, e2.heap.groups[e2.tables.groups[i]], e2.tables)
    BY <1>6 DEF OwnersFit
  <2> QED BY <1>2, <1>6, <2>1, GroupsResolved
<1>8. /\ EngineOK(f) /\ f.tables = e.tables
      /\ f.heap.packages = e1.heap.packages /\ f.heap.children = e2.heap.children
  BY <1>6, <1>7, Kinds10 DEF Stepped
<1>9. \A u \in TableNames : DOMAIN f.heap[u] = DOMAIN e.heap[u]
  BY <1>3, <1>5, <1>7 DEF Stepped
<1>10. \A u \in TableNames \ {"packages", "children", "groups"} : f.heap[u] = e.heap[u]
  BY <1>3, <1>5, <1>7 DEF Stepped
<1>11. /\ DOMAIN f.heap.packages = DOMAIN e.heap.packages
       /\ DOMAIN f.heap.children = DOMAIN e.heap.children
       /\ DOMAIN f.heap.groups = DOMAIN e.heap.groups
  BY <1>9, Kinds10
<1>12. \/ /\ Cells(e.tables.packages) = DOMAIN e.heap.packages
          /\ Cells(e.tables.children) = DOMAIN e.heap.children
          /\ Cells(e.tables.groups) = DOMAIN e.heap.groups
       \/ OwnersKnown(e.heap)
  BY Kinds10 DEF Fresh
<1>13. \A c \in DOMAIN f.heap.packages :
         IsSet(f.heap.packages[c].groups) /\ IsSet(f.heap.packages[c].infos)
           /\ IsSet(f.heap.packages[c].children)
  <2> TAKE c \in DOMAIN f.heap.packages
  <2> QED BY <1>3, <1>8, <1>11, <1>12 DEF OwnersKnown
<1>14. \A c \in DOMAIN f.heap.children : IsCell(f.heap.children[c].package)
  <2> TAKE c \in DOMAIN f.heap.children
  <2> QED BY <1>4, <1>5, <1>8, <1>11, <1>12 DEF OwnersKnown
<1>15. \A c \in DOMAIN f.heap.groups :
         ~IsUnresolved(f.heap.groups[c].sub) /\ f.heap.groups[c].files.is # "range"
  <2> TAKE c \in DOMAIN f.heap.groups
  <2> QED BY <1>6, <1>7, <1>11, <1>12 DEF OwnersKnown
<1>16. \A c \in Cells(e.tables.groups) :
         Holds(e.heap.groups[c].files, f.heap.groups[c].files, e.tables.infos)
  BY <1>6, <1>7
<1> QED
  BY <1>8, <1>9, <1>10, <1>13, <1>14, <1>15, <1>16 DEF OwnersKnown

-----------------------------------------------------------------------------
(* The offsets that the later loops count from. *)

\* The distance of a group's first info from the first of the table, in GUIDs.
LEMMA DistanceIsInt ==
  ASSUME NEW e, EngineOK(e), \A t \in TableNames : DOMAIN e.heap[t] \subseteq Nat,
         e.tables.infos # <<>>,
         NEW g \in Cells(e.tables.groups), IsInfoGroup(e, g), e.heap.groups[g].files.cells # <<>>
  PROVE  Distance(e, g) \in Int
<1>1. PICK cells, infos : cells = e.heap.groups[g].files.cells /\ infos = e.tables.infos
  OBVIOUS
<1>2. infos \in Seq(DOMAIN e.heap.infos) /\ DOMAIN e.heap.infos \subseteq Nat
  BY <1>1, Kinds10 DEF EngineOK
<1>3. cells \in Seq(DOMAIN e.heap.infos)
  <2>1. g \in DOMAIN e.heap.groups
    BY Kinds10, CellsOfSeq DEF EngineOK
  <2>2. GroupOK(e.heap, e.heap.groups[g])
    BY <2>1, Kinds10 DEF EngineOK, HeapOK, RecordOK
  <2> QED BY <1>1, <2>2 DEF IsInfoGroup, GroupOK, FileSets
<1>4. cells[1] \in Nat /\ infos[1] \in Nat
  <2>1. 1 \in 1..Len(cells) /\ 1 \in 1..Len(infos)
    <3>1. \A S : \A s \in Seq(S) : s # <<>> => 1 \in 1..Len(s)
      BY LenProperties, EmptySeq
    <3> QED BY <1>1, <1>2, <1>3, <3>1
  <2> QED BY <1>2, <1>3, <2>1, ElementOfSeq
<1> QED
  BY <1>1, <1>4 DEF Distance

LEMMA InfoStartIsNat ==
  ASSUME NEW e, EngineOK(e), \A t \in TableNames : DOMAIN e.heap[t] \subseteq Nat,
         PartsMeasurable(e)
  PROVE  InfoStart(e) \in Nat
<1> DEFINE s == e.tables.groups
           Apart(n) == {i \in 1..n : /\ IsInfoGroup(e, s[i])
                                     /\ e.heap.groups[s[i]].files.cells # <<>>
                                     /\ Distance(e, s[i]) # 0}
<1>1. \A n : PartStart(e, IsInfoGroup, n)
               = IF Apart(n) = {} THEN 0 ELSE Distance(e, s[Min(Apart(n))])
  BY DEF PartStart
<1>2. InfoStart(e) = IF Apart(Len(s)) = {} THEN 0 ELSE Distance(e, s[Min(Apart(Len(s)))])
  BY DEF InfoStart, PartStart
<1>3. s \in Seq(DOMAIN e.heap.groups) /\ Len(s) \in Nat
  BY Kinds10, LenProperties DEF EngineOK
<1>4. \A n : Apart(n) \subseteq 1..n
  OBVIOUS
<1> HIDE DEF Apart
<1>5. CASE Apart(Len(s)) # {}
  <2>1. PICK i : i = Min(Apart(Len(s)))
    OBVIOUS
  <2>2. i \in Apart(Len(s)) /\ \A m \in Apart(Len(s)) : i <= m
    <3>1. Apart(Len(s)) \subseteq Nat
      BY <1>3, <1>4
    <3> QED BY <1>5, <2>1, <3>1, MinIsLeast
  <2>3. i \in 1..Len(s) /\ IsInfoGroup(e, s[i])
    BY <2>2 DEF Apart
  <2>4. Apart(i - 1) = {}
    <3>1. SUFFICES ASSUME NEW m \in Apart(i - 1) PROVE FALSE
      OBVIOUS
    <3>2. m \in 1..(i - 1) /\ m \in 1..Len(s)
      BY <1>3, <1>4, <2>3, <3>1
    <3>3. m \in Apart(Len(s))
      BY <3>1, <3>2 DEF Apart
    <3> QED BY <2>2, <2>3, <3>2, <3>3
  <2>5. PartStart(e, IsInfoGroup, i - 1) = 0
    BY <1>1, <2>4
  <2>6. e.heap.groups[s[i]].files.cells # <<>> /\ Distance(e, s[i]) >= 0
    BY <2>3, <2>5 DEF PartsMeasurable
  <2>7. s[i] \in Cells(s) /\ e.tables.infos # <<>>
    BY <2>3 DEF Cells, PartsMeasurable
  <2>8. Distance(e, s[i]) \in Int
    BY <2>3, <2>6, <2>7, DistanceIsInt
  <2> QED BY <1>2, <1>5, <2>1, <2>6, <2>8
<1> QED
  BY <1>2, <1>5

LEMMA VersionStartIsNat ==
  ASSUME NEW e, EngineOK(e), \A t \in TableNames : DOMAIN e.heap[t] \subseteq Nat,
         PartsMeasurable(e)
  PROVE  VersionStart(e) \in Nat
<1> DEFINE s == e.tables.groups
           Apart(n) == {i \in 1..n : /\ IsVersionGroup(e, s[i])
                                     /\ e.heap.groups[s[i]].files.cells # <<>>
                                     /\ Distance(e, s[i]) # 0}
<1>1. \A n : PartStart(e, IsVersionGroup, n)
               = IF Apart(n) = {} THEN 0 ELSE Distance(e, s[Min(Apart(n))])
  BY DEF PartStart
<1>2. VersionStart(e) = IF Apart(Len(s)) = {} THEN 0 ELSE Distance(e, s[Min(Apart(Len(s)))])
  BY DEF VersionStart, PartStart
<1>3. s \in Seq(DOMAIN e.heap.groups) /\ Len(s) \in Nat
  BY Kinds10, LenProperties DEF EngineOK
<1>4. \A n : Apart(n) \subseteq 1..n
  OBVIOUS
<1> HIDE DEF Apart
<1>5. CASE Apart(Len(s)) # {}
  <2>1. PICK i : i = Min(Apart(Len(s)))
    OBVIOUS
  <2>2. i \in Apart(Len(s)) /\ \A m \in Apart(Len(s)) : i <= m
    <3>1. Apart(Len(s)) \subseteq Nat
      BY <1>3, <1>4
    <3> QED BY <1>5, <2>1, <3>1, MinIsLeast
  <2>3. i \in 1..Len(s) /\ IsVersionGroup(e, s[i])
    BY <2>2 DEF Apart
  <2>4. Apart(i - 1) = {}
    <3>1. SUFFICES ASSUME NEW m \in Apart(i - 1) PROVE FALSE
      OBVIOUS
    <3>2. m \in 1..(i - 1) /\ m \in 1..Len(s)
      BY <1>3, <1>4, <2>3, <3>1
    <3>3. m \in Apart(Len(s))
      BY <3>1, <3>2 DEF Apart
    <3> QED BY <2>2, <2>3, <3>2, <3>3
  <2>5. PartStart(e, IsVersionGroup, i - 1) = 0
    BY <1>1, <2>4
  <2>6. e.heap.groups[s[i]].files.cells # <<>> /\ Distance(e, s[i]) >= 0
    BY <2>3, <2>5 DEF PartsMeasurable
  <2>7. s[i] \in Cells(s) /\ e.tables.infos # <<>> /\ IsInfoGroup(e, s[i])
    BY <2>3 DEF Cells, PartsMeasurable, IsVersionGroup
  <2>8. Distance(e, s[i]) \in Int
    BY <2>6, <2>7, DistanceIsInt
  <2> QED BY <1>2, <1>5, <2>1, <2>6, <2>8
<1> QED
  BY <1>2, <1>5

LEMMA LatestFileIsNat ==
  ASSUME NEW e, EngineOK(e), \A t \in TableNames : DOMAIN e.heap[t] \subseteq Nat,
         PartsMeasurable(e)
  PROVE  LatestFile(e) \in Nat
<1> DEFINE s == e.tables.groups
<1>1. s \in Seq(DOMAIN e.heap.groups) /\ s # <<>> /\ Len(s) \in Nat
  BY Kinds10, LenProperties DEF EngineOK, PartsMeasurable
<1>2. Len(s) \in 1..Len(s) /\ LastOf(s) \in Cells(s) /\ LastOf(s) = s[Len(s)]
  BY <1>1, CellsOfSeq DEF LastOf
<1>3. /\ IsInfoGroup(e, LastOf(s)) /\ e.tables.infos # <<>>
      /\ e.heap.groups[LastOf(s)].files.cells # <<>>
      /\ LatestFile(e) >= 0
  BY <1>2 DEF PartsMeasurable
<1>4. Distance(e, LastOf(s)) \in Int
  BY <1>2, <1>3, DistanceIsInt
<1>5. VersionStart(e) \in Nat
  BY VersionStartIsNat
<1>6. LatestFile(e) \in Int
  BY <1>4, <1>5 DEF LatestFile
<1> QED
  BY <1>3, <1>6

LEMMA PartsStay ==
  ASSUME NEW e, NEW f, f.tables = e.tables, f.heap.groups = e.heap.groups
  PROVE  VersionStart(f) = VersionStart(e) /\ InfoStart(f) = InfoStart(e)
<1>1. /\ \A g : Distance(f, g) = Distance(e, g)
      /\ \A g : IsInfoGroup(f, g) <=> IsInfoGroup(e, g)
      /\ \A g : IsVersionGroup(f, g) <=> IsVersionGroup(e, g)
  BY DEF Distance, IsInfoGroup, IsVersionGroup
<1>2. VersionStart(f) = VersionStart(e)
  <2> DEFINE Apart(d) == {i \in 1..Len(e.tables.groups) :
                /\ IsVersionGroup(d, e.tables.groups[i])
                /\ e.heap.groups[e.tables.groups[i]].files.cells # <<>>
                /\ Distance(d, e.tables.groups[i]) # 0}
  <2>1. Apart(f) = Apart(e)
    BY SMTT(60), <1>1
  <2>2. \A d \in {e, f} : VersionStart(d) = IF Apart(d) = {} THEN 0
                                ELSE Distance(d, e.tables.groups[Min(Apart(d))])
    BY ZenonT(60) DEF VersionStart, PartStart
  <2> HIDE DEF Apart
  <2> QED BY <1>1, <2>1, <2>2
<1>3. InfoStart(f) = InfoStart(e)
  <2> DEFINE Apart(d) == {i \in 1..Len(e.tables.groups) :
                /\ IsInfoGroup(d, e.tables.groups[i])
                /\ e.heap.groups[e.tables.groups[i]].files.cells # <<>>
                /\ Distance(d, e.tables.groups[i]) # 0}
  <2>1. Apart(f) = Apart(e)
    BY <1>1
  <2>2. \A d \in {e, f} : InfoStart(d) = IF Apart(d) = {} THEN 0
                                ELSE Distance(d, e.tables.groups[Min(Apart(d))])
    BY DEF InfoStart, PartStart
  <2> HIDE DEF Apart
  <2> QED BY <1>1, <2>1, <2>2
<1> QED
  BY <1>2, <1>3

-----------------------------------------------------------------------------
(* The loops over paths, links, infos, descriptors, patches and files. *)

LEMMA PathsResolved ==
  ASSUME NEW e, EngineOK(e), LatestFile(e) \in Nat,
         \A p \in Cells(e.tables.paths) :
           /\ Fits(e.heap.paths[p].link, e.tables.links)
           /\ Fits(Shifted(e.heap.paths[p].file, LatestFile(e)), e.tables.files),
         NEW f, f = ResolvePaths(e)
  PROVE  /\ Stepped(e, f, "paths")
         /\ \A c \in DOMAIN e.heap.paths :
              IF c \in Cells(e.tables.paths)
                THEN IsCell(f.heap.paths[c].link) /\ ~IsUnresolved(f.heap.paths[c].file)
                ELSE f.heap.paths[c] = e.heap.paths[c]
<1> DEFINE s == e.tables
           h == e.heap
           New(x) == [x EXCEPT !.link = Resolve(@, s.links),
                               !.file = Resolve(Shifted(@, LatestFile(e)), s.files)]
           F == [g \in DOMAIN h.paths |->
                   IF g \in Cells(s.paths) THEN New(h.paths[g]) ELSE h.paths[g]]
<1>1. f = Put(e, "paths", F)
  BY DEF ResolvePaths, OnTable, Put
<1>2. s.links \in Seq(DOMAIN h.links) /\ s.files \in Seq(DOMAIN h.files)
  BY Kinds10 DEF EngineOK
<1>3. ASSUME NEW c \in DOMAIN h.paths, c \in Cells(s.paths)
      PROVE  /\ PathOK(h, New(h.paths[c]))
             /\ IsCell(New(h.paths[c]).link) /\ ~IsUnresolved(New(h.paths[c]).file)
  <2>1. PICK x : x = h.paths[c]
    OBVIOUS
  <2>2. /\ PathOK(h, x) /\ Fits(x.link, s.links)
        /\ Fits(Shifted(x.file, LatestFile(e)), s.files)
    BY <1>3, <2>1, Kinds10 DEF EngineOK, HeapOK, RecordOK
  <2>3. PICK p, q, y :
          /\ p = Resolve(x.link, s.links)
          /\ q = Resolve(Shifted(x.file, LatestFile(e)), s.files)
          /\ y = New(x)
    OBVIOUS
  <2>4. p \in ReferenceTo(DOMAIN h.links) \ {None} /\ IsCell(p)
    BY <1>2, <2>2, <2>3, ReferenceResolved DEF PathOK
  <2>5. q \in ReferenceTo(DOMAIN h.files) /\ ~IsUnresolved(q)
    <3>1. Shifted(x.file, LatestFile(e)) \in ReferenceTo(DOMAIN h.files)
      BY <2>2, ReferenceShifted DEF PathOK
    <3> QED BY <1>2, <2>2, <2>3, <3>1, ReferenceResolved
  <2>6. y = [fullPath |-> x.fullPath, link |-> p, file |-> q]
    BY <2>2, <2>3 DEF PathOK
  <2>7. PathOK(h, y) /\ IsCell(y.link) /\ ~IsUnresolved(y.file)
    BY <2>4, <2>5, <2>6 DEF PathOK
  <2> HIDE DEF New
  <2> QED BY <2>1, <2>3, <2>7
<1>4. IsFunction(F) /\ DOMAIN F = DOMAIN h["paths"]
  BY DEF IsFunction
<1>5. \A c \in DOMAIN F : RecordOK(h, "paths", F[c])
  <2> TAKE c \in DOMAIN F
  <2>1. CASE c \in Cells(s.paths)
    <3>1. PathOK(h, F[c])
      BY <1>3, <2>1
    <3> QED BY <3>1 DEF RecordOK
  <2>2. CASE c \notin Cells(s.paths)
    BY <2>2, Kinds10 DEF EngineOK, HeapOK
  <2> QED BY <2>1, <2>2
<1>6. \A c \in DOMAIN h.paths :
        IF c \in Cells(s.paths) THEN IsCell(F[c].link) /\ ~IsUnresolved(F[c].file)
        ELSE F[c] = h.paths[c]
  <2> TAKE c \in DOMAIN h.paths
  <2> QED BY <1>3
<1> HIDE DEF F
<1>7. Stepped(e, f, "paths") /\ f.heap["paths"] = F
  BY <1>1, <1>4, <1>5, Kinds10, PutKeepsEngine DEF Stepped
<1> QED
  BY <1>6, <1>7

LEMMA LinksResolved ==
  ASSUME NEW e, EngineOK(e),
         \A l \in Cells(e.tables.links) :
           /\ OwnerFits(e.heap.links[l].owner, e.tables)
           /\ Fits(e.heap.links[l].info, e.tables.infos),
         NEW f, f = ResolveLinks(e)
  PROVE  /\ Stepped(e, f, "links")
         /\ \A c \in DOMAIN e.heap.links :
              IF c \in Cells(e.tables.links)
                THEN ~IsUnresolved(f.heap.links[c].owner) /\ IsCell(f.heap.links[c].info)
                ELSE f.heap.links[c] = e.heap.links[c]
<1> DEFINE s == e.tables
           h == e.heap
           New(x) == [x EXCEPT !.owner = ResolveOwner(@, s), !.info = Resolve(@, s.infos)]
           F == [g \in DOMAIN h.links |->
                   IF g \in Cells(s.links) THEN New(h.links[g]) ELSE h.links[g]]
<1>1. f = Put(e, "links", F)
  BY DEF ResolveLinks, OnTable, Put
<1>2. /\ s.packages \in Seq(DOMAIN h.packages) /\ s.groups \in Seq(DOMAIN h.groups)
      /\ s.infos \in Seq(DOMAIN h.infos)
  BY Kinds10 DEF EngineOK
<1>3. ASSUME NEW c \in DOMAIN h.links, c \in Cells(s.links)
      PROVE  /\ LinkOK(h, New(h.links[c]))
             /\ ~IsUnresolved(New(h.links[c]).owner) /\ IsCell(New(h.links[c]).info)
  <2>1. PICK x : x = h.links[c]
    OBVIOUS
  <2>2. LinkOK(h, x) /\ OwnerFits(x.owner, s) /\ Fits(x.info, s.infos)
    BY <1>3, <2>1, Kinds10 DEF EngineOK, HeapOK, RecordOK
  <2>3. PICK p, q, y : p = ResolveOwner(x.owner, s) /\ q = Resolve(x.info, s.infos) /\ y = New(x)
    OBVIOUS
  <2>4. p \in OwnersIn(h) /\ ~IsUnresolved(p)
    <3>1. x.owner # None
      <4>1. \A o \in [is : {"index"}, index : Nat] \cup OwnersIn(h) : o.is # "none"
        BY DEF OwnersIn
      <4> QED BY <2>2, <4>1 DEF LinkOK, None
    <3> QED BY <1>2, <2>2, <2>3, <3>1, OwnerResolved DEF LinkOK
  <2>5. q \in ReferenceTo(DOMAIN h.infos) \ {None} /\ IsCell(q)
    BY <1>2, <2>2, <2>3, ReferenceResolved DEF LinkOK
  <2>6. y = [owner |-> p, info |-> q]
    BY <2>2, <2>3 DEF LinkOK
  <2>7. LinkOK(h, y) /\ ~IsUnresolved(y.owner) /\ IsCell(y.info)
    BY <2>4, <2>5, <2>6 DEF LinkOK
  <2> HIDE DEF New
  <2> QED BY <2>1, <2>3, <2>7
<1>4. IsFunction(F) /\ DOMAIN F = DOMAIN h["links"]
  BY DEF IsFunction
<1>5. \A c \in DOMAIN F : RecordOK(h, "links", F[c])
  <2> TAKE c \in DOMAIN F
  <2>1. CASE c \in Cells(s.links)
    <3>1. LinkOK(h, F[c])
      BY <1>3, <2>1
    <3> QED BY <3>1 DEF RecordOK
  <2>2. CASE c \notin Cells(s.links)
    BY <2>2, Kinds10 DEF EngineOK, HeapOK
  <2> QED BY <2>1, <2>2
<1>6. \A c \in DOMAIN h.links :
        IF c \in Cells(s.links) THEN ~IsUnresolved(F[c].owner) /\ IsCell(F[c].info)
        ELSE F[c] = h.links[c]
  <2> TAKE c \in DOMAIN h.links
  <2> QED BY <1>3
<1> HIDE DEF F
<1>7. Stepped(e, f, "links") /\ f.heap["links"] = F
  BY <1>1, <1>4, <1>5, Kinds10, PutKeepsEngine DEF Stepped
<1> QED
  BY <1>6, <1>7

LEMMA InfosResolved ==
  ASSUME NEW e, EngineOK(e),
         \A i \in Cells(e.tables.infos) :
           /\ Fits(e.heap.infos[i].path, e.tables.paths)
           /\ Fits(e.heap.infos[i].link, e.tables.links)
           /\ SpanFits(e.heap.infos[i].descriptors, e.tables.descriptors),
         NEW f, f = ResolveInfos(e)
  PROVE  /\ Stepped(e, f, "infos")
         /\ \A c \in DOMAIN e.heap.infos :
              IF c \in Cells(e.tables.infos)
                THEN /\ IsCell(f.heap.infos[c].path) /\ IsCell(f.heap.infos[c].link)
                     /\ IsSet(f.heap.infos[c].descriptors)
                     /\ f.heap.infos[c].descriptors
                          = ResolveSpan(e.heap.infos[c].descriptors, e.tables.descriptors)
                ELSE f.heap.infos[c] = e.heap.infos[c]
<1> DEFINE s == e.tables
           h == e.heap
           New(x) == [x EXCEPT !.path = Resolve(@, s.paths), !.link = Resolve(@, s.links),
                               !.descriptors = ResolveSpan(@, s.descriptors)]
           Known(x, y) == /\ IsCell(y.path) /\ IsCell(y.link) /\ IsSet(y.descriptors)
                          /\ y.descriptors = ResolveSpan(x.descriptors, s.descriptors)
           F == [g \in DOMAIN h.infos |->
                   IF g \in Cells(s.infos) THEN New(h.infos[g]) ELSE h.infos[g]]
<1>1. f = Put(e, "infos", F)
  BY DEF ResolveInfos, OnTable, Put
<1>2. /\ s.paths \in Seq(DOMAIN h.paths) /\ s.links \in Seq(DOMAIN h.links)
      /\ s.descriptors \in Seq(DOMAIN h.descriptors)
  BY Kinds10 DEF EngineOK
<1>3. ASSUME NEW c \in DOMAIN h.infos, c \in Cells(s.infos)
      PROVE  InfoOK(h, New(h.infos[c])) /\ Known(h.infos[c], New(h.infos[c]))
  <2>1. PICK x : x = h.infos[c]
    OBVIOUS
  <2>2. /\ InfoOK(h, x) /\ Fits(x.path, s.paths) /\ Fits(x.link, s.links)
        /\ SpanFits(x.descriptors, s.descriptors)
    BY <1>3, <2>1, Kinds10 DEF EngineOK, HeapOK, RecordOK
  <2>3. PICK p, q, d, y : /\ p = Resolve(x.path, s.paths) /\ q = Resolve(x.link, s.links)
                          /\ d = ResolveSpan(x.descriptors, s.descriptors) /\ y = New(x)
    OBVIOUS
  <2>4. p \in ReferenceTo(DOMAIN h.paths) \ {None} /\ IsCell(p)
    BY <1>2, <2>2, <2>3, ReferenceResolved DEF InfoOK
  <2>5. q \in ReferenceTo(DOMAIN h.links) \ {None} /\ IsCell(q)
    BY <1>2, <2>2, <2>3, ReferenceResolved DEF InfoOK
  <2>6. d \in SpanSetOf(DOMAIN h.descriptors) /\ IsSet(d)
    BY <1>2, <2>2, <2>3, SpanResolved DEF InfoOK
  <2>7. y = [path |-> p, link |-> q, descriptors |-> d, kind |-> x.kind, shared |-> x.shared]
    BY <2>2, <2>3 DEF InfoOK
  <2>8. InfoOK(h, y)
    BY <2>2, <2>4, <2>5, <2>6, <2>7 DEF InfoOK
  <2>9. Known(x, y)
    BY <2>3, <2>4, <2>5, <2>6, <2>7
  <2> HIDE DEF New, Known
  <2> QED BY <2>1, <2>3, <2>8, <2>9
<1>4. IsFunction(F) /\ DOMAIN F = DOMAIN h["infos"]
  BY DEF IsFunction
<1>5. \A c \in DOMAIN F : RecordOK(h, "infos", F[c])
  <2> TAKE c \in DOMAIN F
  <2>1. CASE c \in Cells(s.infos)
    <3>1. InfoOK(h, F[c])
      BY <1>3, <2>1
    <3> QED BY <3>1 DEF RecordOK
  <2>2. CASE c \notin Cells(s.infos)
    BY <2>2, Kinds10 DEF EngineOK, HeapOK
  <2> QED BY <2>1, <2>2
<1>6. \A c \in DOMAIN h.infos :
        IF c \in Cells(s.infos) THEN Known(h.infos[c], F[c]) ELSE F[c] = h.infos[c]
  <2> TAKE c \in DOMAIN h.infos
  <2> HIDE DEF New, Known
  <2> QED BY <1>3
<1> HIDE DEF F
<1>7. Stepped(e, f, "infos") /\ f.heap["infos"] = F
  BY <1>1, <1>4, <1>5, Kinds10, PutKeepsEngine DEF Stepped
<1> QED
  BY <1>6, <1>7

LEMMA DescriptorResolved ==
  ASSUME NEW e, EngineOK(e), InfoStart(e) \in Nat, NEW x, DescriptorOK(e.heap, x),
         NEW owners, owners # {}, owners \subseteq Nat, DescriptorFits(e, x, owners)
  PROVE  /\ DescriptorOK(e.heap, ResolveDescriptor(e, x, owners))
         /\ DescriptorKnown(ResolveDescriptor(e, x, owners))
<1> DEFINE s == e.tables
           h == e.heap
           t == ArgsTable(x)
<1>1. /\ s.groups \in Seq(DOMAIN h.groups) /\ s.metadatas \in Seq(DOMAIN h.metadatas)
      /\ s[t] \in Seq(DOMAIN h[t])
  BY Kinds10 DEF EngineOK, ArgsTable
<1>2. PICK p, q, a, b, y :
        /\ p = Resolve(x.group, s.groups) /\ q = Resolve(x.metadata, s.metadatas)
        /\ a = ArgsOf(e, x, owners) /\ b = Resolve(a, s[t])
        /\ y = ResolveDescriptor(e, x, owners)
  OBVIOUS
<1>3. p \in ReferenceTo(DOMAIN h.groups) \ {None} /\ IsCell(p)
  BY <1>1, <1>2, ReferenceResolved DEF DescriptorOK, DescriptorFits
<1>4. q \in ReferenceTo(DOMAIN h.metadatas) /\ ~IsUnresolved(q)
  BY <1>1, <1>2, ReferenceResolved DEF DescriptorOK, DescriptorFits
<1>5. a \in ReferenceTo(DOMAIN h[t]) /\ Fits(a, s[t])
  <2>1. x.args \in ReferenceTo(DOMAIN h[t])
    BY DEF DescriptorOK
  <2>2. Min(owners) \in owners
    BY MinIsLeast
  <2>3. CASE x.load = "owned" /\ \E i \in owners : ~OfVersion(e, i)
    <3>1. a = None
      BY <1>2, <2>3 DEF ArgsOf
    <3>2. None.is = "none"
      BY DEF None
    <3> QED BY <3>1, <3>2 DEF ReferenceTo, Fits, IsUnresolved
  <2>4. CASE x.load = "owned" /\ ~ \E i \in owners : ~OfVersion(e, i)
    <3>1. Fits(x.args, s.patches) /\ t = "patches"
      BY <2>2, <2>4 DEF DescriptorFits, ArgsTable
    <3>2. a = Shifted(x.args, 0)
      BY <1>2, <2>4 DEF ArgsOf
    <3>3. a = x.args
      <4>1. CASE IsUnresolved(x.args)
        <5>1. PICK i \in Nat : x.args = Unresolved(i)
          BY <2>1, <4>1 DEF ReferenceTo, IsUnresolved, None, Unresolved
        <5>2. i + 0 = i /\ Unresolved(i).index = i
          BY DEF Unresolved
        <5> QED BY <3>2, <4>1, <5>1, <5>2 DEF Shifted
      <4>2. CASE ~IsUnresolved(x.args)
        BY <3>2, <4>2 DEF Shifted
      <4> QED BY <4>1, <4>2
    <3> QED BY <2>1, <3>1, <3>3
  <2>5. CASE x.load # "owned"
    <3>1. Fits(a, s[t])
      BY <1>2, <2>5 DEF DescriptorFits
    <3>2. PICK n \in Nat : a = Shifted(x.args, n)
      <4>1. SkipOffset(e, Min(owners)) \in Nat
        BY DEF SkipOffset
      <4> QED BY <1>2, <2>5, <4>1 DEF ArgsOf
    <3> QED BY <2>1, <3>1, <3>2, ReferenceShifted
  <2> QED BY <2>3, <2>4, <2>5
<1>6. b \in ReferenceTo(DOMAIN h[t]) /\ ~IsUnresolved(b)
  <2> HIDE DEF t
  <2> QED BY <1>1, <1>2, <1>5, ReferenceResolved
<1>7. y = [group |-> p, metadata |-> q, load |-> x.load, args |-> b]
  BY <1>2 DEF DescriptorOK, ResolveDescriptor
<1>8. ArgsTable(y) = t /\ DescriptorKnown(y)
  BY <1>3, <1>4, <1>6, <1>7 DEF ArgsTable, DescriptorKnown
<1>9. DescriptorOK(h, y)
  <2> HIDE DEF t
  <2> QED BY <1>3, <1>4, <1>6, <1>7, <1>8 DEF DescriptorOK
<1> QED
  BY <1>2, <1>8, <1>9

LEMMA DescriptorsResolved ==
  ASSUME NEW e, EngineOK(e), InfoStart(e) \in Nat,
         \A d \in DOMAIN e.heap.descriptors :
           InfosWith(e, d) # {} => DescriptorFits(e, e.heap.descriptors[d], InfosWith(e, d)),
         NEW f, f = ResolveDescriptors(e)
  PROVE  /\ Stepped(e, f, "descriptors")
         /\ \A d \in DOMAIN e.heap.descriptors :
              InfosWith(e, d) # {} \/ DescriptorKnown(e.heap.descriptors[d])
                => DescriptorKnown(f.heap.descriptors[d])
<1> DEFINE h == e.heap
           F == [d \in DOMAIN h.descriptors |->
                   IF InfosWith(e, d) = {} THEN h.descriptors[d]
                   ELSE ResolveDescriptor(e, h.descriptors[d], InfosWith(e, d))]
<1>1. f = Put(e, "descriptors", F)
  BY DEF ResolveDescriptors, Put
<1>2. \A d : InfosWith(e, d) \subseteq Nat
  <2>1. Len(e.tables.infos) \in Nat
    BY Kinds10, LenProperties DEF EngineOK
  <2> QED BY <2>1 DEF InfosWith
<1>3. ASSUME NEW d \in DOMAIN h.descriptors
      PROVE  /\ DescriptorOK(h, F[d])
             /\ InfosWith(e, d) # {} \/ DescriptorKnown(h.descriptors[d]) => DescriptorKnown(F[d])
  <2>1. PICK x, owners : x = h.descriptors[d] /\ owners = InfosWith(e, d)
    OBVIOUS
  <2>2. DescriptorOK(h, x)
    BY <2>1, Kinds10 DEF EngineOK, HeapOK, RecordOK
  <2>3. CASE owners = {}
    BY <2>1, <2>2, <2>3
  <2>4. CASE owners # {}
    <3>1. F[d] = ResolveDescriptor(e, x, owners)
      BY <2>1, <2>4
    <3>2. owners \subseteq Nat /\ DescriptorFits(e, x, owners)
      BY <1>2, <2>1, <2>4
    <3> HIDE DEF F
    <3> QED BY <2>2, <2>4, <3>1, <3>2, DescriptorResolved
  <2> QED BY <2>3, <2>4
<1>4. IsFunction(F) /\ DOMAIN F = DOMAIN h["descriptors"]
  BY DEF IsFunction
<1> HIDE DEF F
<1>5. \A c \in DOMAIN F : RecordOK(h, "descriptors", F[c])
  BY <1>3, <1>4 DEF RecordOK
<1>6. Stepped(e, f, "descriptors") /\ f.heap["descriptors"] = F
  BY <1>1, <1>4, <1>5, Kinds10, PutKeepsEngine DEF Stepped
<1> QED
  BY <1>3, <1>6

LEMMA PatchesResolved ==
  ASSUME NEW e, EngineOK(e), VersionStart(e) \in Nat,
         \A n \in 1..Len(e.tables.patches) :
           LET x == e.heap.patches[e.tables.patches[n]]
           IN /\ SpanFits(x.files, e.tables.files)
              /\ SpanFits(ShiftedSpan(x.infos, VersionStart(e)), e.tables.infos)
              /\ Fits(Shifted(x.group, n - 1), e.tables.groups),
         NEW f, f = ResolvePatches(e)
  PROVE  /\ Stepped(e, f, "patches")
         /\ \A c \in DOMAIN e.heap.patches :
              IF c \in Cells(e.tables.patches)
                THEN LET y == f.heap.patches[c]
                     IN IsSet(y.files) /\ IsSet(y.infos) /\ IsCell(y.group)
                ELSE f.heap.patches[c] = e.heap.patches[c]
<1> DEFINE s == e.tables
           h == e.heap
           v == VersionStart(e)
           New(i, x) == [x EXCEPT !.files = ResolveSpan(@, s.files),
                                  !.infos = ResolveSpan(ShiftedSpan(@, v), s.infos),
                                  !.group = Resolve(Shifted(@, i), s.groups)]
           Known(y) == IsSet(y.files) /\ IsSet(y.infos) /\ IsCell(y.group)
           F == [g \in DOMAIN h.patches |->
                   IF g \in Cells(s.patches)
                     THEN New(PositionOf(s.patches, g), h.patches[g]) ELSE h.patches[g]]
<1>1. f = Put(e, "patches", F)
  BY DEF ResolvePatches, OnTable, Put
<1>2. /\ s.files \in Seq(DOMAIN h.files) /\ s.infos \in Seq(DOMAIN h.infos)
      /\ s.groups \in Seq(DOMAIN h.groups) /\ s.patches \in Seq(DOMAIN h.patches)
  BY Kinds10 DEF EngineOK
<1>3. ASSUME NEW c \in DOMAIN h.patches, c \in Cells(s.patches)
      PROVE  /\ PatchOK(h, New(PositionOf(s.patches, c), h.patches[c]))
             /\ Known(New(PositionOf(s.patches, c), h.patches[c]))
  <2>1. PICK x, i : x = h.patches[c] /\ i = PositionOf(s.patches, c)
    OBVIOUS
  <2>2. i \in Nat /\ i + 1 \in 1..Len(s.patches) /\ s.patches[i + 1] = c /\ (i + 1) - 1 = i
    <3>1. i \in 0..(Len(s.patches) - 1) /\ i + 1 \in 1..Len(s.patches) /\ s.patches[i + 1] = c
      BY <1>2, <1>3, <2>1, PositionIsIndex
    <3> QED BY <1>2, <3>1, LenProperties
  <2>3. /\ PatchOK(h, x) /\ SpanFits(x.files, s.files)
        /\ SpanFits(ShiftedSpan(x.infos, v), s.infos)
        /\ Fits(Shifted(x.group, i), s.groups)
    <3>1. PatchOK(h, x)
      BY <2>1, Kinds10 DEF EngineOK, HeapOK, RecordOK
    <3> QED BY <2>1, <2>2, <3>1
  <2>4. PICK p, q, r, y :
          /\ p = ResolveSpan(x.files, s.files)
          /\ q = ResolveSpan(ShiftedSpan(x.infos, v), s.infos)
          /\ r = Resolve(Shifted(x.group, i), s.groups)
          /\ y = New(i, x)
    OBVIOUS
  <2>5. p \in SpanSetOf(DOMAIN h.files) /\ IsSet(p)
    BY <1>2, <2>3, <2>4, SpanResolved DEF PatchOK
  <2>6. q \in SpanSetOf(DOMAIN h.infos) /\ IsSet(q)
    <3>1. ShiftedSpan(x.infos, v) \in SpanSetOf(DOMAIN h.infos)
      <4>1. CASE IsSet(x.infos)
        BY <2>3, <4>1 DEF PatchOK, ShiftedSpan
      <4>2. CASE ~IsSet(x.infos)
        <5>1. PICK m, n : m = x.infos.start /\ n = x.infos.end
          OBVIOUS
        <5>2. m \in Nat /\ n \in Nat /\ m <= n
          BY <2>3, <4>2, <5>1 DEF PatchOK, SpanSetOf, IsSet
        <5>3. m + v \in Nat /\ n - m \in Nat
          BY <5>2
        <5>4. ShiftedSpan(x.infos, v) = Span(m + v, n - m)
          BY <4>2, <5>1 DEF ShiftedSpan
        <5> QED BY <5>3, <5>4, SpanIsRange
      <4> QED BY SMTT(60), <4>1, <4>2
    <3> HIDE DEF v
    <3> QED BY <1>2, <2>3, <2>4, <3>1, SpanResolved
  <2>7. r \in ReferenceTo(DOMAIN h.groups) \ {None} /\ IsCell(r)
    <3>1. Shifted(x.group, i) \in ReferenceTo(DOMAIN h.groups) /\ Shifted(x.group, i) # None
      BY <2>2, <2>3, ReferenceShifted DEF PatchOK
    <3> QED BY <1>2, <2>3, <2>4, <3>1, ReferenceResolved
  <2>8. y = [version |-> x.version, group |-> r, files |-> p, infos |-> q]
    BY <2>3, <2>4 DEF PatchOK
  <2>9. PatchOK(h, y) /\ Known(y)
    BY <2>5, <2>6, <2>7, <2>8 DEF PatchOK
  <2> HIDE DEF New, Known
  <2> QED BY <2>1, <2>4, <2>9
<1>4. IsFunction(F) /\ DOMAIN F = DOMAIN h["patches"]
  BY ZenonT(60) DEF IsFunction
<1>5. \A c \in DOMAIN F : RecordOK(h, "patches", F[c])
  <2> TAKE c \in DOMAIN F
  <2>1. CASE c \in Cells(s.patches)
    <3>1. PatchOK(h, F[c])
      BY <1>3, <2>1
    <3> QED BY ZenonT(60), <3>1 DEF RecordOK
  <2>2. CASE c \notin Cells(s.patches)
    BY <2>2, Kinds10 DEF EngineOK, HeapOK
  <2> QED BY <2>1, <2>2
<1>6. \A c \in DOMAIN h.patches :
        IF c \in Cells(s.patches) THEN Known(F[c]) ELSE F[c] = h.patches[c]
  <2> TAKE c \in DOMAIN h.patches
  <2> HIDE DEF New, Known
  <2> QED BY <1>3
<1> HIDE DEF F
<1>7. Stepped(e, f, "patches") /\ f.heap["patches"] = F
  BY <1>1, <1>4, <1>5, Kinds10, PutKeepsEngine DEF Stepped
<1> QED
  BY SMTT(60), <1>6, <1>7

LEMMA FilesResolved ==
  ASSUME NEW e, EngineOK(e),
         \A c \in Cells(e.tables.files) :
           /\ Fits(e.heap.files[c].link, e.tables.links)
           /\ Fits(e.heap.files[c].info, e.tables.infos),
         NEW f, f = ResolveVersionedFiles(e)
  PROVE  /\ Stepped(e, f, "files")
         /\ \A c \in DOMAIN e.heap.files :
              IF c \in Cells(e.tables.files)
                THEN IsCell(f.heap.files[c].link) /\ IsCell(f.heap.files[c].info)
                ELSE f.heap.files[c] = e.heap.files[c]
<1> DEFINE s == e.tables
           h == e.heap
           New(x) == [x EXCEPT !.link = Resolve(@, s.links), !.info = Resolve(@, s.infos)]
           F == [g \in DOMAIN h.files |->
                   IF g \in Cells(s.files) THEN New(h.files[g]) ELSE h.files[g]]
<1>1. f = Put(e, "files", F)
  BY DEF ResolveVersionedFiles, OnTable, Put
<1>2. s.links \in Seq(DOMAIN h.links) /\ s.infos \in Seq(DOMAIN h.infos)
  BY Kinds10 DEF EngineOK
<1>3. ASSUME NEW c \in DOMAIN h.files, c \in Cells(s.files)
      PROVE  /\ VersionedFileOK(h, New(h.files[c]))
             /\ IsCell(New(h.files[c]).link) /\ IsCell(New(h.files[c]).info)
  <2>1. PICK x : x = h.files[c]
    OBVIOUS
  <2>2. VersionedFileOK(h, x) /\ Fits(x.link, s.links) /\ Fits(x.info, s.infos)
    BY <1>3, <2>1, Kinds10 DEF EngineOK, HeapOK, RecordOK
  <2>3. PICK p, q, y : p = Resolve(x.link, s.links) /\ q = Resolve(x.info, s.infos) /\ y = New(x)
    OBVIOUS
  <2>4. p \in ReferenceTo(DOMAIN h.links) \ {None} /\ IsCell(p)
    BY <1>2, <2>2, <2>3, ReferenceResolved DEF VersionedFileOK
  <2>5. q \in ReferenceTo(DOMAIN h.infos) \ {None} /\ IsCell(q)
    BY <1>2, <2>2, <2>3, ReferenceResolved DEF VersionedFileOK
  <2>6. y = [fullPath |-> x.fullPath, info |-> q, link |-> p, changed |-> x.changed]
    BY <2>2, <2>3 DEF VersionedFileOK
  <2>7. VersionedFileOK(h, y) /\ IsCell(y.link) /\ IsCell(y.info)
    BY <2>4, <2>5, <2>6 DEF VersionedFileOK
  <2> HIDE DEF New
  <2> QED BY <2>1, <2>3, <2>7
<1>4. IsFunction(F) /\ DOMAIN F = DOMAIN h["files"]
  BY DEF IsFunction
<1>5. \A c \in DOMAIN F : RecordOK(h, "files", F[c])
  <2> TAKE c \in DOMAIN F
  <2>1. CASE c \in Cells(s.files)
    <3>1. VersionedFileOK(h, F[c])
      BY <1>3, <2>1
    <3> QED BY <3>1 DEF RecordOK
  <2>2. CASE c \notin Cells(s.files)
    BY <2>2, Kinds10 DEF EngineOK, HeapOK
  <2> QED BY <2>1, <2>2
<1>6. \A c \in DOMAIN h.files :
        IF c \in Cells(s.files) THEN IsCell(F[c].link) /\ IsCell(F[c].info)
        ELSE F[c] = h.files[c]
  <2> TAKE c \in DOMAIN h.files
  <2> QED BY <1>3
<1> HIDE DEF F
<1>7. Stepped(e, f, "files") /\ f.heap["files"] = F
  BY <1>1, <1>4, <1>5, Kinds10, PutKeepsEngine DEF Stepped
<1> QED
  BY <1>6, <1>7

\* The loops over paths, links, infos, patches and files leave none unresolved.
LEMMA UsersResolved ==
  ASSUME NEW e, EngineOK(e), \A t \in TableNames : DOMAIN e.heap[t] \subseteq Nat,
         CanResolveUsers(e), Fresh(e) \/ UsersKnown(e.heap),
         NEW f, f = ResolveUsers(e)
  PROVE  /\ EngineOK(f)
         /\ f.tables = e.tables
         /\ \A u \in TableNames : DOMAIN f.heap[u] = DOMAIN e.heap[u]
         /\ \A u \in {"packages", "children", "groups"} : f.heap[u] = e.heap[u]
         /\ UsersKnown(f.heap)
<1> DEFINE s == e.tables
           h == e.heap
<1>1. PICK e1, e2, e3, e4, e5 :
        /\ e1 = ResolvePaths(e) /\ e2 = ResolveLinks(e1) /\ e3 = ResolveInfos(e2)
        /\ e4 = ResolveDescriptors(e3) /\ e5 = ResolvePatches(e4)
  OBVIOUS
<1>2. f = ResolveVersionedFiles(e5)
  BY <1>1 DEF ResolveUsers
<1>3. PartsMeasurable(e) /\ UsersFit(e)
  BY DEF CanResolveUsers
<1>4. InfoStart(e) \in Nat /\ VersionStart(e) \in Nat /\ LatestFile(e) \in Nat
  BY <1>3, InfoStartIsNat, VersionStartIsNat, LatestFileIsNat
<1>5. /\ Stepped(e, e1, "paths")
      /\ \A c \in DOMAIN h.paths :
           IF c \in Cells(s.paths)
             THEN IsCell(e1.heap.paths[c].link) /\ ~IsUnresolved(e1.heap.paths[c].file)
             ELSE e1.heap.paths[c] = h.paths[c]
  <2>1. \A p \in Cells(s.paths) :
          Fits(h.paths[p].link, s.links) /\ Fits(Shifted(h.paths[p].file, LatestFile(e)), s.files)
    BY <1>3 DEF UsersFit
  <2> QED BY <1>1, <1>4, <2>1, PathsResolved
<1>6. /\ EngineOK(e1) /\ e1.tables = s
      /\ \A u \in TableNames \ {"paths"} : e1.heap[u] = h[u]
  BY <1>5 DEF Stepped
<1>7. /\ Stepped(e1, e2, "links")
      /\ \A c \in DOMAIN h.links :
           IF c \in Cells(s.links)
             THEN ~IsUnresolved(e2.heap.links[c].owner) /\ IsCell(e2.heap.links[c].info)
             ELSE e2.heap.links[c] = h.links[c]
  <2>1. e1.heap.links = h.links
    BY <1>6, Kinds10
  <2>2. \A l \in Cells(s.links) : OwnerFits(h.links[l].owner, s) /\ Fits(h.links[l].info, s.infos)
    BY <1>3 DEF UsersFit
  <2>3. \A l \in Cells(e1.tables.links) :
          OwnerFits(e1.heap.links[l].owner, e1.tables) /\ Fits(e1.heap.links[l].info, e1.tables.infos)
    BY <1>6, <2>1, <2>2
  <2>4. /\ Stepped(e1, e2, "links")
        /\ \A c \in DOMAIN e1.heap.links :
             IF c \in Cells(e1.tables.links)
               THEN ~IsUnresolved(e2.heap.links[c].owner) /\ IsCell(e2.heap.links[c].info)
               ELSE e2.heap.links[c] = e1.heap.links[c]
    BY <1>1, <1>6, <2>3, LinksResolved
  <2> QED BY <1>6, <2>1, <2>4
<1>8. /\ EngineOK(e2) /\ e2.tables = s /\ e2.heap.paths = e1.heap.paths
      /\ \A u \in TableNames \ {"paths", "links"} : e2.heap[u] = h[u]
  BY <1>6, <1>7, Kinds10 DEF Stepped
<1>9. /\ Stepped(e2, e3, "infos")
      /\ \A c \in DOMAIN h.infos :
           IF c \in Cells(s.infos)
             THEN /\ IsCell(e3.heap.infos[c].path) /\ IsCell(e3.heap.infos[c].link)
                  /\ IsSet(e3.heap.infos[c].descriptors)
                  /\ e3.heap.infos[c].descriptors
                       = ResolveSpan(h.infos[c].descriptors, s.descriptors)
             ELSE e3.heap.infos[c] = h.infos[c]
  <2>1. e2.heap.infos = h.infos
    BY <1>8, Kinds10
  <2>2. \A i \in Cells(s.infos) :
          /\ Fits(h.infos[i].path, s.paths) /\ Fits(h.infos[i].link, s.links)
          /\ SpanFits(h.infos[i].descriptors, s.descriptors)
    BY <1>3 DEF UsersFit
  <2>3. \A i \in Cells(e2.tables.infos) :
          /\ Fits(e2.heap.infos[i].path, e2.tables.paths)
          /\ Fits(e2.heap.infos[i].link, e2.tables.links)
          /\ SpanFits(e2.heap.infos[i].descriptors, e2.tables.descriptors)
    BY <1>8, <2>1, <2>2
  <2>4. /\ Stepped(e2, e3, "infos")
        /\ \A c \in DOMAIN e2.heap.infos :
             IF c \in Cells(e2.tables.infos)
               THEN /\ IsCell(e3.heap.infos[c].path) /\ IsCell(e3.heap.infos[c].link)
                    /\ IsSet(e3.heap.infos[c].descriptors)
                    /\ e3.heap.infos[c].descriptors
                         = ResolveSpan(e2.heap.infos[c].descriptors, e2.tables.descriptors)
               ELSE e3.heap.infos[c] = e2.heap.infos[c]
    BY <1>1, <1>8, <2>3, InfosResolved
  <2> QED BY <1>8, <2>1, <2>4
<1>10. /\ EngineOK(e3) /\ e3.tables = s
       /\ e3.heap.paths = e1.heap.paths /\ e3.heap.links = e2.heap.links
       /\ \A u \in TableNames \ {"paths", "links", "infos"} : e3.heap[u] = h[u]
  BY <1>8, <1>9, Kinds10 DEF Stepped
<1>11. \A d : InfosWith(e3, d) = InfosWith(e, d)
  <2>1. \A i \in 1..Len(s.infos) :
          ResolveSpan(e3.heap.infos[s.infos[i]].descriptors, s.descriptors)
            = ResolveSpan(h.infos[s.infos[i]].descriptors, s.descriptors)
    <3> TAKE i \in 1..Len(s.infos)
    <3>1. s.infos[i] \in Cells(s.infos) /\ s.infos[i] \in DOMAIN h.infos
      <4>1. s.infos \in Seq(DOMAIN h.infos)
        BY Kinds10 DEF EngineOK
      <4> QED BY <4>1, CellsOfSeq
    <3>2. PICK x, y : x = e3.heap.infos[s.infos[i]].descriptors
                        /\ y = ResolveSpan(h.infos[s.infos[i]].descriptors, s.descriptors)
      OBVIOUS
    <3>3. x = y /\ IsSet(x)
      BY <1>9, <3>1, <3>2
    <3>4. ResolveSpan(x, s.descriptors) = x
      BY <3>3 DEF ResolveSpan
    <3> QED BY ZenonT(60), <3>2, <3>3, <3>4
  <2> TAKE d
  <2> QED BY ZenonT(60), <1>10, <2>1 DEF InfosWith
<1>12. e3.heap.groups = h.groups /\ e3.heap.descriptors = h.descriptors
  BY <1>10, Kinds10
<1>13. InfoStart(e3) = InfoStart(e) /\ VersionStart(e3) = VersionStart(e)
  BY <1>10, <1>12, PartsStay
<1>14. /\ Stepped(e3, e4, "descriptors")
       /\ \A d \in DOMAIN h.descriptors :
            InfosWith(e, d) # {} \/ DescriptorKnown(h.descriptors[d])
              => DescriptorKnown(e4.heap.descriptors[d])
  <2>1. \A x, owners : DescriptorFits(e, x, owners) => DescriptorFits(e3, x, owners)
    BY <1>10, <1>13 DEF DescriptorFits, OfVersion, ArgsOf, SkipOffset
  <2>2. \A d \in DOMAIN h.descriptors :
          InfosWith(e, d) # {} => DescriptorFits(e, h.descriptors[d], InfosWith(e, d))
    BY <1>3 DEF UsersFit
  <2>3. \A d \in DOMAIN e3.heap.descriptors :
          InfosWith(e3, d) # {} =>
            DescriptorFits(e3, e3.heap.descriptors[d], InfosWith(e3, d))
    BY <1>11, <1>12, <2>1, <2>2
  <2>4. /\ Stepped(e3, e4, "descriptors")
        /\ \A d \in DOMAIN e3.heap.descriptors :
             InfosWith(e3, d) # {} \/ DescriptorKnown(e3.heap.descriptors[d])
               => DescriptorKnown(e4.heap.descriptors[d])
    BY <1>1, <1>4, <1>10, <1>13, <2>3, DescriptorsResolved
  <2> QED BY <1>11, <1>12, <2>4
<1>15. /\ EngineOK(e4) /\ e4.tables = s
       /\ e4.heap.paths = e1.heap.paths /\ e4.heap.links = e2.heap.links
       /\ e4.heap.infos = e3.heap.infos
       /\ \A u \in TableNames \ {"paths", "links", "infos", "descriptors"} : e4.heap[u] = h[u]
  BY <1>10, <1>14, Kinds10 DEF Stepped
<1>16. /\ Stepped(e4, e5, "patches")
       /\ \A c \in DOMAIN h.patches :
            IF c \in Cells(s.patches)
              THEN LET y == e5.heap.patches[c]
                   IN IsSet(y.files) /\ IsSet(y.infos) /\ IsCell(y.group)
              ELSE e5.heap.patches[c] = h.patches[c]
  <2>1. e4.heap.patches = h.patches /\ e4.heap.groups = h.groups
    BY <1>15, Kinds10
  <2>2. VersionStart(e4) = VersionStart(e)
    BY <1>15, <2>1, PartsStay
  <2>3. \A n \in 1..Len(s.patches) :
          LET x == h.patches[s.patches[n]]
          IN /\ SpanFits(x.files, s.files)
             /\ SpanFits(ShiftedSpan(x.infos, VersionStart(e)), s.infos)
             /\ Fits(Shifted(x.group, n - 1), s.groups)
    BY <1>3 DEF UsersFit
  <2>4. \A n \in 1..Len(e4.tables.patches) :
          LET x == e4.heap.patches[e4.tables.patches[n]]
          IN /\ SpanFits(x.files, e4.tables.files)
             /\ SpanFits(ShiftedSpan(x.infos, VersionStart(e4)), e4.tables.infos)
             /\ Fits(Shifted(x.group, n - 1), e4.tables.groups)
    BY <1>15, <2>1, <2>2, <2>3
  <2>5. /\ Stepped(e4, e5, "patches")
        /\ \A c \in DOMAIN e4.heap.patches :
             IF c \in Cells(e4.tables.patches)
               THEN LET y == e5.heap.patches[c]
                    IN IsSet(y.files) /\ IsSet(y.infos) /\ IsCell(y.group)
               ELSE e5.heap.patches[c] = e4.heap.patches[c]
    <3>1. EngineOK(e4) /\ VersionStart(e4) \in Nat /\ e5 = ResolvePatches(e4)
      BY <1>1, <1>4, <1>15, <2>2
    <3> QED BY <2>4, <3>1, PatchesResolved
  <2> QED BY <1>15, <2>1, <2>5
<1>17. /\ EngineOK(e5) /\ e5.tables = s
       /\ e5.heap.paths = e1.heap.paths /\ e5.heap.links = e2.heap.links
       /\ e5.heap.infos = e3.heap.infos /\ e5.heap.descriptors = e4.heap.descriptors
       /\ \A u \in TableNames \ {"paths", "links", "infos", "descriptors", "patches"} :
            e5.heap[u] = h[u]
  BY <1>15, <1>16, Kinds10 DEF Stepped
<1>18. /\ Stepped(e5, f, "files")
       /\ \A c \in DOMAIN h.files :
            IF c \in Cells(s.files)
              THEN IsCell(f.heap.files[c].link) /\ IsCell(f.heap.files[c].info)
              ELSE f.heap.files[c] = h.files[c]
  <2>1. e5.heap.files = h.files
    BY <1>17, Kinds10
  <2>2. \A c \in Cells(e5.tables.files) :
          Fits(e5.heap.files[c].link, e5.tables.links) /\ Fits(e5.heap.files[c].info, e5.tables.infos)
    BY <1>3, <1>17, <2>1 DEF UsersFit
  <2>3. /\ Stepped(e5, f, "files")
        /\ \A c \in DOMAIN e5.heap.files :
             IF c \in Cells(e5.tables.files)
               THEN IsCell(f.heap.files[c].link) /\ IsCell(f.heap.files[c].info)
               ELSE f.heap.files[c] = e5.heap.files[c]
    BY <1>2, <1>17, <2>2, FilesResolved
  <2> QED BY <1>17, <2>1, <2>3
<1>19. /\ EngineOK(f) /\ f.tables = s
       /\ f.heap.paths = e1.heap.paths /\ f.heap.links = e2.heap.links
       /\ f.heap.infos = e3.heap.infos /\ f.heap.descriptors = e4.heap.descriptors
       /\ f.heap.patches = e5.heap.patches
       /\ \A u \in {"packages", "children", "groups"} : f.heap[u] = h[u]
  BY <1>17, <1>18, Kinds10 DEF Stepped
<1>20. \A u \in TableNames : DOMAIN f.heap[u] = DOMAIN h[u]
  BY <1>5, <1>7, <1>9, <1>14, <1>16, <1>18 DEF Stepped
<1>21. /\ DOMAIN f.heap.paths = DOMAIN h.paths /\ DOMAIN f.heap.links = DOMAIN h.links
       /\ DOMAIN f.heap.infos = DOMAIN h.infos /\ DOMAIN f.heap.patches = DOMAIN h.patches
       /\ DOMAIN f.heap.files = DOMAIN h.files
       /\ DOMAIN f.heap.descriptors = DOMAIN h.descriptors
  BY <1>20, Kinds10
<1>22. \/ /\ Cells(s.paths) = DOMAIN h.paths /\ Cells(s.links) = DOMAIN h.links
          /\ Cells(s.infos) = DOMAIN h.infos /\ Cells(s.patches) = DOMAIN h.patches
          /\ Cells(s.files) = DOMAIN h.files
       \/ UsersKnown(h)
  BY Kinds10 DEF Fresh
<1>23. \A c \in DOMAIN f.heap.paths :
         IsCell(f.heap.paths[c].link) /\ ~IsUnresolved(f.heap.paths[c].file)
  <2> TAKE c \in DOMAIN f.heap.paths
  <2> QED BY <1>5, <1>19, <1>21, <1>22 DEF UsersKnown
<1>24. \A c \in DOMAIN f.heap.links :
         ~IsUnresolved(f.heap.links[c].owner) /\ IsCell(f.heap.links[c].info)
  <2> TAKE c \in DOMAIN f.heap.links
  <2> QED BY <1>7, <1>19, <1>21, <1>22 DEF UsersKnown
<1>25. \A c \in DOMAIN f.heap.infos : InfoKnown(f.heap, f.heap.infos[c])
  <2> TAKE c \in DOMAIN f.heap.infos
  <2>1. PICK x : x = e3.heap.infos[c]
    OBVIOUS
  <2>2. f.heap.infos[c] = x /\ c \in DOMAIN h.infos
    BY <1>19, <1>21, <2>1
  <2>3. CASE c \in Cells(s.infos)
    <3>1. /\ IsCell(x.path) /\ IsCell(x.link) /\ IsSet(x.descriptors)
          /\ x.descriptors = ResolveSpan(h.infos[c].descriptors, s.descriptors)
      BY <1>9, <2>1, <2>2, <2>3
    <3>2. ASSUME NEW d \in Cells(x.descriptors.cells) PROVE DescriptorKnown(f.heap.descriptors[d])
      <4>1. PICK i \in 1..Len(s.infos) : c = s.infos[i]
        BY SMTT(60), <2>3 DEF Cells
      <4>2. i \in InfosWith(e, d)
        BY <3>1, <3>2, <4>1 DEF InfosWith
      <4>3. d \in DOMAIN h.descriptors
        <5>1. InfoOK(f.heap, x)
          BY <1>19, <2>2, Kinds10 DEF EngineOK, HeapOK, RecordOK
        <5>2. x.descriptors.cells \in Seq(DOMAIN f.heap.descriptors)
          BY <3>1, <5>1 DEF InfoOK, SpanSetOf, IsSet
        <5> QED BY <1>21, <3>2, <5>2, CellsOfSeq
      <4> QED BY <1>14, <1>19, <4>2, <4>3
    <3> QED BY <2>2, <3>1, <3>2 DEF InfoKnown
  <2>4. CASE c \notin Cells(s.infos)
    <3>1. UsersKnown(h) /\ x = h.infos[c]
      BY <1>9, <1>22, <2>1, <2>2, <2>4
    <3>2. InfoKnown(h, x) /\ InfoOK(h, x)
      BY <2>2, <3>1, Kinds10 DEF UsersKnown, EngineOK, HeapOK, RecordOK
    <3>3. ASSUME NEW d \in Cells(x.descriptors.cells) PROVE DescriptorKnown(f.heap.descriptors[d])
      <4>1. x.descriptors.cells \in Seq(DOMAIN h.descriptors)
        BY <3>2 DEF InfoKnown, InfoOK, SpanSetOf, IsSet
      <4>2. d \in DOMAIN h.descriptors /\ DescriptorKnown(h.descriptors[d])
        BY <3>2, <3>3, <4>1, CellsOfSeq DEF InfoKnown
      <4> QED BY <1>14, <1>19, <4>2
    <3> QED BY <2>2, <3>2, <3>3 DEF InfoKnown
  <2> QED BY <2>3, <2>4
<1>26. \A c \in DOMAIN f.heap.patches :
         IsSet(f.heap.patches[c].files) /\ IsSet(f.heap.patches[c].infos)
           /\ IsCell(f.heap.patches[c].group)
  <2> TAKE c \in DOMAIN f.heap.patches
  <2> QED BY <1>16, <1>19, <1>21, <1>22 DEF UsersKnown
<1>27. \A c \in DOMAIN f.heap.files : IsCell(f.heap.files[c].link) /\ IsCell(f.heap.files[c].info)
  <2> TAKE c \in DOMAIN f.heap.files
  <2> QED BY <1>18, <1>21, <1>22 DEF UsersKnown
<1> QED
  BY <1>19, <1>20, <1>23, <1>24, <1>25, <1>26, <1>27 DEF UsersKnown

-----------------------------------------------------------------------------
(* The edits. *)

WithMetadata(groups, g, cell) == [groups EXCEPT ![g].files.cells = Append(@, cell)]
WithInfo(packages, p, cell) == [packages EXCEPT ![p].infos.cells = Append(@, cell)]
IsHeap(h) == h = [t \in TableNames |-> h[t]]

\* Which cells add_file makes, and which it changes.
LEMMA FileIsAdded ==
  ASSUME NEW e, EngineOK(e), NEW file, NEW p, NEW first \in Nat,
         NEW f, f = WithFile(e, file, p, first),
         NEW package, package = e.packageLookup[p],
         NEW g, g = FirstGroup(e, package),
         NEW d, NEW l, NEW q, NEW i,
         d = first + 1, l = first + 2, q = first + 3, i = first + 4,
         NEW D, D = [group |-> Resolved(g), load |-> "owned",
                     metadata |-> Resolved(first), args |-> None],
         NEW L, L = [owner |-> PackageRef(package), info |-> Resolved(i)],
         NEW Q, Q = [fullPath |-> file.fullPath, link |-> Resolved(l), file |-> None],
         NEW I, I = [path |-> Resolved(q), link |-> Resolved(l), kind |-> "plain",
                     descriptors |-> Set(<<d>>), shared |-> FALSE]
  PROVE  /\ f = [heap |-> f.heap, tables |-> e.tables, packageLookup |-> e.packageLookup,
                 fileLookup |-> Insert(e.fileLookup, file.fullPath, q)]
         /\ IsHeap(f.heap)
         /\ f.heap.metadatas = Insert(e.heap.metadatas, first, NoData)
         /\ f.heap.descriptors = Insert(e.heap.descriptors, d, D)
         /\ f.heap.links = Insert(e.heap.links, l, L)
         /\ f.heap.paths = Insert(e.heap.paths, q, Q)
         /\ f.heap.infos = Insert(e.heap.infos, i, I)
         /\ f.heap.groups = WithMetadata(e.heap.groups, g, first)
         /\ f.heap.packages = WithInfo(e.heap.packages, package, i)
         /\ f.heap.children = e.heap.children /\ f.heap.patches = e.heap.patches
         /\ f.heap.files = e.heap.files
<1> DEFINE h == e.heap
<1>1. /\ e = [heap |-> e.heap, tables |-> e.tables,
              packageLookup |-> e.packageLookup, fileLookup |-> e.fileLookup]
      /\ h = [t \in TableNames |-> h[t]]
  BY SMTT(60) DEF EngineOK, HeapOK
<1>2. PICK newMetadatas, newDescriptors, newLinks, newPaths, newInfos, newGroups, newPackages, N :
        /\ newMetadatas = Insert(h.metadatas, first, NoData)
        /\ newDescriptors = Insert(h.descriptors, d, D)
        /\ newLinks = Insert(h.links, l, L)
        /\ newPaths = Insert(h.paths, q, Q)
        /\ newInfos = Insert(h.infos, i, I)
        /\ newGroups = [h.groups EXCEPT ![g].files.cells = Append(@, first)]
        /\ newPackages = [h.packages EXCEPT ![package].infos.cells = Append(@, i)]
        /\ N = Insert(e.fileLookup, file.fullPath, q)
  BY ZenonT(60)
<1>3. PICK new : new = HeapWithFile(e, file, package, first)
  OBVIOUS
<1>4. new = [h EXCEPT !.metadatas = newMetadatas, !.descriptors = newDescriptors,
                      !.links = newLinks, !.paths = newPaths, !.infos = newInfos,
                      !.groups = newGroups, !.packages = newPackages]
  BY ZenonT(60), <1>1, <1>2, <1>3, Kinds10 DEF HeapWithFile
<1>5. f = [e EXCEPT !.heap = new, !.fileLookup = N]
  BY ZenonT(60), <1>2, <1>3 DEF WithFile
<1>6. f = [heap |-> new, tables |-> e.tables, packageLookup |-> e.packageLookup, fileLookup |-> N]
  BY <1>1, <1>5
<1>7. /\ new = [t \in TableNames |-> new[t]]
      /\ new.metadatas = newMetadatas /\ new.descriptors = newDescriptors
      /\ new.links = newLinks /\ new.paths = newPaths /\ new.infos = newInfos
      /\ new.groups = newGroups /\ new.packages = newPackages
      /\ new.children = h.children /\ new.patches = h.patches /\ new.files = h.files
  BY <1>1, <1>4, Kinds10
<1>8. f.heap = new /\ f.fileLookup = N
  BY <1>6
<1> QED
  BY <1>2, <1>6, <1>7, <1>8, Zenon DEF WithMetadata, WithInfo, IsHeap

LEMMA ExceptChanges ==
  ASSUME NEW F, IsFunction(F), NEW x \in DOMAIN F, NEW y, NEW new, new = [F EXCEPT ![x] = y]
  PROVE  /\ new[x] = y /\ DOMAIN new = DOMAIN F /\ IsFunction(new)
         /\ \A c \in DOMAIN F : c # x => new[c] = F[c]
BY DEF IsFunction

\* The map has one more entry.
Added(map, key, value, new) ==
  /\ DOMAIN new = DOMAIN map \cup {key} /\ IsFunction(new) /\ new[key] = value
  /\ \A c \in DOMAIN map : new[c] = map[c]

LEMMA InsertIsCell ==
  ASSUME NEW map, NEW key, key \notin DOMAIN map, NEW value,
         NEW new, new = Insert(map, key, value)
  PROVE  Added(map, key, value, new)
BY DEF Insert, IsFunction, Added

LEMMA InsertKeepsOrAdds ==
  ASSUME NEW map, NEW key, NEW value, NEW new, new = Insert(map, key, value)
  PROVE  \A x \in DOMAIN new :
           (x = key /\ new[x] = value) \/ (x \in DOMAIN map /\ new[x] = map[x])
BY DEF Insert

\* The five cells that add_file makes are new, and everything refers to cells.
LEMMA FileKeepsEngine ==
  ASSUME NEW e, EngineOK(e), OwnersKnown(e.heap), UsersKnown(e.heap),
         NEW first \in Nat, \A t \in TableNames : DOMAIN e.heap[t] \subseteq 0..(first - 1),
         NEW file, NEW p, Addable(e, file, p),
         NEW f, f = WithFile(e, file, p, first)
  PROVE  /\ EngineOK(f) /\ OwnersKnown(f.heap) /\ UsersKnown(f.heap)
         /\ \A t \in TableNames : DOMAIN f.heap[t] \subseteq 0..(first + 4)
<1> DEFINE h == e.heap
           package == e.packageLookup[p]
           g == FirstGroup(e, package)
<1>1. PICK G, P, D, L, Q, I, m, d, l, q, i :
        /\ G = h.groups[g] /\ P = h.packages[package]
        /\ m = first /\ d = first + 1 /\ l = first + 2 /\ q = first + 3 /\ i = first + 4
        /\ D = [group |-> Resolved(g), load |-> "owned",
                metadata |-> Resolved(m), args |-> None]
        /\ L = [owner |-> PackageRef(package), info |-> Resolved(i)]
        /\ Q = [fullPath |-> file.fullPath, link |-> Resolved(l), file |-> None]
        /\ I = [path |-> Resolved(q), link |-> Resolved(l), kind |-> "plain",
                descriptors |-> Set(<<d>>), shared |-> FALSE]
  OBVIOUS
<1>2. /\ f = [heap |-> f.heap, tables |-> e.tables, packageLookup |-> e.packageLookup,
              fileLookup |-> Insert(e.fileLookup, file.fullPath, q)]
      /\ f.heap = [t \in TableNames |-> f.heap[t]]
      /\ f.heap.metadatas = Insert(h.metadatas, m, NoData)
      /\ f.heap.descriptors = Insert(h.descriptors, d, D)
      /\ f.heap.links = Insert(h.links, l, L)
      /\ f.heap.paths = Insert(h.paths, q, Q)
      /\ f.heap.infos = Insert(h.infos, i, I)
      /\ f.heap.groups = [h.groups EXCEPT ![g].files.cells = Append(@, m)]
      /\ f.heap.packages = [h.packages EXCEPT ![package].infos.cells = Append(@, i)]
      /\ f.heap.children = h.children /\ f.heap.patches = h.patches
      /\ f.heap.files = h.files
  <2>1. /\ f = [heap |-> f.heap, tables |-> e.tables, packageLookup |-> e.packageLookup,
                fileLookup |-> Insert(e.fileLookup, file.fullPath, q)]
        /\ IsHeap(f.heap)
        /\ f.heap.metadatas = Insert(h.metadatas, m, NoData)
        /\ f.heap.descriptors = Insert(h.descriptors, d, D)
        /\ f.heap.links = Insert(h.links, l, L)
        /\ f.heap.paths = Insert(h.paths, q, Q)
        /\ f.heap.infos = Insert(h.infos, i, I)
        /\ f.heap.groups = WithMetadata(h.groups, g, m)
        /\ f.heap.packages = WithInfo(h.packages, package, i)
        /\ f.heap.children = h.children /\ f.heap.patches = h.patches
        /\ f.heap.files = h.files
    <3>1. package = e.packageLookup[p] /\ g = FirstGroup(e, package)
      OBVIOUS
    <3> HIDE DEF package, g
    <3> QED BY <1>1, <3>1, FileIsAdded
  <2> QED BY ZenonT(60), <2>1 DEF WithMetadata, WithInfo, IsHeap
<1>3. package \in DOMAIN h.packages
  BY SMTT(60) DEF Addable, EngineOK
<1>4. PackageOK(h, P) /\ P.groups \in SpanSetOf(DOMAIN h.groups) /\ IsSet(P.groups)
      /\ P.groups.cells # <<>> /\ IsSet(P.infos)
  <2>1. PackageOK(h, P)
    BY <1>1, <1>3, Kinds10 DEF EngineOK, HeapOK, RecordOK
  <2> QED BY <1>1, <1>3, <2>1 DEF PackageOK, OwnersKnown
<1>5. g \in DOMAIN h.groups
  <2>1. P.groups.cells \in Seq(DOMAIN h.groups) /\ P.groups.cells # <<>>
    BY <1>4 DEF SpanSetOf, IsSet
  <2>2. 1 \in 1..Len(P.groups.cells)
    BY <2>1, LenProperties, EmptySeq
  <2>3. P.groups.cells[1] \in DOMAIN h.groups
    BY <2>1, <2>2, ElementOfSeq
  <2> QED BY <1>1, <2>3 DEF FirstGroup
<1>6. GroupOK(h, G) /\ G.files.is = "metadatas" /\ ~IsUnresolved(G.sub)
  <2>1. GroupOK(h, G) /\ ~IsUnresolved(G.sub) /\ G.files.is # "range"
    BY <1>1, <1>5, Kinds10 DEF EngineOK, HeapOK, RecordOK, OwnersKnown
  <2>2. G.files.is # "infos"
    BY <1>1 DEF Addable, IsInfoGroup
  <2> QED BY <2>1, <2>2 DEF GroupOK, FileSets
<1>7. /\ m \notin DOMAIN h.metadatas /\ d \notin DOMAIN h.descriptors
      /\ l \notin DOMAIN h.links /\ q \notin DOMAIN h.paths /\ i \notin DOMAIN h.infos
  <2>1. /\ DOMAIN h.metadatas \subseteq 0..(first - 1) /\ DOMAIN h.descriptors \subseteq 0..(first - 1)
        /\ DOMAIN h.links \subseteq 0..(first - 1) /\ DOMAIN h.paths \subseteq 0..(first - 1)
        /\ DOMAIN h.infos \subseteq 0..(first - 1)
    BY Kinds10
  <2>2. \A n \in {m, d, l, q, i} : n \notin 0..(first - 1)
    BY <1>1
  <2> HIDE DEF h
  <2> QED BY <2>1, <2>2
<1> HIDE DEF package, g
<1>8. /\ f.tables = e.tables /\ f.packageLookup = e.packageLookup
      /\ f.fileLookup = Insert(e.fileLookup, file.fullPath, q)
      /\ f = [heap |-> f.heap, tables |-> f.tables, packageLookup |-> f.packageLookup,
              fileLookup |-> f.fileLookup]
  BY <1>2
<1>9. PICK newGroup, newPackage :
        /\ newGroup = [G EXCEPT !.files.cells = Append(@, m)]
        /\ newPackage = [P EXCEPT !.infos.cells = Append(@, i)]
  OBVIOUS
<1>10. /\ f.heap.groups = [h.groups EXCEPT ![g] = newGroup]
       /\ f.heap.packages = [h.packages EXCEPT ![package] = newPackage]
  BY <1>1, <1>2, <1>9
<1>11. /\ IsFunction(h.groups) /\ IsFunction(h.packages) /\ IsFunction(h.children)
       /\ IsFunction(h.patches) /\ IsFunction(h.files)
  BY Kinds10 DEF EngineOK, HeapOK
<1>12. /\ f.heap.groups[g] = newGroup /\ DOMAIN f.heap.groups = DOMAIN h.groups
       /\ \A c \in DOMAIN h.groups : c # g => f.heap.groups[c] = h.groups[c]
       /\ f.heap.packages[package] = newPackage /\ DOMAIN f.heap.packages = DOMAIN h.packages
       /\ \A c \in DOMAIN h.packages : c # package => f.heap.packages[c] = h.packages[c]
       /\ IsFunction(f.heap.groups) /\ IsFunction(f.heap.packages)
  <2> HIDE DEF h
  <2>1. /\ f.heap.groups[g] = newGroup /\ DOMAIN f.heap.groups = DOMAIN h.groups
        /\ \A c \in DOMAIN h.groups : c # g => f.heap.groups[c] = h.groups[c]
        /\ IsFunction(f.heap.groups)
    BY <1>5, <1>10, <1>11, ExceptChanges
  <2>2. /\ f.heap.packages[package] = newPackage /\ DOMAIN f.heap.packages = DOMAIN h.packages
        /\ \A c \in DOMAIN h.packages : c # package => f.heap.packages[c] = h.packages[c]
        /\ IsFunction(f.heap.packages)
    BY <1>3, <1>10, <1>11, ExceptChanges
  <2> QED BY <2>1, <2>2
<1>13. /\ DOMAIN f.heap.metadatas = DOMAIN h.metadatas \cup {m}
       /\ DOMAIN f.heap.descriptors = DOMAIN h.descriptors \cup {d}
       /\ f.heap.descriptors[d] = D
       /\ \A c \in DOMAIN h.descriptors : f.heap.descriptors[c] = h.descriptors[c]
       /\ DOMAIN f.heap.links = DOMAIN h.links \cup {l} /\ f.heap.links[l] = L
       /\ \A c \in DOMAIN h.links : f.heap.links[c] = h.links[c]
       /\ DOMAIN f.heap.paths = DOMAIN h.paths \cup {q} /\ f.heap.paths[q] = Q
       /\ \A c \in DOMAIN h.paths : f.heap.paths[c] = h.paths[c]
       /\ DOMAIN f.heap.infos = DOMAIN h.infos \cup {i} /\ f.heap.infos[i] = I
       /\ \A c \in DOMAIN h.infos : f.heap.infos[c] = h.infos[c]
       /\ IsFunction(f.heap.metadatas) /\ IsFunction(f.heap.descriptors)
       /\ IsFunction(f.heap.links) /\ IsFunction(f.heap.paths) /\ IsFunction(f.heap.infos)
  <2> HIDE DEF h
  <2>0. /\ f.heap.metadatas = Insert(h.metadatas, m, NoData)
        /\ f.heap.descriptors = Insert(h.descriptors, d, D)
        /\ f.heap.links = Insert(h.links, l, L) /\ f.heap.paths = Insert(h.paths, q, Q)
        /\ f.heap.infos = Insert(h.infos, i, I)
    BY <1>2
  <2>1. Added(h.metadatas, m, NoData, f.heap.metadatas)
    BY <1>7, <2>0, InsertIsCell
  <2>2. Added(h.descriptors, d, D, f.heap.descriptors)
    BY <1>7, <2>0, InsertIsCell
  <2>3. Added(h.links, l, L, f.heap.links)
    BY <1>7, <2>0, InsertIsCell
  <2>4. Added(h.paths, q, Q, f.heap.paths)
    BY <1>7, <2>0, InsertIsCell
  <2>5. Added(h.infos, i, I, f.heap.infos)
    BY <1>7, <2>0, InsertIsCell
  <2> QED BY <2>1, <2>2, <2>3, <2>4, <2>5 DEF Added
<1>14. Grows(h, f.heap)
  <2> HIDE DEF h
  <2> QED BY <1>2, <1>12, <1>13 DEF Grows, TableNames
<1>15. \A t \in TableNames : DOMAIN f.heap[t] \subseteq 0..(first + 4)
  <2>1. \A t \in TableNames : DOMAIN h[t] \subseteq 0..(first + 4)
    OBVIOUS
  <2>2. {m, d, l, q, i} \subseteq 0..(first + 4)
    BY <1>1
  <2> HIDE DEF h
  <2> QED BY <1>2, <1>12, <1>13, <2>1, <2>2 DEF TableNames
<1>16. /\ m \in DOMAIN f.heap.metadatas /\ d \in DOMAIN f.heap.descriptors
       /\ l \in DOMAIN f.heap.links /\ q \in DOMAIN f.heap.paths /\ i \in DOMAIN f.heap.infos
       /\ g \in DOMAIN f.heap.groups /\ package \in DOMAIN f.heap.packages
  BY <1>3, <1>5, <1>12, <1>13
<1>17. \A S, c : c \in S => Resolved(c) \in ReferenceTo(S) \ {None} /\ IsCell(Resolved(c))
                              /\ ~IsUnresolved(Resolved(c))
  BY DEF Resolved, ReferenceTo, None, IsCell, IsUnresolved
<1>18. \A S : None \in ReferenceTo(S) /\ ~IsUnresolved(None)
  BY DEF None, ReferenceTo, IsUnresolved
<1>19. DescriptorOK(f.heap, D) /\ DescriptorKnown(D)
  BY <1>1, <1>16, <1>17, <1>18 DEF DescriptorOK, DescriptorKnown
<1>20. LinkOK(f.heap, L) /\ ~IsUnresolved(L.owner) /\ IsCell(L.info)
  <2>1. PackageRef(package) \in OwnersIn(f.heap) /\ ~IsUnresolved(PackageRef(package))
    BY <1>16 DEF PackageRef, OwnersIn, IsUnresolved
  <2> QED BY <1>1, <1>16, <1>17, <2>1 DEF LinkOK
<1>21. PathOK(f.heap, Q) /\ IsCell(Q.link) /\ ~IsUnresolved(Q.file)
  BY <1>1, <1>16, <1>17, <1>18 DEF PathOK
<1>22. InfoOK(f.heap, I) /\ InfoKnown(f.heap, I)
  <2>1. <<d>> \in Seq(DOMAIN f.heap.descriptors) /\ Cells(<<d>>) = {d}
    <3>1. <<d>> \in Seq(DOMAIN f.heap.descriptors) /\ Len(<<d>>) = 1 /\ <<d>>[1] = d
      BY <1>16, OneElement
    <3> QED BY <3>1 DEF Cells
  <2>2. PICK s : s = Set(<<d>>)
    OBVIOUS
  <2>3. s \in SpanSetOf(DOMAIN f.heap.descriptors) /\ IsSet(s) /\ s.cells = <<d>>
    BY <2>1, <2>2 DEF SpanSetOf, IsSet, Set
  <2>4. /\ I = [path |-> I.path, link |-> I.link, descriptors |-> I.descriptors,
                kind |-> I.kind, shared |-> I.shared]
        /\ I.path = Resolved(q) /\ I.link = Resolved(l) /\ I.kind = "plain"
        /\ I.descriptors = s
    BY <1>1, <2>2
  <2>5. I.kind \in Kinds
    BY <2>4 DEF Kinds
  <2>6. InfoOK(f.heap, I)
    BY <1>16, <1>17, <2>3, <2>4, <2>5 DEF InfoOK
  <2>7. IsCell(I.path) /\ IsCell(I.link)
    BY <1>16, <1>17, <2>4
  <2>8. \A c \in Cells(I.descriptors.cells) : DescriptorKnown(f.heap.descriptors[c])
    BY <1>13, <1>19, <2>1, <2>3, <2>4
  <2> QED BY <2>3, <2>4, <2>6, <2>7, <2>8 DEF InfoKnown
<1>23. GroupOK(f.heap, newGroup) /\ ~IsUnresolved(newGroup.sub) /\ newGroup.files.is # "range"
  <2>1. PICK cells : cells = G.files.cells
    OBVIOUS
  <2>2. G.files = [is |-> "metadatas", cells |-> cells] /\ cells \in Seq(DOMAIN h.metadatas)
    BY <1>6, <2>1 DEF GroupOK, FileSets
  <2>3. newGroup = [offset |-> G.offset, files |-> [is |-> "metadatas", cells |-> Append(cells, m)],
                    sub |-> G.sub]
    <3>1. G = [offset |-> G.offset, files |-> G.files, sub |-> G.sub]
      BY <1>6 DEF GroupOK
    <3>2. PICK a, u, files : a = Append(cells, m) /\ u = G.files
                           /\ files = [u EXCEPT !.cells = a]
      OBVIOUS
    <3>3. files = [is |-> "metadatas", cells |-> Append(cells, m)]
      <4>1. u = [is |-> u.is, cells |-> u.cells] /\ u.is = "metadatas"
        BY <2>2, <3>2
      <4> QED BY <3>2, <4>1
    <3>4. newGroup = [G EXCEPT !.files = files]
      BY <1>9, <2>1, <3>2
    <3> QED BY <3>1, <3>3, <3>4
  <2>4. Append(cells, m) \in Seq(DOMAIN f.heap.metadatas)
    <3>1. cells \in Seq(DOMAIN f.heap.metadatas)
      <4>1. DOMAIN h.metadatas \subseteq DOMAIN f.heap.metadatas
        BY <1>13
      <4> QED BY <2>2, <4>1, LargerHeap
    <3> QED BY <1>16, <3>1, AppendElement
  <2>5. GroupOK(f.heap, G)
    <3>1. RecordOK(h, "groups", G)
      BY <1>6 DEF RecordOK
    <3>2. RecordOK(f.heap, "groups", G)
      BY <1>14, <3>1, RecordsStay, Kinds10
    <3> QED BY <3>2 DEF RecordOK
  <2> QED BY <1>6, <2>3, <2>4, <2>5 DEF GroupOK, FileSets
<1>24. PackageOK(f.heap, newPackage) /\ IsSet(newPackage.groups) /\ IsSet(newPackage.infos)
       /\ newPackage.children = P.children
  <2>1. PICK cells : cells = P.infos.cells
    OBVIOUS
  <2>2. P.infos = [is |-> "cells", cells |-> cells] /\ cells \in Seq(DOMAIN h.infos)
    BY <1>4, <2>1 DEF PackageOK, SpanSetOf, IsSet
  <2>3. newPackage = [fullPath |-> P.fullPath, kind |-> P.kind, groups |-> P.groups,
                      infos |-> [is |-> "cells", cells |-> Append(cells, i)],
                      children |-> P.children]
    <3>1. P = [fullPath |-> P.fullPath, kind |-> P.kind, groups |-> P.groups,
               infos |-> P.infos, children |-> P.children]
      BY <1>4 DEF PackageOK
    <3>2. PICK a, u, infos : a = Append(cells, i) /\ u = P.infos
                           /\ infos = [u EXCEPT !.cells = a]
      OBVIOUS
    <3>3. infos = [is |-> "cells", cells |-> Append(cells, i)]
      <4>1. u = [is |-> u.is, cells |-> u.cells] /\ u.is = "cells"
        BY <2>2, <3>2
      <4> QED BY <3>2, <4>1
    <3>4. newPackage = [P EXCEPT !.infos = infos]
      BY <1>9, <2>1, <3>2
    <3> QED BY <3>1, <3>3, <3>4
  <2>4. Append(cells, i) \in Seq(DOMAIN f.heap.infos)
    <3>1. cells \in Seq(DOMAIN f.heap.infos)
      <4>1. DOMAIN h.infos \subseteq DOMAIN f.heap.infos
        BY <1>13
      <4> QED BY <2>2, <4>1, LargerHeap
    <3> QED BY <1>16, <3>1, AppendElement
  <2>5. PackageOK(f.heap, P)
    <3>1. RecordOK(h, "packages", P)
      BY <1>4 DEF RecordOK
    <3>2. RecordOK(f.heap, "packages", P)
      BY <1>14, <3>1, RecordsStay, Kinds10
    <3> QED BY <3>2 DEF RecordOK
  <2>6. PICK infos : infos = [is |-> "cells", cells |-> Append(cells, i)]
    OBVIOUS
  <2>7. infos \in SpanSetOf(DOMAIN f.heap.infos) /\ IsSet(infos)
    BY <2>4, <2>6 DEF SpanSetOf, IsSet
  <2> QED BY <1>4, <2>3, <2>5, <2>6, <2>7 DEF PackageOK
<1> HIDE DEF h
<1>25. \A t \in TableNames : \A c \in DOMAIN h[t] : RecordOK(f.heap, t, h[t][c])
  <2>1. \A t \in TableNames : \A c \in DOMAIN h[t] : RecordOK(h, t, h[t][c])
    BY DEF EngineOK, HeapOK, h
  <2> QED BY <1>14, <2>1, RecordsStay
<1>26. ASSUME NEW t \in TableNames
       PROVE  IsFunction(f.heap[t]) /\ \A c \in DOMAIN f.heap[t] : RecordOK(f.heap, t, f.heap[t][c])
  <2>1. CASE t = "packages"
    <3>1. RecordOK(f.heap, "packages", newPackage)
      BY <1>24 DEF RecordOK
    <3> QED BY <1>12, <1>25, <2>1, <3>1
  <2>2. CASE t = "groups"
    <3>1. RecordOK(f.heap, "groups", newGroup)
      BY <1>23 DEF RecordOK
    <3> QED BY <1>12, <1>25, <2>2, <3>1
  <2>3. CASE t = "paths"
    <3>1. RecordOK(f.heap, "paths", Q)
      BY <1>21 DEF RecordOK
    <3> QED BY <1>13, <1>25, <2>3, <3>1
  <2>4. CASE t = "links"
    <3>1. RecordOK(f.heap, "links", L)
      BY <1>20 DEF RecordOK
    <3> QED BY <1>13, <1>25, <2>4, <3>1
  <2>5. CASE t = "infos"
    <3>1. RecordOK(f.heap, "infos", I)
      BY <1>22 DEF RecordOK
    <3> QED BY <1>13, <1>25, <2>5, <3>1
  <2>6. CASE t = "descriptors"
    <3>1. RecordOK(f.heap, "descriptors", D)
      BY <1>19 DEF RecordOK
    <3> QED BY <1>13, <1>25, <2>6, <3>1
  <2>7. CASE t = "metadatas"
    BY <1>13, <2>7 DEF RecordOK
  <2>8. CASE t \in {"children", "patches", "files"}
    BY <1>2, <1>11, <1>25, <2>8
  <2> QED BY <2>1, <2>2, <2>3, <2>4, <2>5, <2>6, <2>7, <2>8 DEF TableNames
<1>27. HeapOK(f.heap)
  BY <1>2, <1>26 DEF HeapOK
<1>28. EngineOK(f)
  <2>1. \A t \in TableNames : f.tables[t] \in Seq(DOMAIN f.heap[t])
    <3> TAKE t \in TableNames
    <3>1. DOMAIN h[t] \subseteq DOMAIN f.heap[t] /\ f.tables[t] \in Seq(DOMAIN h[t])
      BY <1>8, <1>14 DEF Grows, EngineOK, h
    <3> QED BY <3>1, LargerHeap
  <2>2. f.tables = [t \in TableNames |-> f.tables[t]]
    BY <1>8 DEF EngineOK
  <2>3. \A x \in DOMAIN f.packageLookup : f.packageLookup[x] \in DOMAIN f.heap.packages
    BY <1>8, <1>12 DEF EngineOK, h
  <2>4. \A x \in DOMAIN f.fileLookup : f.fileLookup[x] \in DOMAIN f.heap.paths
    <3>1. \A x \in DOMAIN e.fileLookup : e.fileLookup[x] \in DOMAIN h.paths
      BY DEF EngineOK, h
    <3>2. \A x \in DOMAIN f.fileLookup :
            \/ x = file.fullPath /\ f.fileLookup[x] = q
            \/ x \in DOMAIN e.fileLookup /\ f.fileLookup[x] = e.fileLookup[x]
      <4>1. PICK N : N = f.fileLookup
        OBVIOUS
      <4>2. N = Insert(e.fileLookup, file.fullPath, q)
        BY <1>8, <4>1
      <4> QED BY <4>1, <4>2, InsertKeepsOrAdds
    <3> QED BY <1>13, <1>16, <3>1, <3>2
  <2> QED BY <1>8, <1>27, <2>1, <2>2, <2>3, <2>4 DEF EngineOK
<1>29. OwnersKnown(f.heap)
  <2>1. OwnersKnown(h)
    BY DEF h
  <2>2. IsSet(newPackage.children)
    BY <1>1, <1>3, <1>24, <2>1 DEF OwnersKnown
  <2>3. \A c \in DOMAIN f.heap.packages :
          IsSet(f.heap.packages[c].groups) /\ IsSet(f.heap.packages[c].infos)
            /\ IsSet(f.heap.packages[c].children)
    BY <1>12, <1>24, <2>1, <2>2 DEF OwnersKnown
  <2>4. \A c \in DOMAIN f.heap.groups :
          ~IsUnresolved(f.heap.groups[c].sub) /\ f.heap.groups[c].files.is # "range"
    BY <1>12, <1>23, <2>1 DEF OwnersKnown
  <2> QED BY <1>2, <2>1, <2>3, <2>4 DEF OwnersKnown
<1>30. UsersKnown(f.heap)
  <2>1. UsersKnown(h)
    BY DEF h
  <2>2. \A c \in DOMAIN f.heap.paths :
          IsCell(f.heap.paths[c].link) /\ ~IsUnresolved(f.heap.paths[c].file)
    BY <1>13, <1>21, <2>1 DEF UsersKnown
  <2>3. \A c \in DOMAIN f.heap.links :
          ~IsUnresolved(f.heap.links[c].owner) /\ IsCell(f.heap.links[c].info)
    BY <1>13, <1>20, <2>1 DEF UsersKnown
  <2>4. \A c \in DOMAIN h.infos : InfoKnown(f.heap, h.infos[c])
    <3> TAKE c \in DOMAIN h.infos
    <3>1. PICK x : x = h.infos[c]
      OBVIOUS
    <3>2. InfoKnown(h, x) /\ InfoOK(h, x)
      BY <2>1, <3>1, Kinds10 DEF UsersKnown, EngineOK, HeapOK, RecordOK, h
    <3>3. \A a \in Cells(x.descriptors.cells) :
            a \in DOMAIN h.descriptors /\ DescriptorKnown(h.descriptors[a])
      <4>1. x.descriptors.cells \in Seq(DOMAIN h.descriptors)
        BY <3>2 DEF InfoKnown, InfoOK, SpanSetOf, IsSet
      <4> QED BY <3>2, <4>1, CellsOfSeq DEF InfoKnown
    <3> QED BY <1>13, <3>1, <3>2, <3>3 DEF InfoKnown
  <2>5. \A c \in DOMAIN f.heap.infos : InfoKnown(f.heap, f.heap.infos[c])
    BY <1>13, <1>22, <2>4
  <2> QED BY <1>2, <2>1, <2>2, <2>3, <2>5 DEF UsersKnown
<1> QED
  BY <1>15, <1>28, <1>29, <1>30

-----------------------------------------------------------------------------
(* The writer: what a push, and a loop of pushes, does to its makers. *)

\* The indices that a maker has given stay what they are.
Extended(m, n) ==
  \A c \in DOMAIN m.index : c \in DOMAIN n.index /\ n.index[c] = m.index[c]

\* The writer v comes after w when at most the tables T are pushed to.
After(h, w, v, T) ==
  /\ WriterOK(h, v)
  /\ v.ok => w.ok
  /\ v.infoStart = w.infoStart /\ v.lastFiles = w.lastFiles
  /\ \A t \in TableNames : Extended(w.makers[t], v.makers[t])
  /\ \A t \in TableNames \ T : v.makers[t] = w.makers[t]

\* Of the cells of its own table, a call pushes this one.
Adds(w, v, t, c) ==
  v.ok => ~Has(w, t, c) /\ v.makers[t] = PushCell(w.makers[t], c)

LEMMA ExtendsItself ==
  ASSUME NEW h, NEW w, WriterOK(h, w), NEW T
  PROVE  After(h, w, w, T)
BY DEF After, Extended

LEMMA AfterAfter ==
  ASSUME NEW h, NEW w, NEW v, NEW u, NEW T, After(h, w, v, T), After(h, v, u, T)
  PROVE  After(h, w, u, T)
BY DEF After, Extended

LEMMA AfterMore ==
  ASSUME NEW h, NEW w, NEW v, NEW S, NEW T, After(h, w, v, S), S \subseteq T
  PROVE  After(h, w, v, T)
BY DEF After

LEMMA Panics ==
  ASSUME NEW h, NEW w, WriterOK(h, w), NEW T, NEW v, v = Panicked(w)
  PROVE  After(h, w, v, T) /\ ~v.ok
<1>1. PICK a, b, c, d : a = w.makers /\ b = w.infoStart /\ c = w.lastFiles /\ d = w.ok
  OBVIOUS
<1>2. w = [makers |-> a, infoStart |-> b, lastFiles |-> c, ok |-> d]
  BY <1>1 DEF WriterOK
<1>3. v = [makers |-> a, infoStart |-> b, lastFiles |-> c, ok |-> FALSE]
  BY <1>2 DEF Panicked
<1>4. v.makers = w.makers /\ v.infoStart = w.infoStart /\ v.lastFiles = w.lastFiles /\ ~v.ok
      /\ v = [makers |-> v.makers, infoStart |-> v.infoStart, lastFiles |-> v.lastFiles, ok |-> v.ok]
  BY <1>1, <1>3
<1> QED
  BY <1>4 DEF WriterOK, After, Extended, TableOf

\* TableMaker::push.
LEMMA Pushed ==
  ASSUME NEW h, NEW w, WriterOK(h, w), NEW t \in TableNames, NEW c \in DOMAIN h[t],
         t = "descriptors" => DescriptorKnown(h.descriptors[c]),
         NEW T, t \in T, NEW v, v = Push(w, t, c)
  PROVE  /\ After(h, w, v, T) /\ Adds(w, v, t, c)
         /\ \A u \in TableNames : u # t => v.makers[u] = w.makers[u]
<1>1. CASE Has(w, t, c)
  <2>1. v = Panicked(w)
    BY <1>1 DEF Push
  <2>2. After(h, w, v, {}) /\ ~v.ok
    BY <2>1, Panics
  <2>3. \A u \in TableNames : v.makers[u] = w.makers[u]
    BY <2>2 DEF After
  <2> QED BY <2>2, <2>3, AfterMore DEF Adds
<1>2. CASE ~Has(w, t, c)
  <2>1. PICK m, new : m = w.makers /\ new = PushCell(m[t], c)
    OBVIOUS
  <2>2. v = [w EXCEPT !.makers[t] = new]
    BY <1>2, <2>1 DEF Push
  <2>3. m = [u \in TableNames |-> m[u]] /\ IsMaker(m[t], DOMAIN h[t]) /\ MakerOK(m[t])
    BY <2>1 DEF WriterOK
  <2>4. PICK n : n = [m EXCEPT ![t] = new]
    OBVIOUS
  <2>5. /\ n = [u \in TableNames |-> n[u]] /\ n[t] = new
        /\ \A u \in TableNames : u # t => n[u] = m[u]
    BY <2>3, <2>4
  <2>6. PICK x, y, z : x = w.infoStart /\ y = w.lastFiles /\ z = w.ok
    OBVIOUS
  <2>7. w = [makers |-> m, infoStart |-> x, lastFiles |-> y, ok |-> z]
    BY <2>1, <2>6 DEF WriterOK
  <2>8. v = [makers |-> n, infoStart |-> x, lastFiles |-> y, ok |-> z]
    BY <2>2, <2>4, <2>7
  <2>9. v.makers = n /\ v.infoStart = x /\ v.lastFiles = y /\ v.ok = z
        /\ v = [makers |-> v.makers, infoStart |-> v.infoStart, lastFiles |-> v.lastFiles, ok |-> v.ok]
    BY <2>8
  <2>10. IsMaker(new, DOMAIN h[t]) /\ MakerOK(new)
    <3>1. ~HasCell(m[t], c)
      BY <1>2, <2>1 DEF Has
    <3> QED BY <2>1, <2>3, <3>1, PushKeepsIndex
  <2>11a. \A d \in Cells(TableOf(v, "descriptors")) : DescriptorKnown(h.descriptors[d])
    <3>1. \A d \in Cells(m["descriptors"].table) : DescriptorKnown(h.descriptors[d])
      BY <2>1 DEF WriterOK, TableOf
    <3>2. CASE t = "descriptors"
      <4>1. Cells(new.table) = Cells(m[t].table) \cup {c}
        <5>1. ~HasCell(m[t], c)
          BY <1>2, <2>1 DEF Has
        <5>2. Cells(PushCell(m[t], c).table) = Cells(m[t].table) \cup {c}
          BY <2>3, <5>1, PushKeepsIndex
        <5> QED BY <2>1, <5>2
      <4>2. TableOf(v, "descriptors") = new.table
        BY <2>5, <2>9, <3>2 DEF TableOf
      <4> QED BY <3>1, <3>2, <4>1, <4>2
    <3>3. CASE t # "descriptors"
      BY <2>5, <2>9, <3>1, <3>3, Kinds10 DEF TableOf
    <3> QED BY <3>2, <3>3
  <2>11. WriterOK(h, v)
    BY <2>1, <2>5, <2>6, <2>9, <2>10, <2>11a DEF WriterOK
  <2>12. Extended(m[t], new)
    <3>1. new.index = Insert(m[t].index, c, Len(m[t].table)) /\ c \notin DOMAIN m[t].index
      BY <1>2, <2>1 DEF PushCell, Has, HasCell
    <3>2. Added(m[t].index, c, Len(m[t].table), new.index)
      BY <3>1, InsertIsCell
    <3> QED BY <3>2 DEF Added, Extended
  <2>13. \A u \in TableNames : Extended(m[u], n[u])
    BY <2>5, <2>12 DEF Extended
  <2> QED BY <1>2, <2>1, <2>5, <2>6, <2>9, <2>11, <2>13 DEF After, Adds
<1> QED
  BY <1>1, <1>2

LEMMA PushedNew ==
  ASSUME NEW h, NEW w, WriterOK(h, w), NEW t \in TableNames, NEW c \in DOMAIN h[t],
         t = "descriptors" => DescriptorKnown(h.descriptors[c]),
         NEW T, t \in T, NEW v, v = PushNew(w, t, c)
  PROVE  After(h, w, v, T) /\ \A u \in TableNames : u # t => v.makers[u] = w.makers[u]
<1>1. CASE Has(w, t, c)
  BY <1>1, ExtendsItself DEF PushNew
<1>2. CASE ~Has(w, t, c)
  <2>1. v = Push(w, t, c)
    BY <1>2 DEF PushNew
  <2> QED BY <2>1, Pushed
<1> QED
  BY <1>1, <1>2

\* The tables that a loop over cells of a table may push to.
Touched(t) ==
  CASE t = "descriptors" -> {"descriptors", "metadatas"}
    [] t = "infos" -> {"infos", "descriptors", "metadatas", "links", "paths"}
    [] t = "groups" -> {"groups", "infos", "descriptors", "metadatas", "links", "paths"}
    [] OTHER -> {t}

\* After n turns of a loop that pushes the cells s, they follow each other.
InTurn(w, v, s, t, n) ==
  v.ok => /\ Len(v.makers[t].table) = Len(w.makers[t].table) + n
          /\ \A i \in 1..n :
               /\ HasCell(v.makers[t], s[i])
               /\ GetIndex(v.makers[t], s[i]) = Len(w.makers[t].table) + i - 1

\* If all that w has is in order, all that v has is.
Kept(h, w, v) ==
  v.ok => /\ InfoSpans(h, w) => InfoSpans(h, v)
          /\ GroupSpans(h, w) => GroupSpans(h, v)

\* What resolve makes sure of before a writer is made.
Known(e) == EngineOK(e) /\ OwnersKnown(e.heap) /\ UsersKnown(e.heap)

LEMMA ConsecutiveStays ==
  ASSUME NEW s, Len(s) \in Nat, NEW m, NEW n, Extended(m, n), Consecutive(s, m)
  PROVE  Consecutive(s, n)
<1> SUFFICES ASSUME NEW i \in 1..Len(s)
             PROVE  HasCell(n, s[i]) /\ GetIndex(n, s[i]) = GetIndex(n, s[1]) + i - 1
  BY DEF Consecutive
<1>1. 1 \in 1..Len(s)
  OBVIOUS
<1> QED
  BY <1>1 DEF Consecutive, Extended, HasCell, GetIndex

\* The sets of an engine's records are sequences.
LEMMA SetsAreSequences ==
  ASSUME NEW e, Known(e), NEW h, h = e.heap
  PROVE  /\ \A i \in DOMAIN h.infos : Len(h.infos[i].descriptors.cells) \in Nat
         /\ \A g \in DOMAIN h.groups : Len(h.groups[g].files.cells) \in Nat
         /\ \A p \in DOMAIN h.packages :
              /\ h.packages[p].groups.cells \in Seq(DOMAIN h.groups)
              /\ h.packages[p].infos.cells \in Seq(DOMAIN h.infos)
              /\ h.packages[p].children.cells \in Seq(DOMAIN h.children)
         /\ \A n \in DOMAIN h.patches :
              /\ h.patches[n].files.cells \in Seq(DOMAIN h.files)
              /\ h.patches[n].infos.cells \in Seq(DOMAIN h.infos)
<1>1. ASSUME NEW i \in DOMAIN h.infos PROVE Len(h.infos[i].descriptors.cells) \in Nat
  <2>1. PICK x : x = h.infos[i]
    OBVIOUS
  <2>2. InfoOK(h, x) /\ InfoKnown(h, x)
    BY <2>1, Kinds10 DEF Known, UsersKnown, EngineOK, HeapOK, RecordOK
  <2>3. x.descriptors.cells \in Seq(DOMAIN h.descriptors)
    BY <2>2 DEF InfoOK, InfoKnown, SpanSetOf, IsSet
  <2> QED BY <2>1, <2>3, LenProperties
<1>2. ASSUME NEW g \in DOMAIN h.groups PROVE Len(h.groups[g].files.cells) \in Nat
  <2>1. PICK x : x = h.groups[g]
    OBVIOUS
  <2>2. GroupOK(h, x) /\ x.files.is # "range"
    BY <2>1, Kinds10 DEF Known, OwnersKnown, EngineOK, HeapOK, RecordOK
  <2>3. x.files.cells \in Seq(DOMAIN h.infos) \/ x.files.cells \in Seq(DOMAIN h.metadatas)
    BY <2>2 DEF GroupOK, FileSets
  <2> QED BY <2>1, <2>3, LenProperties
<1>3. ASSUME NEW p \in DOMAIN h.packages
      PROVE  /\ h.packages[p].groups.cells \in Seq(DOMAIN h.groups)
             /\ h.packages[p].infos.cells \in Seq(DOMAIN h.infos)
             /\ h.packages[p].children.cells \in Seq(DOMAIN h.children)
  <2>1. PICK x : x = h.packages[p]
    OBVIOUS
  <2>2. PackageOK(h, x) /\ IsSet(x.groups) /\ IsSet(x.infos) /\ IsSet(x.children)
    BY <2>1, Kinds10 DEF Known, OwnersKnown, EngineOK, HeapOK, RecordOK
  <2> QED BY <2>1, <2>2 DEF PackageOK, SpanSetOf, IsSet
<1>4. ASSUME NEW n \in DOMAIN h.patches
      PROVE  /\ h.patches[n].files.cells \in Seq(DOMAIN h.files)
             /\ h.patches[n].infos.cells \in Seq(DOMAIN h.infos)
  <2>1. PICK x : x = h.patches[n]
    OBVIOUS
  <2>2. PatchOK(h, x) /\ IsSet(x.files) /\ IsSet(x.infos)
    BY <2>1, Kinds10 DEF Known, UsersKnown, EngineOK, HeapOK, RecordOK
  <2> QED BY <2>1, <2>2 DEF PatchOK, SpanSetOf, IsSet
<1> QED
  BY <1>1, <1>2, <1>3, <1>4

\* What is not pushed to stays in order.
LEMMA InfoSpansStay ==
  ASSUME NEW e, Known(e), NEW h, h = e.heap, NEW w, NEW v, NEW T, After(h, w, v, T),
         "infos" \notin T, InfoSpans(h, w)
  PROVE  InfoSpans(h, v)
<1>1. /\ v.makers["infos"] = w.makers["infos"]
      /\ Extended(w.makers["descriptors"], v.makers["descriptors"])
  BY Kinds10 DEF After
<1>2. Cells(TableOf(v, "infos")) \subseteq DOMAIN h.infos
  <2>1. v.makers["infos"].table \in Seq(DOMAIN h["infos"])
    BY Kinds10 DEF After, WriterOK, IsMaker
  <2> QED BY <2>1, CellsOfSeq DEF TableOf
<1> QED
  BY <1>1, <1>2, SetsAreSequences, ConsecutiveStays DEF InfoSpans, TableOf

LEMMA GroupSpansStay ==
  ASSUME NEW e, Known(e), NEW h, h = e.heap, NEW w, NEW v, NEW T, After(h, w, v, T),
         "groups" \notin T, GroupSpans(h, w)
  PROVE  GroupSpans(h, v)
<1>1. /\ v.makers["groups"] = w.makers["groups"]
      /\ Extended(w.makers["infos"], v.makers["infos"])
  BY Kinds10 DEF After
<1>2. Cells(TableOf(v, "groups")) \subseteq DOMAIN h.groups
  <2>1. v.makers["groups"].table \in Seq(DOMAIN h["groups"])
    BY Kinds10 DEF After, WriterOK, IsMaker
  <2> QED BY <2>1, CellsOfSeq DEF TableOf
<1> QED
  BY <1>1, <1>2, SetsAreSequences, ConsecutiveStays DEF GroupSpans, TableOf

\* Metadata is pushed by several, and not again.
PushInv(h, w, s, t, n, v) ==
  /\ After(h, w, v, Touched(t)) /\ Kept(h, w, v)
  /\ t # "metadatas" => InTurn(w, v, s, t, n)

\* The table that a call adds a cell to has it, and no other new one.
LEMMA AddedCell ==
  ASSUME NEW h, NEW w, WriterOK(h, w), NEW t \in TableNames, NEW c \in DOMAIN h[t],
         NEW v, Adds(w, v, t, c), v.ok
  PROVE  Cells(TableOf(v, t)) = Cells(TableOf(w, t)) \cup {c}
<1>1. IsMaker(w.makers[t], DOMAIN h[t]) /\ MakerOK(w.makers[t]) /\ ~HasCell(w.makers[t], c)
  BY DEF WriterOK, Adds, Has
<1>2. Cells(PushCell(w.makers[t], c).table) = Cells(w.makers[t].table) \cup {c}
  BY <1>1, PushKeepsIndex
<1> QED
  BY <1>2 DEF Adds, TableOf

\* What is not pushed to stays in order, and so does what it leads to.
LEMMA KeptByOthers ==
  ASSUME NEW e, Known(e), NEW h, h = e.heap, NEW w, NEW v, NEW T, After(h, w, v, T),
         "infos" \notin T, "groups" \notin T
  PROVE  Kept(h, w, v)
BY InfoSpansStay, GroupSpansStay DEF Kept

LEMMA TurnFollows ==
  ASSUME NEW h, NEW w, NEW v, NEW u, NEW s, NEW t \in TableNames, NEW n \in Nat, n >= 1,
         WriterOK(h, w), PushInv(h, w, s, t, n - 1, v),
         After(h, v, u, Touched(t)), Kept(h, v, u), t # "metadatas" => Adds(v, u, t, s[n])
  PROVE  PushInv(h, w, s, t, n, u)
<1>1. After(h, w, u, Touched(t))
  BY AfterAfter DEF PushInv
<1>2. ASSUME t # "metadatas", u.ok PROVE InTurn(w, u, s, t, n)
  <2>1. v.ok /\ u.makers[t] = PushCell(v.makers[t], s[n]) /\ ~HasCell(v.makers[t], s[n])
    BY <1>2 DEF Adds, After, Has
  <2>2. PICK L, M, m : L = Len(w.makers[t].table) /\ m = v.makers[t] /\ M = Len(m.table)
    OBVIOUS
  <2>3. L \in Nat /\ M = L + (n - 1)
    <3>1. w.makers[t].table \in Seq(DOMAIN h[t])
      BY DEF WriterOK, IsMaker
    <3> QED BY <1>2, <2>1, <2>2, <3>1, LenProperties DEF PushInv, InTurn
  <2>4. PICK new : new = u.makers[t]
    OBVIOUS
  <2>5. new.index = Insert(m.index, s[n], M) /\ s[n] \notin DOMAIN m.index
        /\ new.table = Append(m.table, s[n])
    BY <2>1, <2>2, <2>4 DEF PushCell, HasCell
  <2>6. Added(m.index, s[n], M, new.index)
    BY <2>5, InsertIsCell
  <2>7. Len(new.table) = M + 1
    <3>1. m.table \in Seq(DOMAIN h[t])
      BY <2>2 DEF After, WriterOK, IsMaker, PushInv
    <3>2. u.makers[t].table \in Seq(DOMAIN h[t])
      BY DEF After, WriterOK, IsMaker
    <3>3. m.table \in Seq(Cells(m.table) \cup {s[n]})
      BY <3>1, CellsOfSeq, LargerHeap
    <3> QED BY <2>2, <2>5, <3>3, AppendElement
  <2>8. ASSUME NEW i \in 1..n
        PROVE  HasCell(new, s[i]) /\ GetIndex(new, s[i]) = L + i - 1
    <3>1. CASE i = n
      BY <2>3, <2>6, <3>1 DEF Added, HasCell, GetIndex
    <3>2. CASE i # n
      <4>1. i \in 1..(n - 1)
        BY <3>2
      <4>2. HasCell(m, s[i]) /\ GetIndex(m, s[i]) = L + i - 1
        BY <1>2, <2>1, <2>2, <4>1 DEF PushInv, InTurn
      <4> QED BY <2>6, <4>2 DEF Added, HasCell, GetIndex
    <3> QED BY <3>1, <3>2
  <2>9. Len(new.table) = L + n
    BY <2>2, <2>3, <2>7
  <2> QED BY <2>2, <2>4, <2>8, <2>9 DEF InTurn
<1>3. Kept(h, w, u)
  BY DEF PushInv, After, Kept
<1> QED
  BY <1>1, <1>2, <1>3 DEF PushInv, InTurn

\* Where a loop begins.
LEMMA LoopBegins ==
  ASSUME NEW h, NEW w, WriterOK(h, w), NEW s, NEW t \in TableNames
  PROVE  PushInv(h, w, s, t, 0, w)
<1>1. Len(w.makers[t].table) \in Nat
  BY LenProperties DEF WriterOK, IsMaker
<1> QED
  BY <1>1, ExtendsItself DEF PushInv, InTurn, Kept

\* What a loop over the cells of a table leaves behind.
LEMMA LoopEnds ==
  ASSUME NEW h, NEW w, NEW v, NEW s, Len(s) \in Nat, NEW t \in TableNames, WriterOK(h, w),
         PushInv(h, w, s, t, Len(s), v)
  PROVE  /\ After(h, w, v, Touched(t)) /\ Kept(h, w, v)
         /\ t # "metadatas" /\ v.ok =>
              /\ Consecutive(s, v.makers[t])
              /\ \A c \in Cells(s) : Has(v, t, c)
<1>1. After(h, w, v, Touched(t)) /\ Kept(h, w, v)
  BY DEF PushInv
<1>2. ASSUME t # "metadatas", v.ok
      PROVE  Consecutive(s, v.makers[t]) /\ \A c \in Cells(s) : Has(v, t, c)
  <2>1. PICK L : L = Len(w.makers[t].table)
    OBVIOUS
  <2>2. \A i \in 1..Len(s) :
          HasCell(v.makers[t], s[i]) /\ GetIndex(v.makers[t], s[i]) = L + i - 1
    BY <1>2, <2>1 DEF PushInv, InTurn
  <2>3. L \in Nat
    BY <2>1, LenProperties DEF WriterOK, IsMaker
  <2>4. ASSUME NEW i \in 1..Len(s)
        PROVE  GetIndex(v.makers[t], s[i]) = GetIndex(v.makers[t], s[1]) + i - 1
    <3>1. 1 \in 1..Len(s)
      BY <2>4
    <3>2. GetIndex(v.makers[t], s[1]) = L
      BY <2>2, <2>3, <3>1
    <3> QED BY <2>2, <3>2
  <2> QED BY <2>2, <2>4 DEF Consecutive, Has, Cells
<1> QED
  BY <1>1, <1>2

-----------------------------------------------------------------------------
(* The loops of the writer. *)

CellPushes == INSTANCE Iteration WITH
  step <- LAMBDA t, q, r, v, c : Push(v, t, c),
  Inv <- LAMBDA h, w, s, t, n, v : PushInv(h, w, s, t, n, v)

LEMMA CellsPushed ==
  ASSUME NEW e, Known(e), NEW h, h = e.heap, NEW w, WriterOK(h, w),
         NEW t \in TableNames, t \in {"children", "files"},
         NEW s \in Seq(DOMAIN h[t]), NEW v, v = PushAll(w, t, s)
  PROVE  PushInv(h, w, s, t, Len(s), v)
<1> DEFINE run == CHOOSE f : CellPushes!IsRun(f, t, 0, 0, w, s, Len(s))
<1>1. Len(s) \in Nat /\ \A i \in 1..Len(s) : s[i] \in DOMAIN h[t]
  BY LenProperties, ElementOfSeq
<1>2. v = run[Len(s)]
  BY DEF PushAll, Pushes, CellPushes!IsRun
<1>3. CellPushes!IsRun(run, t, 0, 0, w, s, Len(s))
  <2>1. \E f : CellPushes!IsRun(f, t, 0, 0, w, s, Len(s))
    BY <1>1, CellPushes!RunExists
  <2> QED BY <2>1
<1> HIDE DEF run
<1>4. PushInv(h, w, s, t, 0, w)
  BY LoopBegins
<1>5. ASSUME NEW n \in 1..Len(s), NEW u, PushInv(h, w, s, t, n - 1, u)
      PROVE  PushInv(h, w, s, t, n, Push(u, t, s[n]))
  <2>1. s[n] \in DOMAIN h[t] /\ WriterOK(h, u) /\ t \in Touched(t)
    BY <1>1, <1>5 DEF PushInv, After, Touched
  <2>2. After(h, u, Push(u, t, s[n]), Touched(t)) /\ Adds(u, Push(u, t, s[n]), t, s[n])
    BY <2>1, Pushed
  <2>3. Touched(t) = {t}
    BY DEF Touched
  <2>4. Kept(h, u, Push(u, t, s[n]))
    BY <2>2, <2>3, KeptByOthers
  <2> QED BY <1>5, <2>2, <2>4, TurnFollows
<1>6. \A n \in 0..Len(s) : PushInv(h, w, s, t, n, run[n])
  <2>1. \A n \in 1..Len(s) : \A u : PushInv(h, w, s, t, n - 1, u) =>
          PushInv(h, w, s, t, n, Push(u, t, s[n]))
    BY <1>5
  <2> QED BY <1>1, <1>3, <1>4, <2>1, CellPushes!RunKeeps
<1> QED
  BY <1>1, <1>2, <1>6

MetadataPushes == INSTANCE Iteration WITH
  step <- LAMBDA p, q, r, v, m : PushNew(v, "metadatas", m),
  Inv <- LAMBDA h, w, s, t, n, v : PushInv(h, w, s, t, n, v)

LEMMA MetadatasPushed ==
  ASSUME NEW e, Known(e), NEW h, h = e.heap, NEW w, WriterOK(h, w),
         NEW s \in Seq(DOMAIN h.metadatas), NEW v, v = PushMetadatas(w, s)
  PROVE  PushInv(h, w, s, "metadatas", Len(s), v)
<1> DEFINE run == CHOOSE f : MetadataPushes!IsRun(f, 0, 0, 0, w, s, Len(s))
<1>1. Len(s) \in Nat /\ \A i \in 1..Len(s) : s[i] \in DOMAIN h.metadatas
  BY LenProperties, ElementOfSeq
<1>2. v = run[Len(s)]
  BY DEF PushMetadatas, Pushes, MetadataPushes!IsRun
<1>3. MetadataPushes!IsRun(run, 0, 0, 0, w, s, Len(s))
  <2>1. \E f : MetadataPushes!IsRun(f, 0, 0, 0, w, s, Len(s))
    BY <1>1, MetadataPushes!RunExists
  <2> QED BY <2>1
<1> HIDE DEF run
<1>4. PushInv(h, w, s, "metadatas", 0, w)
  BY LoopBegins, Kinds10
<1>5. ASSUME NEW n \in 1..Len(s), NEW u, PushInv(h, w, s, "metadatas", n - 1, u)
      PROVE  PushInv(h, w, s, "metadatas", n, PushNew(u, "metadatas", s[n]))
  <2>1. s[n] \in DOMAIN h.metadatas /\ WriterOK(h, u) /\ "metadatas" \in Touched("metadatas")
    BY <1>1, <1>5 DEF PushInv, After, Touched
  <2>2. After(h, u, PushNew(u, "metadatas", s[n]), Touched("metadatas"))
    BY <2>1, Kinds10, PushedNew
  <2>3. Touched("metadatas") = {"metadatas"}
    BY DEF Touched
  <2>4. Kept(h, u, PushNew(u, "metadatas", s[n]))
    BY <2>2, <2>3, KeptByOthers
  <2> QED BY <1>5, <2>2, <2>4, TurnFollows, Kinds10
<1>6. \A n \in 0..Len(s) : PushInv(h, w, s, "metadatas", n, run[n])
  <2>1. \A n \in 1..Len(s) : \A u : PushInv(h, w, s, "metadatas", n - 1, u) =>
          PushInv(h, w, s, "metadatas", n, PushNew(u, "metadatas", s[n]))
    BY <1>5
  <2> QED BY <1>1, <1>3, <1>4, <2>1, MetadataPushes!RunKeeps
<1> QED
  BY <1>1, <1>2, <1>6


\* The descriptors are at most Touched("descriptors").
LEMMA DescriptorPushed ==
  ASSUME NEW e, EngineOK(e), NEW w, WriterOK(e.heap, w), NEW inGroup, NEW versioned,
         NEW d \in DOMAIN e.heap.descriptors, DescriptorKnown(e.heap.descriptors[d]),
         NEW v, v = PushDescriptor(e, w, d, inGroup, versioned)
  PROVE  /\ After(e.heap, w, v, Touched("descriptors"))
         /\ Adds(w, v, "descriptors", d)
<1> DEFINE h == e.heap
           T == Touched("descriptors")
           x == h.descriptors[d]
           pushed == Push(w, "descriptors", d)
<1>1. T = {"descriptors", "metadatas"}
  BY DEF Touched
<1>2. /\ After(h, w, pushed, T) /\ Adds(w, pushed, "descriptors", d)
  <2>1. d \in DOMAIN h["descriptors"] /\ "descriptors" \in T
    BY <1>1
  <2> HIDE DEF T
  <2> QED BY <2>1, Pushed, Kinds10
<1>3. IsCell(x.metadata) => x.metadata.cell \in DOMAIN h.metadatas
  <2>1. DescriptorOK(h, x)
    BY Kinds10 DEF EngineOK, HeapOK, RecordOK
  <2> QED BY <2>1 DEF DescriptorOK, ReferenceTo, IsCell, None
<1>4. \/ v = pushed
      \/ v = Panicked(pushed)
      \/ IsCell(x.metadata) /\ v = PushNew(pushed, "metadatas", x.metadata.cell)
      \/ IsCell(x.metadata) /\ v = Push(pushed, "metadatas", x.metadata.cell)
  BY DEF PushDescriptor
<1>5. WriterOK(h, pushed)
  BY <1>2 DEF After
<1> HIDE DEF pushed, T, x
<1>6. CASE v = pushed
  BY <1>2, <1>6 DEF T
<1>7. CASE v = Panicked(pushed)
  <2>1. After(h, pushed, v, T) /\ ~v.ok
    BY <1>5, <1>7, Panics
  <2> QED BY <1>2, <2>1, AfterAfter DEF Adds, T
<1>8. ASSUME After(h, pushed, v, T), \A u \in TableNames : u # "metadatas" => v.makers[u] = pushed.makers[u]
      PROVE  After(h, w, v, T) /\ Adds(w, v, "descriptors", d)
  <2>1. v.ok => pushed.ok
    BY <1>8 DEF After
  <2>2. v.makers["descriptors"] = pushed.makers["descriptors"]
    BY <1>8, Kinds10
  <2> QED BY <1>2, <1>8, <2>1, <2>2, AfterAfter DEF Adds
<1>9. CASE IsCell(x.metadata) /\ v = PushNew(pushed, "metadatas", x.metadata.cell)
  <2>1. x.metadata.cell \in DOMAIN h["metadatas"] /\ "metadatas" \in T
    BY <1>1, <1>3, <1>9
  <2>2. After(h, pushed, v, T) /\ \A u \in TableNames : u # "metadatas" => v.makers[u] = pushed.makers[u]
    BY <1>5, <1>9, <2>1, PushedNew, Kinds10
  <2> QED BY <1>8, <2>2 DEF T
<1>10. CASE IsCell(x.metadata) /\ v = Push(pushed, "metadatas", x.metadata.cell)
  <2>1. x.metadata.cell \in DOMAIN h["metadatas"] /\ "metadatas" \in T
    BY <1>1, <1>3, <1>10
  <2>2. After(h, pushed, v, T) /\ \A u \in TableNames : u # "metadatas" => v.makers[u] = pushed.makers[u]
    BY <1>5, <1>10, <2>1, Pushed, Kinds10
  <2> QED BY <1>8, <2>2 DEF T
<1> QED
  BY <1>4, <1>6, <1>7, <1>9, <1>10

DescriptorPushes == INSTANCE Iteration WITH
  step <- LAMBDA e, a, b, v, d : PushDescriptor(e, v, d, a, b),
  Inv <- LAMBDA h, w, s, t, n, v : PushInv(h, w, s, t, n, v)

LEMMA DescriptorsPushed ==
  ASSUME NEW e, Known(e), NEW h, h = e.heap, NEW w, WriterOK(h, w),
         NEW inGroup, NEW versioned, NEW s \in Seq(DOMAIN h.descriptors),
         \A d \in Cells(s) : DescriptorKnown(h.descriptors[d]),
         NEW v, v = PushDescriptors(e, w, s, inGroup, versioned)
  PROVE  PushInv(h, w, s, "descriptors", Len(s), v)
<1> DEFINE run == CHOOSE f : DescriptorPushes!IsRun(f, e, inGroup, versioned, w, s, Len(s))
<1>1. Len(s) \in Nat /\ \A i \in 1..Len(s) : s[i] \in DOMAIN h.descriptors
  BY LenProperties, ElementOfSeq
<1>2. v = run[Len(s)]
  BY DEF PushDescriptors, Pushes, DescriptorPushes!IsRun
<1>3. DescriptorPushes!IsRun(run, e, inGroup, versioned, w, s, Len(s))
  <2>1. \E f : DescriptorPushes!IsRun(f, e, inGroup, versioned, w, s, Len(s))
    BY <1>1, DescriptorPushes!RunExists
  <2> QED BY <2>1
<1> HIDE DEF run
<1>4. PushInv(h, w, s, "descriptors", 0, w)
  BY LoopBegins, Kinds10
<1>5. ASSUME NEW n \in 1..Len(s), NEW u, PushInv(h, w, s, "descriptors", n - 1, u)
      PROVE  PushInv(h, w, s, "descriptors", n, PushDescriptor(e, u, s[n], inGroup, versioned))
  <2>1. s[n] \in DOMAIN h.descriptors /\ WriterOK(h, u) /\ "descriptors" \in Touched("descriptors")
    BY <1>1, <1>5 DEF PushInv, After, Touched
  <2>1a. DescriptorKnown(h.descriptors[s[n]])
    BY DEF Cells
  <2>2. /\ After(h, u, PushDescriptor(e, u, s[n], inGroup, versioned), Touched("descriptors"))
        /\ Adds(u, PushDescriptor(e, u, s[n], inGroup, versioned), "descriptors", s[n])
    BY <2>1, <2>1a, DescriptorPushed DEF Known
  <2>3. Touched("descriptors") = {"descriptors", "metadatas"}
    BY DEF Touched
  <2>4. Kept(h, u, PushDescriptor(e, u, s[n], inGroup, versioned))
    BY <2>2, <2>3, KeptByOthers
  <2> QED BY <1>5, <2>2, <2>4, TurnFollows, Kinds10
<1>6. \A n \in 0..Len(s) : PushInv(h, w, s, "descriptors", n, run[n])
  <2>1. \A n \in 1..Len(s) : \A u : PushInv(h, w, s, "descriptors", n - 1, u) =>
          PushInv(h, w, s, "descriptors", n, PushDescriptor(e, u, s[n], inGroup, versioned))
    BY <1>5
  <2> QED BY <1>1, <1>3, <1>4, <2>1, DescriptorPushes!RunKeeps
<1> QED
  BY <1>1, <1>2, <1>6

\* A push of an info: it and its descriptors, perhaps its link and its path.
LEMMA InfoPushed ==
  ASSUME NEW e, Known(e), NEW h, h = e.heap, NEW w, WriterOK(h, w),
         NEW inGroup, NEW versioned,
         NEW i \in DOMAIN h.infos, InfoKnown(h, h.infos[i]),
         NEW v, v = PushInfo(e, w, i, inGroup, versioned)
  PROVE  /\ After(h, w, v, Touched("infos")) /\ Adds(w, v, "infos", i) /\ Kept(h, w, v)
         /\ v.ok => Consecutive(h.infos[i].descriptors.cells, v.makers["descriptors"])
<1> DEFINE T == Touched("infos")
<1>1. PICK x, s, pushed, described, linked :
        /\ x = h.infos[i] /\ s = x.descriptors.cells
        /\ pushed = Push(w, "infos", i)
        /\ described = PushDescriptors(e, pushed, s, inGroup, versioned)
        /\ linked = IF x.shared \/ (~inGroup /\ Skips(e, x)) THEN described
                    ELSE PushNew(described, "links", x.link.cell)
  OBVIOUS
<1>2. v = IF inGroup THEN linked ELSE PushNew(linked, "paths", x.path.cell)
  BY <1>1 DEF PushInfo
<1>3. T = {"infos", "descriptors", "metadatas", "links", "paths"}
      /\ Touched("descriptors") = {"descriptors", "metadatas"}
  BY DEF Touched
<1>4. /\ x.link.cell \in DOMAIN h["links"] /\ x.path.cell \in DOMAIN h["paths"]
      /\ s \in Seq(DOMAIN h.descriptors)
      /\ \A d \in Cells(s) : DescriptorKnown(h.descriptors[d])
  <2>1. InfoOK(h, x) /\ InfoKnown(h, x)
    BY <1>1, Kinds10 DEF Known, EngineOK, HeapOK, RecordOK
  <2> QED BY <1>1, <2>1 DEF InfoOK, InfoKnown, ReferenceTo, SpanSetOf, IsCell, IsSet, None
<1> HIDE DEF T
<1>5. After(h, w, pushed, T) /\ Adds(w, pushed, "infos", i)
  <2>1. i \in DOMAIN h["infos"] /\ "infos" \in T
    BY <1>3
  <2> QED BY <1>1, <2>1, Pushed, Kinds10
<1>6. /\ After(h, pushed, described, T)
      /\ described.makers["infos"] = pushed.makers["infos"]
      /\ described.ok => Consecutive(s, described.makers["descriptors"])
  <2>1. WriterOK(h, pushed)
    BY <1>5 DEF After
  <2>2. PushInv(h, pushed, s, "descriptors", Len(s), described)
    BY <1>1, <1>4, <2>1, DescriptorsPushed
  <2>3. /\ After(h, pushed, described, Touched("descriptors"))
        /\ described.ok => Consecutive(s, described.makers["descriptors"])
    <3>1. Len(s) \in Nat
      BY <1>4, LenProperties
    <3> QED BY <2>1, <2>2, <3>1, LoopEnds, Kinds10
  <2>4. described.makers["infos"] = pushed.makers["infos"]
    BY <1>3, <2>3, Kinds10 DEF After
  <2> QED BY <1>3, <2>3, <2>4, AfterMore
<1>7. /\ After(h, described, linked, T)
      /\ linked.makers["infos"] = described.makers["infos"]
      /\ linked.makers["descriptors"] = described.makers["descriptors"]
  <2>1. WriterOK(h, described)
    BY <1>6 DEF After
  <2>2. CASE linked = described
    BY <2>1, <2>2, ExtendsItself
  <2>3. CASE linked = PushNew(described, "links", x.link.cell)
    <3>1. "links" \in T
      BY <1>3
    <3>2. After(h, described, linked, T)
          /\ \A u \in TableNames : u # "links" => linked.makers[u] = described.makers[u]
      BY <1>4, <2>1, <2>3, <3>1, PushedNew, Kinds10
    <3> QED BY <3>2, Kinds10
  <2> QED BY ZenonT(60), <1>1, <2>2, <2>3
<1>8. /\ After(h, linked, v, T)
      /\ v.makers["infos"] = linked.makers["infos"]
      /\ v.makers["descriptors"] = linked.makers["descriptors"]
  <2>1. WriterOK(h, linked)
    BY <1>7 DEF After
  <2>2. CASE v = linked
    BY <2>1, <2>2, ExtendsItself
  <2>3. CASE v = PushNew(linked, "paths", x.path.cell)
    <3>1. "paths" \in T
      BY <1>3
    <3>2. After(h, linked, v, T)
          /\ \A u \in TableNames : u # "paths" => v.makers[u] = linked.makers[u]
      BY <1>4, <2>1, <2>3, <3>1, PushedNew, Kinds10
    <3> QED BY <3>2, Kinds10
  <2> QED BY <1>2, <2>2, <2>3
<1>9. After(h, w, v, T)
  <2>1. After(h, w, described, T)
    BY <1>5, <1>6, AfterAfter
  <2>2. After(h, w, linked, T)
    BY <1>7, <2>1, AfterAfter
  <2> QED BY <1>8, <2>2, AfterAfter
<1>10. v.ok => pushed.ok /\ described.ok
  BY <1>6, <1>7, <1>8 DEF After
<1>11. v.makers["infos"] = pushed.makers["infos"]
  BY <1>6, <1>7, <1>8
<1>12. Adds(w, v, "infos", i)
  BY <1>5, <1>10, <1>11 DEF Adds
<1>13. v.ok => Consecutive(s, v.makers["descriptors"])
  BY <1>6, <1>7, <1>8, <1>10
<1>14. Kept(h, w, v)
  <2>1. GroupSpans(h, w) => GroupSpans(h, v)
    BY <1>3, <1>9, GroupSpansStay
  <2>2. ASSUME v.ok, InfoSpans(h, w) PROVE InfoSpans(h, v)
    <3>1. Cells(TableOf(v, "infos")) = Cells(TableOf(w, "infos")) \cup {i}
      BY <1>12, <2>2, AddedCell, Kinds10
    <3>2. Cells(TableOf(w, "infos")) \subseteq DOMAIN h.infos
      <4>1. w.makers["infos"].table \in Seq(DOMAIN h["infos"])
        BY Kinds10 DEF WriterOK, IsMaker
      <4> QED BY <4>1, CellsOfSeq DEF TableOf
    <3>3. Extended(w.makers["descriptors"], v.makers["descriptors"])
      BY <1>9, Kinds10 DEF After
    <3>4. \A j \in Cells(TableOf(w, "infos")) :
            Consecutive(h.infos[j].descriptors.cells, v.makers["descriptors"])
      BY <2>2, <3>2, <3>3, SetsAreSequences, ConsecutiveStays DEF InfoSpans
    <3> QED BY <1>1, <1>13, <2>2, <3>1, <3>4 DEF InfoSpans
  <2> QED BY <2>1, <2>2 DEF Kept
<1> QED
  BY <1>1, <1>9, <1>12, <1>13, <1>14 DEF T

InfoPushes == INSTANCE Iteration WITH
  step <- LAMBDA e, a, b, v, i : PushInfo(e, v, i, a, b),
  Inv <- LAMBDA h, w, s, t, n, v : PushInv(h, w, s, t, n, v)

LEMMA InfosPushed ==
  ASSUME NEW e, Known(e), NEW h, h = e.heap, NEW w, WriterOK(h, w),
         NEW inGroup, NEW versioned, NEW s \in Seq(DOMAIN h.infos),
         \A i \in Cells(s) : InfoKnown(h, h.infos[i]),
         NEW v, v = PushInfos(e, w, s, inGroup, versioned)
  PROVE  PushInv(h, w, s, "infos", Len(s), v)
<1> DEFINE run == CHOOSE f : InfoPushes!IsRun(f, e, inGroup, versioned, w, s, Len(s))
<1>1. Len(s) \in Nat /\ \A i \in 1..Len(s) : s[i] \in DOMAIN h.infos
  BY LenProperties, ElementOfSeq
<1>2. v = run[Len(s)]
  BY DEF PushInfos, Pushes, InfoPushes!IsRun
<1>3. InfoPushes!IsRun(run, e, inGroup, versioned, w, s, Len(s))
  <2>1. \E f : InfoPushes!IsRun(f, e, inGroup, versioned, w, s, Len(s))
    BY <1>1, InfoPushes!RunExists
  <2> QED BY <2>1
<1> HIDE DEF run
<1>4. PushInv(h, w, s, "infos", 0, w)
  BY LoopBegins, Kinds10
<1>5. ASSUME NEW n \in 1..Len(s), NEW u, PushInv(h, w, s, "infos", n - 1, u)
      PROVE  PushInv(h, w, s, "infos", n, PushInfo(e, u, s[n], inGroup, versioned))
  <2>1. s[n] \in DOMAIN h.infos /\ WriterOK(h, u) /\ "infos" \in Touched("infos")
    BY <1>1, <1>5 DEF PushInv, After, Touched
  <2>1a. InfoKnown(h, h.infos[s[n]])
    BY DEF Cells
  <2>2. /\ After(h, u, PushInfo(e, u, s[n], inGroup, versioned), Touched("infos"))
        /\ Adds(u, PushInfo(e, u, s[n], inGroup, versioned), "infos", s[n])
        /\ Kept(h, u, PushInfo(e, u, s[n], inGroup, versioned))
    BY <2>1, <2>1a, InfoPushed
  <2> QED BY <1>5, <2>2, TurnFollows, Kinds10
<1>6. \A n \in 0..Len(s) : PushInv(h, w, s, "infos", n, run[n])
  <2>1. \A n \in 1..Len(s) : \A u : PushInv(h, w, s, "infos", n - 1, u) =>
          PushInv(h, w, s, "infos", n, PushInfo(e, u, s[n], inGroup, versioned))
    BY <1>5
  <2> QED BY <1>1, <1>3, <1>4, <2>1, InfoPushes!RunKeeps
<1> QED
  BY <1>1, <1>2, <1>6

LEMMA GroupPushed ==
  ASSUME NEW e, Known(e), NEW h, h = e.heap, NEW w, WriterOK(h, w),
         NEW g \in DOMAIN h.groups, NEW v, v = PushGroup(e, w, g)
  PROVE  /\ After(h, w, v, Touched("groups")) /\ Adds(w, v, "groups", g) /\ Kept(h, w, v)
         /\ v.ok /\ IsInfoGroup(e, g) =>
              /\ Consecutive(h.groups[g].files.cells, v.makers["infos"])
              /\ \A i \in Cells(h.groups[g].files.cells) : Has(v, "infos", i)
<1> DEFINE T == Touched("groups")
<1>1. PICK x, s, pushed : x = h.groups[g] /\ s = x.files.cells /\ pushed = Push(w, "groups", g)
  OBVIOUS
<1>2. v = IF IsInfoGroup(e, g) THEN PushInfos(e, pushed, s, TRUE, IsVersionGroup(e, g))
          ELSE PushMetadatas(pushed, s)
  BY <1>1 DEF PushGroup
<1>3. /\ T = {"groups", "infos", "descriptors", "metadatas", "links", "paths"}
      /\ Touched("infos") = {"infos", "descriptors", "metadatas", "links", "paths"}
      /\ Touched("metadatas") = {"metadatas"}
  BY DEF Touched
<1>4. IF IsInfoGroup(e, g) THEN s \in Seq(DOMAIN h.infos) ELSE s \in Seq(DOMAIN h.metadatas)
  <2>1. GroupOK(h, x) /\ x.files.is # "range"
    BY <1>1, Kinds10 DEF Known, EngineOK, HeapOK, RecordOK, OwnersKnown
  <2> QED BY <1>1, <2>1 DEF GroupOK, FileSets, IsInfoGroup
<1> HIDE DEF T
<1>5. After(h, w, pushed, {"groups"}) /\ After(h, w, pushed, T) /\ Adds(w, pushed, "groups", g)
  <2>1. g \in DOMAIN h["groups"] /\ "groups" \in T
    BY <1>3
  <2> QED BY <1>1, <2>1, Pushed, Kinds10
<1>6. WriterOK(h, pushed)
  BY <1>5 DEF After
<1>7. /\ After(h, pushed, v, T) /\ v.makers["groups"] = pushed.makers["groups"]
      /\ Kept(h, pushed, v)
      /\ v.ok /\ IsInfoGroup(e, g) =>
           Consecutive(s, v.makers["infos"]) /\ \A c \in Cells(s) : Has(v, "infos", c)
  <2>1. CASE IsInfoGroup(e, g)
    <3>1. s \in Seq(DOMAIN h.infos) /\ Len(s) \in Nat
      BY <1>4, <2>1, LenProperties
    <3>2. \A i \in Cells(s) : InfoKnown(h, h.infos[i])
      <4>1. Cells(s) \subseteq DOMAIN h.infos
        BY <3>1, CellsOfSeq
      <4> QED BY <4>1 DEF Known, UsersKnown
    <3>3. PushInv(h, pushed, s, "infos", Len(s), v)
      <4>1. PICK b : b = IsVersionGroup(e, g)
        OBVIOUS
      <4>2. v = PushInfos(e, pushed, s, TRUE, b)
        BY <1>2, <2>1, <4>1
      <4> QED BY <1>6, <3>1, <3>2, <4>2, InfosPushed
    <3>4. /\ After(h, pushed, v, Touched("infos")) /\ Kept(h, pushed, v)
          /\ v.ok => Consecutive(s, v.makers["infos"]) /\ \A c \in Cells(s) : Has(v, "infos", c)
      BY <1>6, <3>1, <3>3, LoopEnds, Kinds10
    <3>5. v.makers["groups"] = pushed.makers["groups"]
      BY <1>3, <3>4, Kinds10 DEF After
    <3> QED BY <1>3, <3>4, <3>5, AfterMore
  <2>2. CASE ~IsInfoGroup(e, g)
    <3>1. s \in Seq(DOMAIN h.metadatas) /\ Len(s) \in Nat
      BY <1>4, <2>2, LenProperties
    <3>2. PushInv(h, pushed, s, "metadatas", Len(s), v)
      <4>1. v = PushMetadatas(pushed, s)
        BY <1>2, <2>2
      <4> QED BY <1>6, <3>1, <4>1, MetadatasPushed
    <3>3. After(h, pushed, v, Touched("metadatas")) /\ Kept(h, pushed, v)
      BY <1>6, <3>1, <3>2, LoopEnds, Kinds10
    <3>4. v.makers["groups"] = pushed.makers["groups"]
      BY <1>3, <3>3, Kinds10 DEF After
    <3> QED BY <1>3, <2>2, <3>3, <3>4, AfterMore
  <2> QED BY <2>1, <2>2
<1>8. After(h, w, v, T)
  BY <1>5, <1>7, AfterAfter
<1>9. Adds(w, v, "groups", g)
  BY <1>5, <1>7 DEF Adds, After
<1>10. Kept(h, w, v)
  <2>1. ASSUME v.ok, InfoSpans(h, w) PROVE InfoSpans(h, v)
    <3>1. InfoSpans(h, pushed)
      BY <1>5, <2>1, InfoSpansStay
    <3> QED BY <1>7, <2>1, <3>1 DEF Kept
  <2>2. ASSUME v.ok, GroupSpans(h, w) PROVE GroupSpans(h, v)
    <3>1. Cells(TableOf(v, "groups")) = Cells(TableOf(w, "groups")) \cup {g}
      BY <1>9, <2>2, AddedCell, Kinds10
    <3>2. Cells(TableOf(w, "groups")) \subseteq DOMAIN h.groups
      <4>1. w.makers["groups"].table \in Seq(DOMAIN h["groups"])
        BY Kinds10 DEF WriterOK, IsMaker
      <4> QED BY <4>1, CellsOfSeq DEF TableOf
    <3>3. Extended(w.makers["infos"], v.makers["infos"])
      BY <1>8, Kinds10 DEF After
    <3>4. \A c \in Cells(TableOf(w, "groups")) :
            h.groups[c].files.is = "infos" =>
              Consecutive(h.groups[c].files.cells, v.makers["infos"])
      BY <2>2, <3>2, <3>3, SetsAreSequences, ConsecutiveStays DEF GroupSpans
    <3>5. h.groups[g].files.is = "infos" =>
            Consecutive(h.groups[g].files.cells, v.makers["infos"])
      BY <1>1, <1>7, <2>2 DEF IsInfoGroup
    <3> QED BY <3>1, <3>4, <3>5 DEF GroupSpans
  <2> QED BY <2>1, <2>2 DEF Kept
<1> QED
  BY <1>1, <1>7, <1>8, <1>9, <1>10 DEF T

GroupPushes == INSTANCE Iteration WITH
  step <- LAMBDA e, q, r, v, g : PushGroup(e, v, g),
  Inv <- LAMBDA h, w, s, t, n, v : PushInv(h, w, s, t, n, v)

LEMMA GroupsPushed ==
  ASSUME NEW e, Known(e), NEW h, h = e.heap, NEW w, WriterOK(h, w),
         NEW s \in Seq(DOMAIN h.groups), NEW v, v = PushGroups(e, w, s)
  PROVE  PushInv(h, w, s, "groups", Len(s), v)
<1> DEFINE run == CHOOSE f : GroupPushes!IsRun(f, e, 0, 0, w, s, Len(s))
<1>1. Len(s) \in Nat /\ \A i \in 1..Len(s) : s[i] \in DOMAIN h.groups
  BY LenProperties, ElementOfSeq
<1>2. v = run[Len(s)]
  BY DEF PushGroups, Pushes, GroupPushes!IsRun
<1>3. GroupPushes!IsRun(run, e, 0, 0, w, s, Len(s))
  <2>1. \E f : GroupPushes!IsRun(f, e, 0, 0, w, s, Len(s))
    BY <1>1, GroupPushes!RunExists
  <2> QED BY <2>1
<1> HIDE DEF run
<1>4. PushInv(h, w, s, "groups", 0, w)
  BY LoopBegins, Kinds10
<1>5. ASSUME NEW n \in 1..Len(s), NEW u, PushInv(h, w, s, "groups", n - 1, u)
      PROVE  PushInv(h, w, s, "groups", n, PushGroup(e, u, s[n]))
  <2>1. s[n] \in DOMAIN h.groups /\ WriterOK(h, u) /\ "groups" \in Touched("groups")
    BY <1>1, <1>5 DEF PushInv, After, Touched
  <2>2. /\ After(h, u, PushGroup(e, u, s[n]), Touched("groups"))
        /\ Adds(u, PushGroup(e, u, s[n]), "groups", s[n])
        /\ Kept(h, u, PushGroup(e, u, s[n]))
    BY <2>1, GroupPushed
  <2> QED BY <1>5, <2>2, TurnFollows, Kinds10
<1>6. \A n \in 0..Len(s) : PushInv(h, w, s, "groups", n, run[n])
  <2>1. \A n \in 1..Len(s) : \A u : PushInv(h, w, s, "groups", n - 1, u) =>
          PushInv(h, w, s, "groups", n, PushGroup(e, u, s[n]))
    BY <1>5
  <2> QED BY <1>1, <1>3, <1>4, <2>1, GroupPushes!RunKeeps
<1> QED
  BY <1>1, <1>2, <1>6

-----------------------------------------------------------------------------
(* The turns of from_engine. *)

LEMMA PackageSpansStay ==
  ASSUME NEW e, Known(e), NEW h, h = e.heap, NEW w, NEW v, NEW T, After(h, w, v, T),
         "packages" \notin T, PackageSpans(h, w)
  PROVE  PackageSpans(h, v)
<1>1. /\ v.makers["packages"] = w.makers["packages"]
      /\ Extended(w.makers["groups"], v.makers["groups"])
      /\ Extended(w.makers["infos"], v.makers["infos"])
      /\ Extended(w.makers["children"], v.makers["children"])
  BY Kinds10 DEF After
<1>2. Cells(TableOf(v, "packages")) \subseteq DOMAIN h.packages
  <2>1. v.makers["packages"].table \in Seq(DOMAIN h["packages"])
    BY Kinds10 DEF After, WriterOK, IsMaker
  <2> QED BY <2>1, CellsOfSeq DEF TableOf
<1>3. \A p \in DOMAIN h.packages :
        /\ Len(h.packages[p].groups.cells) \in Nat
        /\ Len(h.packages[p].infos.cells) \in Nat
        /\ Len(h.packages[p].children.cells) \in Nat
  BY ZenonT(60), SetsAreSequences, LenProperties
<1> QED
  BY <1>1, <1>2, <1>3, ConsecutiveStays DEF PackageSpans, TableOf

LEMMA PatchSpansStay ==
  ASSUME NEW e, Known(e), NEW h, h = e.heap, NEW w, NEW v, NEW T, After(h, w, v, T),
         "patches" \notin T, PatchSpans(h, w)
  PROVE  PatchSpans(h, v)
<1>1. /\ v.makers["patches"] = w.makers["patches"]
      /\ Extended(w.makers["files"], v.makers["files"])
  BY Kinds10 DEF After
<1>2. Cells(TableOf(v, "patches")) \subseteq DOMAIN h.patches
  <2>1. v.makers["patches"].table \in Seq(DOMAIN h["patches"])
    BY Kinds10 DEF After, WriterOK, IsMaker
  <2> QED BY <2>1, CellsOfSeq DEF TableOf
<1>3. \A n \in DOMAIN h.patches : Len(h.patches[n].files.cells) \in Nat
  BY SetsAreSequences, LenProperties
<1> QED
  BY <1>1, <1>2, <1>3, ConsecutiveStays DEF PatchSpans, TableOf

LEMMA PackagePushed ==
  ASSUME NEW e, Known(e), NEW h, h = e.heap, NEW w, WriterOK(h, w),
         NEW p \in DOMAIN h.packages, NEW v, v = PushPackage(e, w, p)
  PROVE  /\ After(h, w, v, TableNames \ {"patches", "files"})
         /\ v.ok /\ InOrder(h, w) => InOrder(h, v)
<1> DEFINE T == TableNames \ {"patches", "files"}
<1>1. PICK x, groups, children, infos, pushed, grouped, parented :
        /\ x = h.packages[p] /\ groups = x.groups.cells
        /\ children = x.children.cells /\ infos = x.infos.cells
        /\ pushed = Push(w, "packages", p)
        /\ grouped = PushGroups(e, pushed, groups)
        /\ parented = PushAll(grouped, "children", children)
  OBVIOUS
<1>2. v = PushInfos(e, parented, infos, FALSE, FALSE)
  BY <1>1 DEF PushPackage
<1>3. /\ groups \in Seq(DOMAIN h.groups) /\ infos \in Seq(DOMAIN h.infos)
      /\ children \in Seq(DOMAIN h["children"])
      /\ Len(groups) \in Nat /\ Len(infos) \in Nat /\ Len(children) \in Nat
      /\ \A i \in Cells(infos) : InfoKnown(h, h.infos[i])
  <2>1. /\ groups \in Seq(DOMAIN h.groups) /\ infos \in Seq(DOMAIN h.infos)
        /\ children \in Seq(DOMAIN h["children"])
    BY <1>1, SetsAreSequences
  <2>2. Cells(infos) \subseteq DOMAIN h.infos
    BY <2>1, CellsOfSeq
  <2> QED BY <2>1, <2>2, LenProperties DEF Known, UsersKnown
<1>4. /\ "packages" \in T /\ "packages" \notin Touched("groups")
      /\ "packages" \notin Touched("children") /\ "packages" \notin Touched("infos")
      /\ Touched("groups") \subseteq T /\ Touched("children") \subseteq T
      /\ Touched("infos") \subseteq T
  BY DEF Touched, TableNames
<1> HIDE DEF T
<1>5. /\ After(h, w, pushed, {"packages"}) /\ After(h, w, pushed, T)
      /\ Adds(w, pushed, "packages", p)
  <2>1. p \in DOMAIN h["packages"]
    OBVIOUS
  <2> QED BY <1>1, <1>4, <2>1, Pushed, Kinds10
<1>6. /\ After(h, pushed, grouped, Touched("groups")) /\ Kept(h, pushed, grouped)
      /\ grouped.ok => Consecutive(groups, grouped.makers["groups"])
  <2>1. WriterOK(h, pushed)
    BY <1>5 DEF After
  <2>2. PushInv(h, pushed, groups, "groups", Len(groups), grouped)
    BY <1>1, <1>3, <2>1, GroupsPushed
  <2> QED BY <1>3, <2>1, <2>2, LoopEnds, Kinds10
<1>7. /\ After(h, grouped, parented, Touched("children")) /\ Kept(h, grouped, parented)
      /\ parented.ok => Consecutive(children, parented.makers["children"])
  <2>1. WriterOK(h, grouped)
    BY <1>6 DEF After
  <2>2. PushInv(h, grouped, children, "children", Len(children), parented)
    BY <1>1, <1>3, <2>1, CellsPushed, Kinds10
  <2> QED BY <1>3, <2>1, <2>2, LoopEnds, Kinds10
<1>8. /\ After(h, parented, v, Touched("infos")) /\ Kept(h, parented, v)
      /\ v.ok => Consecutive(infos, v.makers["infos"])
  <2>1. WriterOK(h, parented)
    BY <1>7 DEF After
  <2>2. PushInv(h, parented, infos, "infos", Len(infos), v)
    BY <1>2, <1>3, <2>1, InfosPushed
  <2> QED BY <1>3, <2>1, <2>2, LoopEnds, Kinds10
<1>9. After(h, w, v, T)
  <2>1. After(h, w, grouped, T)
    BY <1>4, <1>5, <1>6, AfterMore, AfterAfter
  <2>2. After(h, w, parented, T)
    BY <1>4, <1>7, <2>1, AfterMore, AfterAfter
  <2> QED BY <1>4, <1>8, <2>2, AfterMore, AfterAfter
<1>10. v.ok => pushed.ok /\ grouped.ok /\ parented.ok
  BY <1>6, <1>7, <1>8 DEF After
<1>11. Adds(w, v, "packages", p)
  <2>1. v.makers["packages"] = pushed.makers["packages"]
    BY <1>4, <1>6, <1>7, <1>8, Kinds10 DEF After
  <2> QED BY <1>5, <1>10, <2>1 DEF Adds
<1>12. ASSUME v.ok, InOrder(h, w) PROVE InfoSpans(h, v) /\ GroupSpans(h, v)
  <2>1. InfoSpans(h, pushed) /\ GroupSpans(h, pushed)
    BY SMTT(60), <1>5, <1>12, InfoSpansStay, GroupSpansStay DEF InOrder
  <2> QED BY <1>6, <1>7, <1>8, <1>10, <1>12, <2>1 DEF Kept
<1>13. ASSUME v.ok, InOrder(h, w) PROVE PackageSpans(h, v)
  <2>1. Cells(TableOf(v, "packages")) = Cells(TableOf(w, "packages")) \cup {p}
    BY <1>11, <1>13, AddedCell, Kinds10
  <2>2. Cells(TableOf(w, "packages")) \subseteq DOMAIN h.packages
    <3>1. w.makers["packages"].table \in Seq(DOMAIN h["packages"])
      BY Kinds10 DEF WriterOK, IsMaker
    <3> QED BY <3>1, CellsOfSeq DEF TableOf
  <2>3. /\ Extended(w.makers["groups"], v.makers["groups"])
        /\ Extended(w.makers["infos"], v.makers["infos"])
        /\ Extended(w.makers["children"], v.makers["children"])
    BY <1>9, Kinds10 DEF After
  <2>4. \A c \in DOMAIN h.packages :
          /\ Len(h.packages[c].groups.cells) \in Nat
          /\ Len(h.packages[c].infos.cells) \in Nat
          /\ Len(h.packages[c].children.cells) \in Nat
    BY ZenonT(60), SetsAreSequences, LenProperties
  <2>5. \A c \in Cells(TableOf(w, "packages")) :
          /\ Consecutive(h.packages[c].groups.cells, v.makers["groups"])
          /\ Consecutive(h.packages[c].infos.cells, v.makers["infos"])
          /\ Consecutive(h.packages[c].children.cells, v.makers["children"])
    BY <1>13, <2>2, <2>3, <2>4, ConsecutiveStays DEF PackageSpans, InOrder
  <2>6. Consecutive(groups, v.makers["groups"])
    <3>1. Extended(grouped.makers["groups"], v.makers["groups"])
      BY <1>7, <1>8, Kinds10 DEF After, Extended
    <3> QED BY <1>3, <1>6, <1>10, <1>13, <3>1, ConsecutiveStays
  <2>7. Consecutive(children, v.makers["children"])
    <3>1. Extended(parented.makers["children"], v.makers["children"])
      BY <1>8, Kinds10 DEF After
    <3> QED BY <1>3, <1>7, <1>10, <1>13, <3>1, ConsecutiveStays
  <2> QED BY <1>1, <1>8, <1>13, <2>1, <2>5, <2>6, <2>7 DEF PackageSpans
<1>14. PatchSpans(h, w) => PatchSpans(h, v)
  <2>1. "patches" \notin T
    BY DEF T
  <2> QED BY <1>9, <2>1, PatchSpansStay
<1> QED
  BY <1>9, <1>12, <1>13, <1>14 DEF InOrder, T

\* What a turn that does not panic leaves behind.
OneTurn(h, w, v) ==
  v.ok => /\ WriterOK(h, v)
          /\ \A t \in TableNames : Extended(w.makers[t], v.makers[t])
          /\ InOrder(h, w) => InOrder(h, v)

\* The index of a cell that is there.
LEMMA IndexIsNat ==
  ASSUME NEW h, NEW w, WriterOK(h, w), NEW t \in TableNames, NEW c, Has(w, t, c)
  PROVE  IndexIn(w, t, c) \in Nat
<1>1. IsMap(w.makers[t].index, DOMAIN h[t], Nat)
  BY DEF WriterOK, IsMaker
<1> QED
  BY <1>1 DEF IsMap, Has, HasCell, IndexIn, GetIndex

\* A count or an offset is noted; nothing is pushed.
LEMMA NumbersNoted ==
  ASSUME NEW h, NEW w, WriterOK(h, w), NEW n \in Nat, NEW v,
         v = [w EXCEPT !.infoStart = n] \/ v = [w EXCEPT !.lastFiles = n]
  PROVE  WriterOK(h, v) /\ v.makers = w.makers /\ v.ok = w.ok
<1>1. PICK a, b, c, d : a = w.makers /\ b = w.infoStart /\ c = w.lastFiles /\ d = w.ok
  OBVIOUS
<1>2. w = [makers |-> a, infoStart |-> b, lastFiles |-> c, ok |-> d]
  BY <1>1 DEF WriterOK
<1>3. \/ v = [makers |-> a, infoStart |-> n, lastFiles |-> c, ok |-> d]
      \/ v = [makers |-> a, infoStart |-> b, lastFiles |-> n, ok |-> d]
  BY <1>2
<1>4. /\ v = [makers |-> v.makers, infoStart |-> v.infoStart, lastFiles |-> v.lastFiles, ok |-> v.ok]
      /\ v.makers = w.makers /\ v.ok = w.ok /\ v.infoStart \in Nat /\ v.lastFiles \in Nat
  BY <1>1, <1>3 DEF WriterOK
<1> QED
  BY <1>4 DEF WriterOK, TableOf

LEMMA InfoGroupPushed ==
  ASSUME NEW e, Known(e), NEW h, h = e.heap, NEW w, WriterOK(h, w),
         NEW g \in DOMAIN h.groups, NEW v, v = PushInfoGroup(e, w, g)
  PROVE  OneTurn(h, w, v)
<1>1. PICK pushed, s : pushed = PushGroup(e, w, g) /\ s = h.groups[g].files.cells
  OBVIOUS
<1>2. \/ v = w
      \/ IsInfoGroup(e, g) /\ v = pushed
      \/ IsInfoGroup(e, g) /\ s = <<>> /\ v = Panicked(pushed)
      \/ IsInfoGroup(e, g) /\ s # <<>>
           /\ v = [pushed EXCEPT !.infoStart = IndexIn(pushed, "infos", s[1])]
  BY <1>1 DEF PushInfoGroup
<1>3. CASE v = w
  BY <1>3 DEF OneTurn, Extended
<1>4. CASE IsInfoGroup(e, g) /\ v # w
  <2>1. /\ After(h, w, pushed, Touched("groups")) /\ Kept(h, w, pushed)
        /\ pushed.ok => \A i \in Cells(s) : Has(pushed, "infos", i)
    BY <1>1, <1>4, GroupPushed
  <2>2. OneTurn(h, w, pushed)
    <3>1. "packages" \notin Touched("groups") /\ "patches" \notin Touched("groups")
      BY DEF Touched
    <3>2. /\ PackageSpans(h, w) => PackageSpans(h, pushed)
          /\ PatchSpans(h, w) => PatchSpans(h, pushed)
      BY <2>1, <3>1, PackageSpansStay, PatchSpansStay
    <3> QED BY <2>1, <3>2 DEF OneTurn, After, Kept, InOrder
  <2>3. WriterOK(h, pushed)
    BY <2>1 DEF After
  <2>4. CASE v = pushed
    BY <2>2, <2>4
  <2>5. CASE v = Panicked(pushed)
    <3>1. ~v.ok
      BY <2>3, <2>5, Panics
    <3> QED BY <3>1 DEF OneTurn
  <2>6. CASE s # <<>> /\ v = [pushed EXCEPT !.infoStart = IndexIn(pushed, "infos", s[1])]
    <3>1. PICK n : n = IndexIn(pushed, "infos", s[1])
      OBVIOUS
    <3>2. ASSUME pushed.ok PROVE n \in Nat
      <4>1. s \in Seq(DOMAIN h.infos)
        <5>1. GroupOK(h, h.groups[g])
          BY Kinds10 DEF Known, EngineOK, HeapOK, RecordOK
        <5> QED BY <1>1, <1>4, <5>1 DEF GroupOK, FileSets, IsInfoGroup
      <4>2. s[1] \in Cells(s)
        BY <2>6, <4>1, LenProperties, EmptySeq DEF Cells
      <4> QED BY <2>1, <2>3, <3>1, <3>2, <4>2, IndexIsNat, Kinds10
    <3>3. v.ok => pushed.ok
      <4>1. pushed = [makers |-> pushed.makers, infoStart |-> pushed.infoStart,
                      lastFiles |-> pushed.lastFiles, ok |-> pushed.ok]
        BY <2>3 DEF WriterOK
      <4>2. v = [pushed EXCEPT !.infoStart = n]
        BY <2>6, <3>1
      <4> QED BY <4>1, <4>2
    <3>4. ASSUME v.ok
          PROVE  WriterOK(h, v) /\ v.makers = pushed.makers /\ pushed.ok
      BY <2>3, <2>6, <3>1, <3>2, <3>3, <3>4, NumbersNoted
    <3>5. ASSUME v.ok, InOrder(h, pushed) PROVE InOrder(h, v)
      BY SMTT(60), <3>4, <3>5 DEF InOrder, InfoSpans, GroupSpans, PackageSpans, PatchSpans, TableOf
    <3> QED BY <2>2, <3>4, <3>5 DEF OneTurn
  <2> QED BY <1>2, <1>4, <2>4, <2>5, <2>6
<1> QED
  BY <1>2, <1>3, <1>4

LEMMA PatchPushed ==
  ASSUME NEW e, Known(e), NEW h, h = e.heap, NEW w, WriterOK(h, w),
         NEW n \in DOMAIN h.patches, NEW v, v = PushPatch(e, w, n)
  PROVE  /\ OneTurn(h, w, v)
         /\ v.ok => \A f \in Cells(h.patches[n].files.cells) : Has(v, "files", f)
<1> DEFINE T == TableNames \ {"packages"}
           U == TableNames \ {"packages", "patches"}
<1>1. PICK x, files, g, others, pushed, filed, grouped :
        /\ x = h.patches[n] /\ files = x.files.cells /\ g = x.group.cell
        /\ others = SubSeq(x.infos.cells, Len(h.groups[g].files.cells) + 1, Len(x.infos.cells))
        /\ pushed = Push(w, "patches", n)
        /\ filed = PushAll(pushed, "files", files)
        /\ grouped = PushGroup(e, filed, g)
  OBVIOUS
<1>2. \/ v = Panicked(grouped)
      \/ v = PushInfos(e, grouped, others, TRUE, TRUE)
  BY ZenonT(60), <1>1 DEF PushPatch
<1>3. g \in DOMAIN h.groups
  <2>1. PatchOK(h, x) /\ IsCell(x.group)
    BY ZenonT(60), <1>1, Kinds10 DEF Known, UsersKnown, EngineOK, HeapOK, RecordOK
  <2> QED BY ZenonT(60), <1>1, <2>1 DEF PatchOK, ReferenceTo, IsCell, None
<1>4. /\ files \in Seq(DOMAIN h["files"]) /\ Len(files) \in Nat
      /\ others \in Seq(DOMAIN h.infos) /\ Len(others) \in Nat
      /\ \A i \in Cells(others) : InfoKnown(h, h.infos[i])
  <2>1. x.infos.cells \in Seq(DOMAIN h.infos) /\ files \in Seq(DOMAIN h["files"])
    BY ZenonT(60), <1>1, SetsAreSequences
  <2>2. PICK m, l : m = Len(h.groups[g].files.cells) /\ l = Len(x.infos.cells)
    OBVIOUS
  <2>3. m \in Nat /\ l \in Nat
    BY <1>3, <2>1, <2>2, SetsAreSequences, LenProperties
  <2>4. m + 1 \in Nat /\ m + 1 >= 1
    BY <2>3
  <2>5. others \in Seq(DOMAIN h.infos)
    <3>1. PICK s, a : s = x.infos.cells /\ a = m + 1
      OBVIOUS
    <3>2. others = SubSeq(s, a, l)
      BY <1>1, <2>2, <3>1, Zenon
    <3>3. s \in Seq(DOMAIN h.infos) /\ a \in Nat /\ a >= 1
      BY <2>1, <2>4, <3>1
    <3>4. l <= Len(s)
      <4>1. l = Len(s)
        BY <2>2, <3>1, Zenon
      <4> QED BY <2>3, <4>1
    <3> QED BY <2>3, <3>2, <3>3, <3>4, SubSeqIsSeq
  <2>6. Cells(others) \subseteq DOMAIN h.infos
    BY <2>5, CellsOfSeq
  <2> QED BY SMTT(60), <2>1, <2>5, <2>6, LenProperties DEF Known, UsersKnown
<1>5. /\ "patches" \in T /\ "patches" \notin U /\ "packages" \notin T
      /\ "infos" \notin {"patches"} /\ "groups" \notin {"patches"}
      /\ U \subseteq T /\ {"patches"} \subseteq T
      /\ Touched("groups") \subseteq U /\ Touched("files") \subseteq U
      /\ Touched("infos") \subseteq U
  BY DEF Touched, TableNames
<1> HIDE DEF T, U
<1>6. /\ After(h, w, pushed, {"patches"}) /\ Adds(w, pushed, "patches", n)
      /\ Kept(h, w, pushed)
  <2>1. n \in DOMAIN h["patches"]
    BY SMTT(60)
  <2>2. After(h, w, pushed, {"patches"}) /\ Adds(w, pushed, "patches", n)
    BY ZenonT(60), <1>1, <2>1, Pushed, Kinds10
  <2> QED BY <1>5, <2>2, KeptByOthers
<1>7. /\ After(h, pushed, filed, U) /\ Kept(h, pushed, filed)
      /\ filed.ok => /\ Consecutive(files, filed.makers["files"])
                     /\ \A f \in Cells(files) : Has(filed, "files", f)
  <2>1. WriterOK(h, pushed)
    BY SMTT(60), <1>6 DEF After
  <2>2. PushInv(h, pushed, files, "files", Len(files), filed)
    BY ZenonT(60), <1>1, <1>4, <2>1, CellsPushed, Kinds10
  <2>3. /\ After(h, pushed, filed, Touched("files")) /\ Kept(h, pushed, filed)
        /\ filed.ok => /\ Consecutive(files, filed.makers["files"])
                       /\ \A f \in Cells(files) : Has(filed, "files", f)
    BY <1>4, <2>1, <2>2, LoopEnds, Kinds10
  <2> QED BY <1>5, <2>3, AfterMore
<1>8. After(h, filed, grouped, U) /\ Kept(h, filed, grouped)
  <2>1. WriterOK(h, filed)
    BY <1>7 DEF After
  <2>2. After(h, filed, grouped, Touched("groups")) /\ Kept(h, filed, grouped)
    BY ZenonT(60), <1>1, <1>3, <2>1, GroupPushed
  <2> QED BY <1>5, <2>2, AfterMore
<1>9. After(h, grouped, v, U) /\ Kept(h, grouped, v)
  <2>1. WriterOK(h, grouped)
    BY <1>8 DEF After
  <2>2. CASE v = Panicked(grouped)
    <3>1. After(h, grouped, v, U) /\ ~v.ok
      BY <2>1, <2>2, Panics
    <3> QED BY <3>1 DEF Kept
  <2>3. CASE v = PushInfos(e, grouped, others, TRUE, TRUE)
    <3>1. PushInv(h, grouped, others, "infos", Len(others), v)
      BY <1>4, <2>1, <2>3, InfosPushed
    <3>2. After(h, grouped, v, Touched("infos")) /\ Kept(h, grouped, v)
      BY <1>4, <2>1, <3>1, LoopEnds, Kinds10
    <3> QED BY <1>5, <3>2, AfterMore
  <2> QED BY <1>2, <2>2, <2>3
<1>10. After(h, filed, v, U)
  BY <1>8, <1>9, AfterAfter
<1>11. After(h, pushed, v, U)
  BY <1>7, <1>10, AfterAfter
<1>12. After(h, w, v, T)
  BY <1>5, <1>6, <1>11, AfterMore, AfterAfter
<1>13. v.ok => pushed.ok /\ filed.ok /\ grouped.ok
  BY <1>9, <1>10, <1>11 DEF After
<1>14. Extended(filed.makers["files"], v.makers["files"])
  BY <1>10, Kinds10 DEF After
<1>15. v.ok => \A f \in Cells(files) : Has(v, "files", f)
  BY <1>7, <1>13, <1>14 DEF Extended, Has, HasCell
<1>16. Adds(w, v, "patches", n)
  <2>1. v.makers["patches"] = pushed.makers["patches"]
    BY SMTT(60), <1>5, <1>11, Kinds10 DEF After
  <2> QED BY <1>6, <1>13, <2>1 DEF Adds
<1>17. ASSUME v.ok, PatchSpans(h, w) PROVE PatchSpans(h, v)
  <2>1. Cells(TableOf(v, "patches")) = Cells(TableOf(w, "patches")) \cup {n}
    BY <1>16, <1>17, AddedCell, Kinds10
  <2>2. Cells(TableOf(w, "patches")) \subseteq DOMAIN h.patches
    <3>1. w.makers["patches"].table \in Seq(DOMAIN h["patches"])
      BY Kinds10 DEF WriterOK, IsMaker
    <3> QED BY <3>1, CellsOfSeq DEF TableOf
  <2>3. Extended(w.makers["files"], v.makers["files"])
    BY <1>12, Kinds10 DEF After
  <2>4. \A m \in DOMAIN h.patches : Len(h.patches[m].files.cells) \in Nat
    BY SetsAreSequences, LenProperties
  <2>5. \A m \in Cells(TableOf(w, "patches")) :
          Consecutive(h.patches[m].files.cells, v.makers["files"])
    BY <1>17, <2>2, <2>3, <2>4, ConsecutiveStays DEF PatchSpans
  <2>6. Consecutive(files, v.makers["files"])
    BY <1>4, <1>7, <1>13, <1>14, <1>17, ConsecutiveStays
  <2> QED BY ZenonT(60), <1>1, <2>1, <2>5, <2>6 DEF PatchSpans
<1>18. PackageSpans(h, w) => PackageSpans(h, v)
  BY <1>5, <1>12, PackageSpansStay
<1>19. v.ok /\ InOrder(h, w) => InOrder(h, v)
  BY <1>6, <1>7, <1>8, <1>9, <1>13, <1>17, <1>18 DEF Kept, InOrder
<1> QED
  BY ZenonT(60), <1>1, <1>12, <1>15, <1>19 DEF OneTurn, After

LEMMA LastFilesNoted ==
  ASSUME NEW e, Known(e), NEW h, h = e.heap, NEW w, WriterOK(h, w),
         NEW s, s = e.tables.patches,
         \A i \in 1..Len(s) : \A f \in Cells(h.patches[s[i]].files.cells) : Has(w, "files", f),
         NEW v, v = LastFiles(e, w)
  PROVE  OneTurn(h, w, v)
<1>1. PICK files : files = h.patches[LastOf(s)].files.cells
  OBVIOUS
<1>2. \/ v = w
      \/ v = Panicked(w)
      \/ s # <<>> /\ files # <<>> /\ v = [w EXCEPT !.lastFiles = IndexIn(w, "files", files[1])]
  BY <1>1 DEF LastFiles
<1>3. CASE v = w
  BY <1>3 DEF OneTurn, Extended
<1>4. CASE v = Panicked(w)
  <2>1. ~v.ok
    BY <1>4, Panics
  <2> QED BY <2>1 DEF OneTurn
<1>5. CASE s # <<>> /\ files # <<>> /\ v = [w EXCEPT !.lastFiles = IndexIn(w, "files", files[1])]
  <2>1. s \in Seq(DOMAIN h.patches)
    BY Kinds10 DEF Known, EngineOK
  <2>2. Len(s) \in 1..Len(s) /\ LastOf(s) = s[Len(s)] /\ LastOf(s) \in DOMAIN h.patches
    <3>1. Len(s) \in 1..Len(s)
      BY <1>5, <2>1, CellsOfSeq
    <3> QED BY <2>1, <3>1, ElementOfSeq DEF LastOf
  <2>3. files \in Seq(DOMAIN h.files)
    BY <1>1, <2>2, SetsAreSequences
  <2>4. files[1] \in Cells(files)
    <3>1. Len(files) \in Nat /\ Len(files) \in 1..Len(files)
      BY <1>5, <2>3, CellsOfSeq, LenProperties
    <3>2. 1 \in 1..Len(files)
      BY <3>1
    <3> QED BY <3>2 DEF Cells
  <2>5. PICK n : n = IndexIn(w, "files", files[1])
    OBVIOUS
  <2>6. n \in Nat
    <3>1. Has(w, "files", files[1])
      BY ZenonT(60), <1>1, <2>2, <2>4
    <3> QED BY SMTT(60), <2>5, <3>1, IndexIsNat, Kinds10
  <2>7. v = [w EXCEPT !.lastFiles = n]
    BY <1>5, <2>5
  <2>8. WriterOK(h, v) /\ v.makers = w.makers
    BY <2>6, <2>7, NumbersNoted
  <2>9. InOrder(h, w) => InOrder(h, v)
    BY <2>8 DEF InOrder, InfoSpans, GroupSpans, PackageSpans, PatchSpans, TableOf
  <2>10. \A t \in TableNames : Extended(w.makers[t], v.makers[t])
    BY <2>8 DEF Extended
  <2> QED BY <2>8, <2>9, <2>10 DEF OneTurn
<1> QED
  BY <1>2, <1>3, <1>4, <1>5

\* One turn of from_engine, whatever it goes through.
LEMMA TurnIsTaken ==
  ASSUME TypeInvariant, pc = "push", NEW v, v = Turn, v.ok
  PROVE  /\ OneTurn(engine.heap, writer, v)
         /\ \A j \in 1..Len(engine.tables.patches) :
              j + Len(engine.tables.packages) + Len(engine.tables.groups) = k =>
                \A f \in Cells(engine.heap.patches[engine.tables.patches[j]].files.cells) :
                  Has(v, "files", f)
<1> DEFINE s == engine.tables
           h == engine.heap
<1>1. PICK packages, groups, patches :
        packages = Len(s.packages) /\ groups = Len(s.groups) /\ patches = Len(s.patches)
  OBVIOUS
<1> DEFINE FilesHad(j) == \A f \in Cells(h.patches[s.patches[j]].files.cells) : Has(v, "files", f)
<1> SUFFICES OneTurn(h, writer, v) /\ \A j \in 1..patches : j + packages + groups = k => FilesHad(j)
  BY <1>1, Zenon
<1>2. /\ s.packages \in Seq(DOMAIN h.packages) /\ s.groups \in Seq(DOMAIN h.groups)
      /\ s.patches \in Seq(DOMAIN h.patches)
  BY Kinds10 DEF TypeInvariant, EngineOK
<1>3. packages \in Nat /\ groups \in Nat /\ patches \in Nat /\ k \in Nat /\ k >= 1
  <2>1. Len(s.packages) \in Nat /\ Len(s.groups) \in Nat /\ Len(s.patches) \in Nat
    BY <1>2, LenProperties
  <2> QED BY <1>1, <2>1 DEF TypeInvariant
<1>4. Known(engine) /\ WriterOK(h, writer)
  BY DEF TypeInvariant, Stage, Known
<1>5. v = IF k <= packages THEN PushPackage(engine, writer, s.packages[k])
          ELSE IF k <= packages + groups
            THEN PushInfoGroup(engine, writer, s.groups[k - packages])
          ELSE IF k <= packages + groups + patches
            THEN PushPatch(engine, writer, s.patches[k - packages - groups])
          ELSE LastFiles(engine, writer)
  BY <1>1 DEF Turn
<1>6. CASE k <= packages
  <2>1. k \in 1..Len(s.packages)
    BY <1>1, <1>3, <1>6
  <2>2. s.packages[k] \in DOMAIN h.packages
    BY <1>2, <2>1, ElementOfSeq
  <2>3. v = PushPackage(engine, writer, s.packages[k])
    BY <1>5, <1>6
  <2>4. /\ After(h, writer, v, TableNames \ {"patches", "files"})
        /\ v.ok /\ InOrder(h, writer) => InOrder(h, v)
    BY <1>4, <2>2, <2>3, PackagePushed
  <2>5. OneTurn(h, writer, v)
    BY <2>4 DEF OneTurn, After
  <2>6. \A j \in 1..patches : j + packages + groups # k
    BY <1>3, <1>6
  <2> QED BY <2>5, <2>6
<1>7. CASE k > packages /\ k <= packages + groups
  <2>1. PICK n : n = k - packages
    OBVIOUS
  <2>2. n \in 1..groups
    BY <1>3, <1>7, <2>1
  <2>3. s.groups[n] \in DOMAIN h.groups
    BY <1>1, <1>2, <2>2, ElementOfSeq
  <2>4. v = PushInfoGroup(engine, writer, s.groups[n])
    BY <1>3, <1>5, <1>7, <2>1
  <2>5. OneTurn(h, writer, v)
    BY <1>4, <2>3, <2>4, InfoGroupPushed
  <2>6. \A j \in 1..patches : j + packages + groups # k
    BY <1>3, <1>7
  <2> QED BY <2>5, <2>6
<1>8. CASE k > packages + groups /\ k <= packages + groups + patches
  <2>1. PICK n : n = k - packages - groups
    OBVIOUS
  <2>2. n \in 1..patches /\ n + packages + groups = k
    BY <1>3, <1>8, <2>1
  <2>3. s.patches[n] \in DOMAIN h.patches
    BY <1>1, <1>2, <2>2, ElementOfSeq
  <2>4. v = PushPatch(engine, writer, s.patches[n])
    BY <1>3, <1>5, <1>8, <2>1
  <2>5. /\ OneTurn(h, writer, v)
        /\ \A f \in Cells(h.patches[s.patches[n]].files.cells) : Has(v, "files", f)
    BY <1>4, <2>3, <2>4, PatchPushed
  <2>6. \A j \in 1..patches : j + packages + groups = k => j = n
    BY <1>3, <2>2
  <2> QED BY <2>5, <2>6
<1>9. CASE k > packages + groups + patches
  <2>1. v = LastFiles(engine, writer)
    BY <1>3, <1>5, <1>9
  <2>2. \A j \in 1..patches : j + packages + groups < k
    BY <1>3, <1>9
  <2>3. \A j \in 1..Len(s.patches) : \A f \in Cells(h.patches[s.patches[j]].files.cells) :
          Has(writer, "files", f)
    BY <1>1, <2>2 DEF TypeInvariant, PatchesDone
  <2>4. OneTurn(h, writer, v)
    BY <1>4, <2>1, <2>3, LastFilesNoted
  <2>5. \A j \in 1..patches : j + packages + groups # k
    BY <1>3, <2>2
  <2> QED BY <2>4, <2>5
<1> HIDE DEF FilesHad
<1> QED
  BY <1>3, <1>6, <1>7, <1>8, <1>9

-----------------------------------------------------------------------------
(* What is written can be parsed again. *)

\* A table that is written is a sequence.
LEMMA TableIsSequence ==
  ASSUME NEW n \in Nat, NEW f, IsFunction(f), DOMAIN f = 1..n
  PROVE  f \in Seq(Cells(f)) /\ Len(f) = n /\ Cells(f) = {f[i] : i \in 1..n}
<1>1. f \in [1..n -> {f[i] : i \in 1..n}]
  BY DEF IsFunction
<1>2. f \in Seq({f[i] : i \in 1..n})
  BY <1>1, SeqDef
<1>3. Len(f) = n
  BY <1>1, <1>2, LenProperties
<1> QED
  BY <1>2, <1>3 DEF Cells

\* The cells that a record refers to are there if the writer is complete.
HasNeeds(w, t, x) == \A need \in Needs(t, x) : Has(w, need[1], need[2])

LEMMA FirstIndexIsNat ==
  ASSUME NEW h, NEW w, WriterOK(h, w), NEW t \in TableNames, NEW s,
         \A need \in FirstOf(t, s) : Has(w, need[1], need[2])
  PROVE  FirstIndex(w, t, s) \in Nat
<1>1. CASE s = <<>>
  BY <1>1 DEF FirstIndex
<1>2. CASE s # <<>>
  <2>1. Has(w, t, s[1])
    BY <1>2 DEF FirstOf
  <2> QED BY <1>2, <2>1, IndexIsNat DEF FirstIndex
<1> QED
  BY <1>1, <1>2

LEMMA CellIndexIsNat ==
  ASSUME NEW h, NEW w, WriterOK(h, w), NEW t \in TableNames, NEW ref, IsCell(ref),
         \A need \in CellOf(t, ref) : Has(w, need[1], need[2])
  PROVE  IndexIn(w, t, ref.cell) \in Nat
<1>1. Has(w, t, ref.cell)
  BY DEF CellOf, IsCell
<1> QED
  BY <1>1, IndexIsNat

LEMMA OwnerIndexIsNat ==
  ASSUME NEW h, NEW w, WriterOK(h, w), NEW ref \in OwnersIn(h),
         \A need \in OwnerOf(ref) : Has(w, need[1], need[2])
  PROVE  OwnerIndex(w, ref) \in Nat
<1>1. Has(w, IF ref.is = "package" THEN "packages" ELSE "groups", ref.cell)
  BY DEF OwnerOf, OwnersIn, CellOf
<1> QED
  BY <1>1, IndexIsNat, Kinds10 DEF OwnerIndex

LEMMA PackageWritten ==
  ASSUME NEW h, NEW w, WriterOK(h, w), NEW x, PackageOK(h, x), IsSet(x.groups),
         IsSet(x.infos), IsSet(x.children), HasNeeds(w, "packages", x),
         NEW y, y = WritePackage(w, x)
  PROVE  y.kind \in Kinds /\ {y.group, y.info, y.infos, y.child, y.children} \subseteq Nat
<1>1. \A need \in FirstOf("groups", x.groups.cells) \cup FirstOf("infos", x.infos.cells)
        \cup FirstOf("children", x.children.cells) : Has(w, need[1], need[2])
  BY DEF HasNeeds, Needs
<1>2. /\ FirstIndex(w, "groups", x.groups.cells) \in Nat
      /\ FirstIndex(w, "infos", x.infos.cells) \in Nat
      /\ FirstIndex(w, "children", x.children.cells) \in Nat
  BY <1>1, FirstIndexIsNat, Kinds10
<1>3. /\ x.infos.cells \in Seq(DOMAIN h.infos)
      /\ x.children.cells \in Seq(DOMAIN h.children)
  BY DEF PackageOK, SpanSetOf, IsSet
<1>4. Len(x.infos.cells) \in Nat /\ Len(x.children.cells) \in Nat
  BY <1>3, LenProperties
<1> QED
  BY <1>2, <1>4 DEF WritePackage, PackageOK

LEMMA GroupWritten ==
  ASSUME NEW h, NEW w, WriterOK(h, w), NEW x, GroupOK(h, x), x.files.is # "range",
         ~IsUnresolved(x.sub), HasNeeds(w, "groups", x),
         NEW y, y = WriteGroup(w, x)
  PROVE  {y.start, y.count, y.sub} \subseteq Nat
<1>1. \A need \in FirstOf(x.files.is, x.files.cells) \cup OwnerOf(x.sub) :
        Has(w, need[1], need[2])
  BY DEF HasNeeds, Needs
<1>2. /\ x.files.is \in {"infos", "metadatas"}
      /\ x.files.cells \in Seq(DOMAIN h.infos) \/ x.files.cells \in Seq(DOMAIN h.metadatas)
  BY DEF GroupOK, FileSets
<1>3. FirstIndex(w, x.files.is, x.files.cells) \in Nat
  <2>1. x.files.is \in TableNames
    BY <1>2, Kinds10
  <2> QED BY <1>1, <2>1, FirstIndexIsNat
<1>4. Len(x.files.cells) \in Nat
  BY <1>2, LenProperties
<1>5. ~IsNone(x.sub) => OwnerIndex(w, x.sub) \in Nat
  <2>1. ~IsNone(x.sub) => x.sub \in OwnersIn(h)
    BY DEF GroupOK, IsUnresolved, IsNone, None
  <2> QED BY <1>1, <2>1, OwnerIndexIsNat
<1>6. y.start = FirstIndex(w, x.files.is, x.files.cells) /\ y.count = Len(x.files.cells)
      /\ y.sub \in {OwnerIndex(w, x.sub), 0, INVALID_INDEX}
      /\ (IsNone(x.sub) => y.sub \in {0, INVALID_INDEX})
  BY DEF WriteGroup
<1> QED
  BY <1>3, <1>4, <1>5, <1>6 DEF INVALID_INDEX

LEMMA PathWritten ==
  ASSUME NEW h, NEW w, WriterOK(h, w), NEW x, IsCell(x.link), HasNeeds(w, "paths", x),
         IsCell(x.file) => IndexIn(w, "files", x.file.cell) >= w.lastFiles,
         NEW y, y = WritePath(w, x)
  PROVE  {y.link, y.file} \subseteq Nat
<1>1. \A need \in CellOf("links", x.link) \cup CellOf("files", x.file) :
        Has(w, need[1], need[2])
  BY DEF HasNeeds, Needs
<1>2. IndexIn(w, "links", x.link.cell) \in Nat
  BY <1>1, CellIndexIsNat, Kinds10
<1>3. IsCell(x.file) => IndexIn(w, "files", x.file.cell) \in Nat
  BY <1>1, CellIndexIsNat, Kinds10
<1>4. PICK n, m : n = IndexIn(w, "files", x.file.cell) /\ m = w.lastFiles
  OBVIOUS
<1>5. IsCell(x.file) => n - m \in Nat
  BY <1>3, <1>4 DEF WriterOK
<1>6. y.link = IndexIn(w, "links", x.link.cell)
      /\ y.file = IF IsCell(x.file) THEN n - m ELSE INVALID_INDEX
  BY <1>4 DEF WritePath
<1> QED
  BY <1>2, <1>5, <1>6 DEF INVALID_INDEX

LEMMA DescriptorWritten ==
  ASSUME NEW e, NEW h, h = e.heap, NEW w, WriterOK(h, w), NEW d, NEW x, x = h.descriptors[d],
         DescriptorOK(h, x), DescriptorKnown(x), HasNeeds(w, "descriptors", x), NEW kind,
         x.load = "skip" => SkipIndex(e, w, kind, d, x) \in Nat,
         NEW y, y = WriteDescriptor(e, w, kind, d)
  PROVE  {y.group, y.metadata, y.args} \subseteq Nat
<1>1. \A need \in CellOf("groups", x.group) \cup CellOf("metadatas", x.metadata)
        \cup CellOf(ArgsTable(x), x.args) : Has(w, need[1], need[2])
  BY DEF HasNeeds, Needs
<1>2. IndexIn(w, "groups", x.group.cell) \in Nat
  BY <1>1, CellIndexIsNat, Kinds10 DEF DescriptorKnown
<1>3. IsCell(x.metadata) => IndexIn(w, "metadatas", x.metadata.cell) \in Nat
  BY <1>1, CellIndexIsNat, Kinds10
<1>4. ~IsNone(x.args) => IndexIn(w, ArgsTable(x), x.args.cell) \in Nat
  <2>1. ArgsTable(x) \in TableNames
    BY Kinds10 DEF ArgsTable
  <2>2. ~IsNone(x.args) => IsCell(x.args)
    BY DEF DescriptorOK, DescriptorKnown, ReferenceTo, IsUnresolved, IsNone, IsCell, None
  <2> QED BY <1>1, <2>1, <2>2, CellIndexIsNat
<1>5. /\ y.group = IndexIn(w, "groups", x.group.cell)
      /\ y.metadata = IF IsCell(x.metadata) THEN IndexIn(w, "metadatas", x.metadata.cell)
                      ELSE INVALID_INDEX
      /\ y.args = IF IsNone(x.args) THEN 0
                  ELSE IF x.load = "skip" THEN SkipIndex(e, w, kind, d, x)
                  ELSE IndexIn(w, ArgsTable(x), x.args.cell)
  BY DEF WriteDescriptor
<1> QED
  BY <1>2, <1>3, <1>4, <1>5 DEF INVALID_INDEX

LEMMA LinkWritten ==
  ASSUME NEW h, NEW w, WriterOK(h, w), NEW x, LinkOK(h, x), ~IsUnresolved(x.owner),
         IsCell(x.info), HasNeeds(w, "links", x), NEW y, y = WriteLink(w, x)
  PROVE  {y.owner, y.info} \subseteq Nat
<1>1. \A need \in OwnerOf(x.owner) \cup CellOf("infos", x.info) : Has(w, need[1], need[2])
  BY DEF HasNeeds, Needs
<1>2. OwnerIndex(w, x.owner) \in Nat
  <2>1. x.owner \in OwnersIn(h)
    BY DEF LinkOK, IsUnresolved
  <2> QED BY <1>1, <2>1, OwnerIndexIsNat
<1>3. IndexIn(w, "infos", x.info.cell) \in Nat
  BY <1>1, CellIndexIsNat, Kinds10
<1> QED
  BY <1>2, <1>3 DEF WriteLink

LEMMA InfoWritten ==
  ASSUME NEW h, NEW w, WriterOK(h, w), NEW x, InfoOK(h, x), IsCell(x.path), IsCell(x.link),
         HasNeeds(w, "infos", x), NEW y, y = WriteInfo(w, x)
  PROVE  y.kind \in Kinds /\ {y.path, y.link, y.descriptor} \subseteq Nat
<1>1. \A need \in CellOf("paths", x.path) \cup CellOf("links", x.link)
        \cup FirstOf("descriptors", x.descriptors.cells) : Has(w, need[1], need[2])
  BY DEF HasNeeds, Needs
<1>2. /\ IndexIn(w, "paths", x.path.cell) \in Nat
      /\ IndexIn(w, "links", x.link.cell) \in Nat
  BY <1>1, CellIndexIsNat, Kinds10
<1>3. FirstIndex(w, "descriptors", x.descriptors.cells) \in Nat
  BY <1>1, FirstIndexIsNat, Kinds10
<1> QED
  BY <1>2, <1>3 DEF WriteInfo, InfoOK

LEMMA PatchWritten ==
  ASSUME NEW e, NEW h, NEW w, WriterOK(h, w), NEW x, IsCell(x.group),
         x.files.cells \in Seq(DOMAIN h.files), HasNeeds(w, "patches", x),
         NEW i \in Nat, IndexIn(w, "groups", x.group.cell) >= i,
         NEW y, y = WritePatch(e, w, i, x)
  PROVE  {y.group, y.file, y.files} \subseteq Nat
<1>1. \A need \in CellOf("groups", x.group) \cup FirstOf("files", x.files.cells) :
        Has(w, need[1], need[2])
  BY DEF HasNeeds, Needs
<1>2. IndexIn(w, "groups", x.group.cell) \in Nat
  BY <1>1, CellIndexIsNat, Kinds10
<1>3. FirstIndex(w, "files", x.files.cells) \in Nat
  BY <1>1, FirstIndexIsNat, Kinds10
<1>4. Len(x.files.cells) \in Nat
  BY LenProperties
<1>5. PICK n : n = IndexIn(w, "groups", x.group.cell)
  OBVIOUS
<1>6. n - i \in Nat
  BY <1>2, <1>5
<1>7. y.group = n - i /\ y.file = FirstIndex(w, "files", x.files.cells)
      /\ y.files = Len(x.files.cells)
  BY <1>5 DEF WritePatch
<1> QED
  BY <1>3, <1>4, <1>6, <1>7

LEMMA VersionedFileWritten ==
  ASSUME NEW h, NEW w, WriterOK(h, w), NEW x, IsCell(x.link), IsCell(x.info),
         HasNeeds(w, "files", x), NEW y, y = WriteFile(w, x)
  PROVE  {y.info, y.link, y.changed} \subseteq Nat
<1>1. \A need \in CellOf("infos", x.info) \cup CellOf("links", x.link) :
        Has(w, need[1], need[2])
  BY DEF HasNeeds, Needs
<1>2. /\ IndexIn(w, "infos", x.info.cell) \in Nat
      /\ IndexIn(w, "links", x.link.cell) \in Nat
  BY <1>1, CellIndexIsNat, Kinds10
<1>3. HashKeyIndex(IF x.changed THEN 0 ELSE 16777216) \in Nat
  <2>1. (IF x.changed THEN 0 ELSE 16777216) \in Nat
    OBVIOUS
  <2> QED BY <2>1, KeyIndexIsNat
<1> QED
  BY <1>2, <1>3 DEF WriteFile

LEMMA ChildWritten ==
  ASSUME NEW h, NEW w, WriterOK(h, w), NEW x, IsCell(x.package),
         HasNeeds(w, "children", x), NEW y, y = WriteChild(w, x)
  PROVE  y.package \in Nat
<1>1. \A need \in CellOf("packages", x.package) : Has(w, need[1], need[2])
  BY DEF HasNeeds, Needs
<1>2. IndexIn(w, "packages", x.package.cell) \in Nat
  BY <1>1, CellIndexIsNat, Kinds10
<1> QED
  BY <1>2 DEF WriteChild

\* What the reader asks of an entry of a table.
EntryOK(t, y) ==
  CASE t = "packages" ->
         y.kind \in Kinds /\ {y.group, y.info, y.infos, y.child, y.children} \subseteq Nat
    [] t = "children" -> y.package \in Nat
    [] t = "groups" -> {y.start, y.count, y.sub} \subseteq Nat
    [] t = "paths" -> {y.link, y.file} \subseteq Nat
    [] t = "links" -> {y.owner, y.info} \subseteq Nat
    [] t = "infos" -> y.kind \in Kinds /\ {y.path, y.link, y.descriptor} \subseteq Nat
    [] t = "descriptors" -> {y.group, y.metadata, y.args} \subseteq Nat
    [] t = "metadatas" -> TRUE
    [] t = "patches" -> {y.group, y.file, y.files} \subseteq Nat
    [] t = "files" -> {y.info, y.link, y.changed} \subseteq Nat

LEMMA EntryWritten ==
  ASSUME NEW e, Known(e), NEW w, WriterOK(e.heap, w), NEW kind, Serialisable(e, w, kind),
         NEW t \in TableNames, NEW i \in 1..Len(TableOf(w, t)),
         NEW y, y = WriteEntry(e, w, kind, t, i)
  PROVE  EntryOK(t, y)
<1> DEFINE h == e.heap
<1>1. PICK c, x : c = TableOf(w, t)[i] /\ x = h[t][c]
  OBVIOUS
<1>2. TableOf(w, t) \in Seq(DOMAIN h[t])
  BY DEF WriterOK, IsMaker, TableOf
<1>3. c \in DOMAIN h[t] /\ c \in Cells(TableOf(w, t))
  BY <1>1, <1>2, ElementOfSeq DEF Cells
<1>4. HasNeeds(w, t, x)
  BY <1>1, <1>3 DEF Serialisable, Complete, HasNeeds
<1>5. RecordOK(h, t, x)
  BY <1>1, <1>3 DEF Known, EngineOK, HeapOK
<1> HIDE DEF h
<1>6. OwnersKnown(h) /\ UsersKnown(h) /\ WriterOK(h, w)
  BY DEF Known, h
<1>7. CASE t = "packages"
  <2>1. PackageOK(h, x) /\ IsSet(x.groups) /\ IsSet(x.infos) /\ IsSet(x.children)
    BY <1>1, <1>3, <1>5, <1>6, <1>7 DEF RecordOK, OwnersKnown
  <2>2. y = WritePackage(w, x)
    BY <1>1, <1>7 DEF WriteEntry, h
  <2> QED BY <1>4, <1>6, <1>7, <2>1, <2>2, PackageWritten DEF EntryOK
<1>8. CASE t = "children"
  <2>1. IsCell(x.package)
    BY <1>1, <1>3, <1>6, <1>8 DEF OwnersKnown
  <2>2. y = WriteChild(w, x)
    BY <1>1, <1>8 DEF WriteEntry, h
  <2> QED BY <1>4, <1>6, <1>8, <2>1, <2>2, ChildWritten DEF EntryOK
<1>9. CASE t = "groups"
  <2>1. GroupOK(h, x) /\ x.files.is # "range" /\ ~IsUnresolved(x.sub)
    BY <1>1, <1>3, <1>5, <1>6, <1>9 DEF RecordOK, OwnersKnown
  <2>2. y = WriteGroup(w, x)
    BY <1>1, <1>9 DEF WriteEntry, h
  <2> QED BY <1>4, <1>6, <1>9, <2>1, <2>2, GroupWritten DEF EntryOK
<1>10. CASE t = "paths"
  <2>1. IsCell(x.link)
    BY <1>1, <1>3, <1>6, <1>10 DEF UsersKnown
  <2>2. IsCell(x.file) => IndexIn(w, "files", x.file.cell) >= w.lastFiles
    BY <1>1, <1>3, <1>10 DEF Serialisable, AboveOffsets, h
  <2>3. y = WritePath(w, x)
    BY <1>1, <1>10 DEF WriteEntry, h
  <2> QED BY <1>4, <1>6, <1>10, <2>1, <2>2, <2>3, PathWritten DEF EntryOK
<1>11. CASE t = "links"
  <2>1. LinkOK(h, x) /\ ~IsUnresolved(x.owner) /\ IsCell(x.info)
    BY <1>1, <1>3, <1>5, <1>6, <1>11 DEF RecordOK, UsersKnown
  <2>2. y = WriteLink(w, x)
    BY <1>1, <1>11 DEF WriteEntry, h
  <2> QED BY <1>4, <1>6, <1>11, <2>1, <2>2, LinkWritten DEF EntryOK
<1>12. CASE t = "infos"
  <2>1. InfoOK(h, x) /\ IsCell(x.path) /\ IsCell(x.link)
    BY <1>1, <1>3, <1>5, <1>6, <1>12 DEF RecordOK, UsersKnown, InfoKnown
  <2>2. y = WriteInfo(w, x)
    BY <1>1, <1>12 DEF WriteEntry, h
  <2> QED BY <1>4, <1>6, <1>12, <2>1, <2>2, InfoWritten DEF EntryOK
<1>13. CASE t = "metadatas"
  BY <1>13 DEF EntryOK
<1>14. CASE t = "patches"
  <2>1. PatchOK(h, x) /\ IsCell(x.group) /\ IsSet(x.files)
    BY <1>1, <1>3, <1>5, <1>6, <1>14 DEF RecordOK, UsersKnown
  <2>2. x.files.cells \in Seq(DOMAIN h.files)
    BY <2>1 DEF PatchOK, SpanSetOf, IsSet
  <2>3. PICK j : j = i - 1
    OBVIOUS
  <2>4. j \in Nat
    BY <2>3
  <2>5. IndexIn(w, "groups", x.group.cell) >= j
    BY <1>1, <1>14, <2>3 DEF Serialisable, AboveOffsets, h
  <2>6. y = WritePatch(e, w, j, x)
    BY <1>1, <1>14, <2>3 DEF WriteEntry, h
  <2> QED BY <1>4, <1>6, <1>14, <2>1, <2>2, <2>4, <2>5, <2>6, PatchWritten DEF EntryOK
<1>15. CASE t = "files"
  <2>1. IsCell(x.link) /\ IsCell(x.info)
    BY <1>1, <1>3, <1>6, <1>15 DEF UsersKnown
  <2>2. y = WriteFile(w, x)
    BY <1>1, <1>15 DEF WriteEntry, h
  <2> QED BY <1>4, <1>6, <1>15, <2>1, <2>2, VersionedFileWritten DEF EntryOK
<1>16. CASE t = "descriptors"
  <2>1. x = h.descriptors[c] /\ DescriptorOK(h, x) /\ DescriptorKnown(x)
    BY <1>1, <1>3, <1>5, <1>6, <1>16 DEF RecordOK, WriterOK
  <2>2. x.load = "skip" => SkipIndex(e, w, kind, c, x) \in Nat
    BY <1>1, <1>3, <1>16 DEF Serialisable, AboveOffsets, h
  <2>3. y = WriteDescriptor(e, w, kind, c)
    BY <1>1, <1>16 DEF WriteEntry, h
  <2> QED BY <1>4, <1>6, <1>16, <2>1, <2>2, <2>3, DescriptorWritten DEF EntryOK, h
<1> QED
  BY <1>7, <1>8, <1>9, <1>10, <1>11, <1>12, <1>13, <1>14, <1>15, <1>16 DEF TableNames

\* What to_memory and to_directory write can be parsed.
LEMMA ImageIsWritten ==
  ASSUME NEW e, Known(e), NEW w, WriterOK(e.heap, w), NEW kind \in {"memory", "directory"},
         Serialisable(e, w, kind), NEW image, image = WrittenImage(e, w, kind)
  PROVE  IsImage(image)
<1>1. /\ image.kind = kind
      /\ image.packages = WriteTable(e, w, kind, "packages")
      /\ image.children = WriteTable(e, w, kind, "children")
      /\ image.groups = WriteTable(e, w, kind, "groups")
      /\ image.paths = WriteTable(e, w, kind, "paths")
      /\ image.links = WriteTable(e, w, kind, "links")
      /\ image.infos = WriteTable(e, w, kind, "infos")
      /\ image.descriptors = WriteTable(e, w, kind, "descriptors")
      /\ image.metadatas = WriteTable(e, w, kind, "metadatas")
      /\ image.patches = WriteTable(e, w, kind, "patches")
      /\ image.files = WriteTable(e, w, kind, "files")
  BY DEF WrittenImage
<1>2. \A t \in TableNames : image[t] = WriteTable(e, w, kind, t)
  BY <1>1 DEF TableNames
<1>3. ASSUME NEW t \in TableNames
      PROVE  /\ image[t] \in Seq(Cells(image[t]))
             /\ \A y \in Cells(image[t]) : EntryOK(t, y)
  <2>1. PICK table, n : table = WriteTable(e, w, kind, t) /\ n = Len(TableOf(w, t))
    OBVIOUS
  <2>2. n \in Nat
    <3>1. TableOf(w, t) \in Seq(DOMAIN e.heap[t])
      BY DEF WriterOK, IsMaker, TableOf
    <3> QED BY <2>1, <3>1, LenProperties
  <2>3. table = [i \in 1..n |-> WriteEntry(e, w, kind, t, i)]
    BY <2>1 DEF WriteTable
  <2>4. IsFunction(table) /\ DOMAIN table = 1..n
        /\ \A i \in 1..n : table[i] = WriteEntry(e, w, kind, t, i)
    BY <2>3 DEF IsFunction
  <2>5. table \in Seq(Cells(table)) /\ Cells(table) = {table[i] : i \in 1..n}
    BY <2>2, <2>4, TableIsSequence
  <2>6. \A i \in 1..n : EntryOK(t, table[i])
    BY <2>1, <2>4, EntryWritten
  <2>7. image[t] = table
    BY <1>2, <2>1
  <2> QED BY <2>5, <2>6, <2>7
<1>4. /\ \A y \in Cells(image.packages) : EntryOK("packages", y)
      /\ \A y \in Cells(image.children) : EntryOK("children", y)
      /\ \A y \in Cells(image.groups) : EntryOK("groups", y)
      /\ \A y \in Cells(image.paths) : EntryOK("paths", y)
      /\ \A y \in Cells(image.links) : EntryOK("links", y)
      /\ \A y \in Cells(image.infos) : EntryOK("infos", y)
      /\ \A y \in Cells(image.descriptors) : EntryOK("descriptors", y)
      /\ \A y \in Cells(image.patches) : EntryOK("patches", y)
      /\ \A y \in Cells(image.files) : EntryOK("files", y)
  BY <1>3, Kinds10
<1>5. \A t \in TableNames : image[t] \in Seq(Cells(image[t]))
  BY <1>3
<1>6. image.kind \in {"memory", "directory"}
  BY <1>1
<1> HIDE <1>1, <1>2, <1>3
<1> QED
  BY <1>4, <1>5, <1>6 DEF IsImage, EntryOK

-----------------------------------------------------------------------------
(* Steps. *)

\* An archive that is not read: no cells, and nothing in the writer.
LEMMA NothingRead ==
  /\ EngineOK(NoEngine) /\ Known(NoEngine)
  /\ \A t \in TableNames : DOMAIN NoEngine.heap[t] = {}
<1>1. PICK empty : empty = EmptyMap
  OBVIOUS
<1>2. IsFunction(empty) /\ DOMAIN empty = {}
  BY <1>1 DEF EmptyMap, IsFunction
<1>3. PICK h, s : h = [t \in TableNames |-> empty] /\ s = [t \in TableNames |-> <<>>]
  OBVIOUS
<1>4. NoEngine = [heap |-> h, tables |-> s, packageLookup |-> empty, fileLookup |-> empty]
  BY <1>1, <1>3 DEF NoEngine
<1>5. /\ h = [t \in TableNames |-> h[t]] /\ s = [t \in TableNames |-> s[t]]
      /\ \A t \in TableNames : h[t] = empty /\ s[t] = <<>>
  BY <1>3
<1>6. HeapOK(h)
  BY <1>2, <1>5 DEF HeapOK
<1>7. \A t \in TableNames : s[t] \in Seq(DOMAIN h[t])
  BY <1>5, EmptySeq
<1>8. EngineOK(NoEngine)
  <2>1. /\ NoEngine.heap = h /\ NoEngine.tables = s /\ NoEngine.packageLookup = empty
        /\ NoEngine.fileLookup = empty
    BY <1>4
  <2> QED BY <1>2, <1>4, <1>5, <1>6, <1>7, <2>1 DEF EngineOK
<1>9. OwnersKnown(h) /\ UsersKnown(h)
  BY <1>2, <1>5, Kinds10 DEF OwnersKnown, UsersKnown
<1>10. NoEngine.heap = h
  BY <1>4
<1> QED
  BY <1>2, <1>5, <1>8, <1>9, <1>10 DEF Known

LEMMA NothingPushed ==
  ASSUME NEW h
  PROVE  WriterOK(h, NoWriter) /\ InOrder(h, NoWriter)
<1>1. PICK maker : maker = NewMaker
  OBVIOUS
<1>2. maker.table = <<>> /\ Cells(maker.table) = {}
  BY <1>1, EmptySeq DEF NewMaker, Cells
<1>3. PICK makers : makers = [t \in TableNames |-> maker]
  OBVIOUS
<1>4. NoWriter = [makers |-> makers, infoStart |-> 0, lastFiles |-> 0, ok |-> TRUE]
  BY <1>1, <1>3 DEF NoWriter
<1>5. /\ NoWriter.makers = makers /\ NoWriter.infoStart = 0 /\ NoWriter.lastFiles = 0
      /\ NoWriter = [makers |-> NoWriter.makers, infoStart |-> NoWriter.infoStart,
                     lastFiles |-> NoWriter.lastFiles, ok |-> NoWriter.ok]
  BY <1>4
<1>6. makers = [t \in TableNames |-> makers[t]] /\ \A t \in TableNames : makers[t] = maker
  BY <1>3
<1>7. \A t \in TableNames : IsMaker(maker, DOMAIN h[t]) /\ MakerOK(maker)
  BY <1>1, NewMakerOK
<1>8. \A t \in TableNames : Cells(TableOf(NoWriter, t)) = {}
  BY <1>2, <1>5, <1>6 DEF TableOf
<1>9. WriterOK(h, NoWriter)
  BY <1>5, <1>6, <1>7, <1>8, Kinds10 DEF WriterOK
<1>10. InOrder(h, NoWriter)
  BY <1>8, Kinds10 DEF InOrder, InfoSpans, GroupSpans, PackageSpans, PatchSpans
<1> QED
  BY <1>9, <1>10

-----------------------------------------------------------------------------
(* The invariants hold at first, and every step keeps them. *)

LEMMA InitOK ==
  ASSUME Init
  PROVE  TypeInvariant /\ SpansInvariant
<1>1. /\ engine = NoEngine /\ guid = 0 /\ writer = NoWriter /\ k = 0
      /\ target = "engine" /\ disk \in Images /\ edits = 0 /\ pc = "closed"
  BY DEF Init
<1>2. IsImage(disk) /\ 0 \in 0..MaxGuid /\ 0 \in 0..MaxEdits
  BY <1>1, ImagesOK, CountsOK
<1>3. EngineOK(engine) /\ \A t \in TableNames : DOMAIN engine.heap[t] \subseteq 0..(guid - 1)
  BY <1>1, NothingRead
<1>4. WriterOK(engine.heap, writer)
  BY <1>1, NothingPushed
<1> QED
  BY <1>1, <1>2, <1>3, <1>4 DEF TypeInvariant, SpansInvariant, Stage

\* A step that changes the engine, of which there is no writer then.
LEMMA EngineChanges ==
  ASSUME TypeInvariant, pc \in {"closed", "read", "resolving", "idle"},
         UNCHANGED <<writer, k, target, disk>>,
         pc' \in {"read", "resolving", "idle"},
         guid' \in 0..MaxGuid, edits' \in 0..MaxEdits,
         EngineOK(engine'), Stage',
         \A t \in TableNames : DOMAIN engine'.heap[t] \subseteq 0..(guid' - 1)
  PROVE  TypeInvariant' /\ SpansInvariant'
<1>1. writer = NoWriter /\ k \in Nat /\ IsImage(disk)
      /\ target \in {"engine", "memory", "directory"}
  BY DEF TypeInvariant
<1>2. WriterOK(engine'.heap, writer')
  BY <1>1, NothingPushed
<1>3. IsImage(disk')
  BY <1>1
<1> QED
  BY <1>1, <1>2, <1>3 DEF TypeInvariant, SpansInvariant

LEMMA ReadOK ==
  ASSUME TypeInvariant, Read
  PROVE  TypeInvariant' /\ SpansInvariant'
<1>1. PICK gap \in Gaps, at \in 0..CellsOf(disk) :
        guid' = guid + CellsOf(disk) + gap /\ engine' = ReadEngine(disk, guid, at, gap)
  BY DEF Read
<1>2. /\ pc = "closed" /\ pc' = "read" /\ guid' <= MaxGuid
      /\ UNCHANGED <<writer, k, target, disk, edits>>
  BY DEF Read
<1>3. IsImage(disk) /\ guid \in Nat /\ edits \in 0..MaxEdits
  BY CountsOK DEF TypeInvariant
<1>4. CellsOf(disk) \in Nat
  <2>1. Len(ReadOrder(disk.kind)) = 10 /\ \A n \in 0..10 : CellsBefore(disk, n) \in Nat
    BY <1>3, CellsAreCounted
  <2> QED BY <2>1 DEF CellsOf
<1>5. gap \in Nat /\ at \in Nat
  BY <1>4, CountsOK
<1>6. PICK e : e = engine'
  OBVIOUS
<1>7. IsRead(e, disk, guid, at, gap)
  BY <1>1, <1>6 DEF IsRead
<1>8. /\ EngineOK(e) /\ Fresh(e)
      /\ \A t \in TableNames : DOMAIN e.heap[t] \subseteq ReadGuids(disk, guid, gap)
  BY <1>3, <1>5, <1>7, EngineRead
<1>9. ReadGuids(disk, guid, gap) \subseteq 0..(guid' - 1) /\ guid' \in 0..MaxGuid
  BY <1>1, <1>2, <1>3, <1>4, <1>5, CountsOK DEF ReadGuids
<1>10. Stage'
  BY <1>2, <1>6, <1>8 DEF Stage
<1> QED
  BY <1>2, <1>3, <1>6, <1>8, <1>9, <1>10, EngineChanges

LEMMA ResolveBeginsOK ==
  ASSUME TypeInvariant, ResolveBegins
  PROVE  TypeInvariant' /\ SpansInvariant'
<1>1. /\ pc \in {"read", "idle"} /\ OwnersFit(engine)
      /\ engine' = ResolveOwners(engine) /\ pc' = "resolving"
      /\ UNCHANGED <<guid, writer, k, target, disk, edits>>
  BY DEF ResolveBegins, MayResolve
<1>2. /\ EngineOK(engine) /\ guid \in 0..MaxGuid /\ edits \in 0..MaxEdits
      /\ \A t \in TableNames : DOMAIN engine.heap[t] \subseteq 0..(guid - 1)
  BY DEF TypeInvariant
<1>3. Fresh(engine) \/ (OwnersKnown(engine.heap) /\ UsersKnown(engine.heap))
  BY <1>1 DEF TypeInvariant, Stage
<1>4. PICK e, f : e = engine /\ f = engine'
  OBVIOUS
<1>5. /\ EngineOK(f) /\ f.tables = e.tables
      /\ \A u \in TableNames : DOMAIN f.heap[u] = DOMAIN e.heap[u]
      /\ \A u \in TableNames \ {"packages", "children", "groups"} : f.heap[u] = e.heap[u]
      /\ OwnersKnown(f.heap)
  BY <1>1, <1>2, <1>3, <1>4, OwnersResolved
<1>6. Fresh(e) => Fresh(f)
  BY <1>5 DEF Fresh
<1>7. UsersKnown(e.heap) => UsersKnown(f.heap)
  <2>1. /\ f.heap.paths = e.heap.paths /\ f.heap.links = e.heap.links
        /\ f.heap.infos = e.heap.infos /\ f.heap.descriptors = e.heap.descriptors
        /\ f.heap.patches = e.heap.patches /\ f.heap.files = e.heap.files
    BY <1>5, Kinds10
  <2> QED BY <2>1 DEF UsersKnown, InfoKnown
<1>8. Stage'
  BY <1>1, <1>3, <1>4, <1>5, <1>6, <1>7 DEF Stage
<1> QED
  BY <1>1, <1>2, <1>4, <1>5, <1>8, EngineChanges

LEMMA ResolveEndsOK ==
  ASSUME TypeInvariant, ResolveEnds
  PROVE  TypeInvariant' /\ SpansInvariant'
<1>1. /\ pc = "resolving" /\ CanResolveUsers(engine)
      /\ engine' = ResolveUsers(engine) /\ pc' = "idle"
      /\ UNCHANGED <<guid, writer, k, target, disk, edits>>
  BY DEF ResolveEnds
<1>2. /\ EngineOK(engine) /\ guid \in 0..MaxGuid /\ edits \in 0..MaxEdits
      /\ \A t \in TableNames : DOMAIN engine.heap[t] \subseteq 0..(guid - 1)
  BY DEF TypeInvariant
<1>3. (Fresh(engine) \/ UsersKnown(engine.heap)) /\ OwnersKnown(engine.heap)
  BY <1>1 DEF TypeInvariant, Stage
<1>4. PICK e, f : e = engine /\ f = engine'
  OBVIOUS
<1>5. \A t \in TableNames : DOMAIN e.heap[t] \subseteq Nat
  BY <1>2, <1>4, CountsOK
<1>6. /\ EngineOK(f) /\ f.tables = e.tables
      /\ \A u \in TableNames : DOMAIN f.heap[u] = DOMAIN e.heap[u]
      /\ \A u \in {"packages", "children", "groups"} : f.heap[u] = e.heap[u]
      /\ UsersKnown(f.heap)
  BY <1>1, <1>2, <1>3, <1>4, <1>5, UsersResolved
<1>7. OwnersKnown(f.heap)
  <2>1. f.heap.packages = e.heap.packages /\ f.heap.children = e.heap.children
        /\ f.heap.groups = e.heap.groups
    BY <1>6
  <2> QED BY <1>3, <1>4, <2>1 DEF OwnersKnown
<1>8. Stage'
  BY <1>1, <1>4, <1>6, <1>7 DEF Stage
<1> QED
  BY <1>1, <1>2, <1>4, <1>6, <1>8, EngineChanges

LEMMA AddFileOK ==
  ASSUME TypeInvariant, NEW f, NEW p, AddFile(f, p)
  PROVE  TypeInvariant' /\ SpansInvariant'
<1>1. /\ pc = "idle" /\ edits < MaxEdits /\ Addable(engine, f, p)
      /\ guid' = guid + 5 /\ guid' <= MaxGuid
      /\ engine' = WithFile(engine, f, p, guid) /\ edits' = edits + 1
      /\ UNCHANGED <<writer, k, target, disk, pc>>
  BY DEF AddFile, Editing
<1>2. /\ EngineOK(engine) /\ guid \in Nat /\ edits \in 0..MaxEdits
      /\ \A t \in TableNames : DOMAIN engine.heap[t] \subseteq 0..(guid - 1)
      /\ OwnersKnown(engine.heap) /\ UsersKnown(engine.heap)
  BY <1>1, CountsOK DEF TypeInvariant, Stage
<1>3. PICK e, g : e = engine /\ g = engine'
  OBVIOUS
<1>4. /\ EngineOK(g) /\ OwnersKnown(g.heap) /\ UsersKnown(g.heap)
      /\ \A t \in TableNames : DOMAIN g.heap[t] \subseteq 0..(guid + 4)
  BY <1>1, <1>2, <1>3, FileKeepsEngine
<1>5. guid' - 1 = guid + 4 /\ guid' \in 0..MaxGuid /\ edits' \in 0..MaxEdits
  BY <1>1, <1>2, CountsOK
<1>6. Stage'
  BY <1>1, <1>3, <1>4 DEF Stage
<1> QED
  BY <1>1, <1>3, <1>4, <1>5, <1>6, EngineChanges

LEMMA ChangeMetadataOK ==
  ASSUME TypeInvariant, NEW d \in DOMAIN engine.heap.descriptors, NEW data,
         ChangeMetadata(d, data)
  PROVE  TypeInvariant' /\ SpansInvariant'
<1> DEFINE m == engine.heap.descriptors[d].metadata.cell
<1>1. /\ pc = "idle" /\ edits < MaxEdits /\ IsCell(engine.heap.descriptors[d].metadata)
      /\ engine' = [engine EXCEPT !.heap.metadatas[m] = data] /\ edits' = edits + 1
      /\ UNCHANGED <<guid, writer, k, target, disk, pc>>
  BY DEF ChangeMetadata, Editing
<1>2. /\ EngineOK(engine) /\ guid \in 0..MaxGuid /\ edits \in 0..MaxEdits
      /\ \A t \in TableNames : DOMAIN engine.heap[t] \subseteq 0..(guid - 1)
      /\ OwnersKnown(engine.heap) /\ UsersKnown(engine.heap)
  BY <1>1 DEF TypeInvariant, Stage
<1>3. PICK e, g, F : /\ e = engine /\ g = engine'
                     /\ F = [e.heap.metadatas EXCEPT ![m] = data]
  OBVIOUS
<1>4. IsFunction(e.heap.metadatas)
  BY <1>2, <1>3, Kinds10 DEF EngineOK, HeapOK
<1>5. DOMAIN F = DOMAIN e.heap["metadatas"] /\ IsFunction(F)
  BY <1>3, <1>4 DEF IsFunction
<1>6. \A c \in DOMAIN F : RecordOK(e.heap, "metadatas", F[c])
  BY DEF RecordOK
<1>7. g = Put(e, "metadatas", F)
  BY SMTT(60), <1>1, <1>3 DEF Put
<1>8. /\ EngineOK(g)
      /\ \A u \in TableNames : u # "metadatas" => g.heap[u] = e.heap[u]
      /\ \A u \in TableNames : DOMAIN g.heap[u] = DOMAIN e.heap[u]
  BY <1>2, <1>3, <1>5, <1>6, <1>7, Kinds10, PutKeepsEngine
<1>9. OwnersKnown(g.heap) /\ UsersKnown(g.heap)
  <2>1. /\ g.heap.packages = e.heap.packages /\ g.heap.children = e.heap.children
        /\ g.heap.groups = e.heap.groups
        /\ g.heap.paths = e.heap.paths /\ g.heap.links = e.heap.links
        /\ g.heap.infos = e.heap.infos /\ g.heap.descriptors = e.heap.descriptors
        /\ g.heap.patches = e.heap.patches /\ g.heap.files = e.heap.files
    BY <1>8, Kinds10
  <2> QED BY <1>2, <1>3, <2>1 DEF OwnersKnown, UsersKnown, InfoKnown
<1>10. Stage'
  BY <1>1, <1>3, <1>9 DEF Stage
<1>11. edits' \in 0..MaxEdits
  BY <1>1, <1>2, CountsOK
<1> QED
  BY <1>1, <1>2, <1>3, <1>8, <1>10, <1>11, EngineChanges

LEMMA SetSubPackageOK ==
  ASSUME TypeInvariant, NEW g \in DOMAIN engine.heap.groups,
         NEW p \in DOMAIN engine.heap.packages, SetSubPackage(g, p)
  PROVE  TypeInvariant' /\ SpansInvariant'
<1>1. /\ pc = "idle" /\ edits < MaxEdits
      /\ engine' = [engine EXCEPT !.heap.groups[g].sub = PackageRef(p)]
      /\ edits' = edits + 1 /\ UNCHANGED <<guid, writer, k, target, disk, pc>>
  BY DEF SetSubPackage, Editing
<1>2. /\ EngineOK(engine) /\ guid \in 0..MaxGuid /\ edits \in 0..MaxEdits
      /\ \A t \in TableNames : DOMAIN engine.heap[t] \subseteq 0..(guid - 1)
      /\ OwnersKnown(engine.heap) /\ UsersKnown(engine.heap)
  BY <1>1 DEF TypeInvariant, Stage
<1>3. PICK e, f, F, x, y :
        /\ e = engine /\ f = engine' /\ F = [e.heap.groups EXCEPT ![g] = y]
        /\ x = e.heap.groups[g]
        /\ y = [offset |-> x.offset, files |-> x.files, sub |-> PackageRef(p)]
  OBVIOUS
<1>4. IsFunction(e.heap.groups) /\ GroupOK(e.heap, x)
  <2>1. RecordOK(e.heap, "groups", x)
    BY <1>2, <1>3, Kinds10 DEF EngineOK, HeapOK
  <2>2. IsFunction(e.heap.groups)
    BY <1>2, <1>3, Kinds10 DEF EngineOK, HeapOK
  <2> QED BY <2>1, <2>2 DEF RecordOK
<1>5. /\ F[g] = y /\ DOMAIN F = DOMAIN e.heap["groups"] /\ IsFunction(F)
      /\ \A c \in DOMAIN e.heap.groups : c # g => F[c] = e.heap.groups[c]
  BY <1>3, <1>4, ExceptChanges
<1>6. y.sub \in OwnersIn(e.heap) /\ y.files = x.files /\ y.sub.is = "package"
      /\ y = [offset |-> y.offset, files |-> y.files, sub |-> y.sub]
  BY <1>3 DEF PackageRef, OwnersIn
<1>7. GroupOK(e.heap, y)
  BY <1>4, <1>6 DEF GroupOK
<1>8. \A c \in DOMAIN F : RecordOK(e.heap, "groups", F[c])
  <2>1. \A c \in DOMAIN e.heap.groups : RecordOK(e.heap, "groups", e.heap.groups[c])
    BY <1>2, <1>3, Kinds10 DEF EngineOK, HeapOK
  <2>2. RecordOK(e.heap, "groups", y)
    BY <1>7 DEF RecordOK
  <2> QED BY <1>5, <2>1, <2>2
<1>9. f = Put(e, "groups", F)
  <2>1. y = [x EXCEPT !.sub = PackageRef(p)]
    <3>1. x = [offset |-> x.offset, files |-> x.files, sub |-> x.sub]
      BY <1>4 DEF GroupOK
    <3> QED BY <1>3, <3>1
  <2> QED BY <1>1, <1>3, <2>1 DEF Put
<1>10. /\ EngineOK(f) /\ f.heap["groups"] = F
       /\ \A u \in TableNames : u # "groups" => f.heap[u] = e.heap[u]
       /\ \A u \in TableNames : DOMAIN f.heap[u] = DOMAIN e.heap[u]
  BY <1>2, <1>3, <1>5, <1>8, <1>9, Kinds10, PutKeepsEngine
<1>11. /\ f.heap.packages = e.heap.packages /\ f.heap.children = e.heap.children
       /\ f.heap.paths = e.heap.paths /\ f.heap.links = e.heap.links
       /\ f.heap.infos = e.heap.infos /\ f.heap.descriptors = e.heap.descriptors
       /\ f.heap.patches = e.heap.patches /\ f.heap.files = e.heap.files
  BY <1>10, Kinds10
<1>12. UsersKnown(f.heap)
  BY <1>2, <1>3, <1>11 DEF UsersKnown, InfoKnown
<1>13. OwnersKnown(f.heap)
  <2>1. \A c \in DOMAIN F : ~IsUnresolved(F[c].sub) /\ F[c].files.is # "range"
    <3>1. ~IsUnresolved(y.sub) /\ y.files.is # "range"
      BY <1>2, <1>3, <1>6 DEF OwnersKnown, IsUnresolved
    <3>2. \A c \in DOMAIN e.heap.groups :
            ~IsUnresolved(e.heap.groups[c].sub) /\ e.heap.groups[c].files.is # "range"
      BY <1>2, <1>3 DEF OwnersKnown
    <3> QED BY <1>5, <3>1, <3>2
  <2> QED BY <1>2, <1>3, <1>10, <1>11, <2>1 DEF OwnersKnown
<1>14. Stage'
  BY <1>1, <1>3, <1>12, <1>13 DEF Stage
<1>15. edits' \in 0..MaxEdits
  BY <1>1, <1>2, CountsOK
<1> QED
  BY <1>1, <1>2, <1>3, <1>10, <1>14, <1>15, EngineChanges

LEMMA FromEngineOK ==
  ASSUME TypeInvariant, NEW t \in {"engine", "memory", "directory"}, FromEngine(t)
  PROVE  TypeInvariant' /\ SpansInvariant'
<1>1. /\ pc = "idle" /\ writer' = NoWriter /\ k' = 1 /\ target' = t /\ pc' = "push"
      /\ UNCHANGED <<engine, guid, disk, edits>>
  BY DEF FromEngine
<1>2. WriterOK(engine.heap, NoWriter) /\ InOrder(engine.heap, NoWriter)
  BY NothingPushed
<1>3. /\ WriterOK(engine.heap, writer)'
      /\ InOrder(engine.heap, writer)'
  BY <1>1, <1>2
<1>4. PatchesDone'
  <2>1. PICK packages \in Nat, groups \in Nat :
          packages = Len(engine.tables.packages) /\ groups = Len(engine.tables.groups)
    <3>1. /\ engine.tables["packages"] \in Seq(DOMAIN engine.heap["packages"])
          /\ engine.tables["groups"] \in Seq(DOMAIN engine.heap["groups"])
      BY Kinds10 DEF TypeInvariant, EngineOK
    <3> QED BY <3>1
  <2>2. \A j \in 1..Len(engine.tables.patches) :
          ~(j + Len(engine.tables.packages) + Len(engine.tables.groups) < 1)
    <3>1. \A j \in 1..Len(engine.tables.patches) : ~(j + packages + groups < 1)
      <4> SUFFICES ASSUME NEW j \in 1..Len(engine.tables.patches)
                   PROVE  ~(j + packages + groups < 1)
        OBVIOUS
      <4>1. j \in Nat /\ j >= 1
        OBVIOUS
      <4> QED BY <4>1
    <3> QED BY <2>1, <3>1, Zenon
  <2> QED BY <1>1, <2>2, Zenon DEF PatchesDone
<1>5. Stage'
  BY <1>1 DEF TypeInvariant, Stage
<1>6. IsImage(disk)' /\ EngineOK(engine)'
  BY <1>1 DEF TypeInvariant
<1> QED
  BY <1>1, <1>3, <1>4, <1>5, <1>6 DEF TypeInvariant, SpansInvariant

LEMMA PushTurnOK ==
  ASSUME TypeInvariant, SpansInvariant, PushTurn
  PROVE  TypeInvariant' /\ SpansInvariant'
<1>1. /\ pc = "push" /\ writer' = Turn /\ writer'.ok /\ k' = k + 1
      /\ pc' \in {"push", "writing"}
      /\ UNCHANGED <<engine, guid, target, disk, edits>>
  BY DEF PushTurn
<1>2. PICK v : v = writer'
  OBVIOUS
<1> DEFINE HadAt(j) ==
             \A f \in Cells(engine.heap.patches[engine.tables.patches[j]].files.cells) :
               Has(v, "files", f)
           Before(j) == j + Len(engine.tables.packages) + Len(engine.tables.groups)
<1>3. /\ OneTurn(engine.heap, writer, v)
      /\ \A j \in 1..Len(engine.tables.patches) : Before(j) = k => HadAt(j)
  BY <1>1, <1>2, TurnIsTaken
<1>4. InOrder(engine.heap, writer)
  BY <1>1 DEF SpansInvariant
<1>5. /\ WriterOK(engine.heap, v) /\ InOrder(engine.heap, v)
      /\ \A t \in TableNames : Extended(writer.makers[t], v.makers[t])
  BY <1>1, <1>2, <1>3, <1>4 DEF OneTurn
<1>6. \A j \in 1..Len(engine.tables.patches) : Before(j) < k + 1 => HadAt(j)
  <2> SUFFICES ASSUME NEW j \in 1..Len(engine.tables.patches), Before(j) < k + 1
               PROVE  HadAt(j)
    OBVIOUS
  <2>1. CASE Before(j) = k
    BY <1>3, <2>1
  <2>2. CASE Before(j) < k
    <3>1. \A f \in Cells(engine.heap.patches[engine.tables.patches[j]].files.cells) :
            Has(writer, "files", f)
      BY <1>1, <2>2 DEF TypeInvariant, PatchesDone
    <3>2. \A f : Has(writer, "files", f) => Has(v, "files", f)
      BY <1>5, Kinds10 DEF Extended, Has, HasCell
    <3> QED BY <3>1, <3>2
  <2>3. PICK packages \in Nat, groups \in Nat :
          packages = Len(engine.tables.packages) /\ groups = Len(engine.tables.groups)
    <3>1. /\ engine.tables["packages"] \in Seq(DOMAIN engine.heap["packages"])
          /\ engine.tables["groups"] \in Seq(DOMAIN engine.heap["groups"])
      BY Kinds10 DEF TypeInvariant, EngineOK
    <3> QED BY <3>1
  <2>4. PICK b : b = Before(j)
    OBVIOUS
  <2>5. b = j + packages + groups
    BY <2>3, <2>4
  <2>6. b < k + 1 /\ b \in Nat /\ k \in Nat
    <3>1. b < k + 1
      BY <2>4, Zenon
    <3>2. j \in Nat
      OBVIOUS
    <3>3. k \in Nat
      BY DEF TypeInvariant
    <3> HIDE DEF Before, HadAt
    <3> QED BY <2>5, <3>1, <3>2, <3>3
  <2>7. b = k \/ b < k
    BY <2>6
  <2> QED BY <2>1, <2>2, <2>4, <2>7
<1>7. PatchesDone'
  BY <1>1, <1>2, <1>6, Zenon DEF PatchesDone
<1>8. Stage'
  BY <1>1 DEF TypeInvariant, Stage
<1>9. k' \in Nat /\ k' >= 1
  BY <1>1 DEF TypeInvariant
<1>10. IsImage(disk)' /\ EngineOK(engine)' /\ WriterOK(engine.heap, writer)'
  BY <1>1, <1>2, <1>5 DEF TypeInvariant
<1>11. SpansInvariant'
  BY <1>1, <1>2, <1>5 DEF SpansInvariant
<1> QED
  BY <1>1, <1>7, <1>8, <1>9, <1>10, <1>11 DEF TypeInvariant

LEMMA ReorganizeOK ==
  ASSUME TypeInvariant, Reorganize
  PROVE  TypeInvariant' /\ SpansInvariant'
<1>1. /\ pc = "writing"
      /\ engine' = [engine EXCEPT !.tables = [t \in TableNames |-> TableOf(writer, t)]]
      /\ writer' = NoWriter /\ k' = 0 /\ pc' = "idle"
      /\ UNCHANGED <<guid, target, disk, edits>>
  BY DEF Reorganize
<1>2. /\ EngineOK(engine) /\ WriterOK(engine.heap, writer)
      /\ OwnersKnown(engine.heap) /\ UsersKnown(engine.heap)
  BY <1>1 DEF TypeInvariant, Stage
<1>3. PICK e, f, s : e = engine /\ f = engine' /\ s = [t \in TableNames |-> TableOf(writer, t)]
  OBVIOUS
<1>4. /\ f = [heap |-> e.heap, tables |-> s, packageLookup |-> e.packageLookup,
              fileLookup |-> e.fileLookup]
      /\ f.heap = e.heap /\ f.tables = s
  <2>1. e = [heap |-> e.heap, tables |-> e.tables, packageLookup |-> e.packageLookup,
             fileLookup |-> e.fileLookup]
    BY <1>2, <1>3 DEF EngineOK
  <2> QED BY <1>1, <1>3, <2>1
<1>5. \A t \in TableNames : s[t] \in Seq(DOMAIN e.heap[t])
  BY <1>2, <1>3 DEF WriterOK, IsMaker, TableOf
<1>6. EngineOK(f)
  BY <1>2, <1>3, <1>4, <1>5 DEF EngineOK
<1>7. WriterOK(engine.heap, writer)'
  BY <1>1, NothingPushed
<1>8. Stage'
  BY <1>1, <1>2, <1>3, <1>4 DEF Stage
<1>9. IsImage(disk)' /\ \A t \in TableNames : DOMAIN engine'.heap[t] \subseteq 0..(guid' - 1)
  BY <1>1, <1>3, <1>4 DEF TypeInvariant
<1> QED
  BY <1>1, <1>3, <1>6, <1>7, <1>8, <1>9 DEF TypeInvariant, SpansInvariant

LEMMA WriteOK ==
  ASSUME TypeInvariant, Write
  PROVE  TypeInvariant' /\ SpansInvariant'
<1>1. /\ pc = "writing" /\ target # "engine" /\ Serialisable(engine, writer, target)
      /\ disk' = WrittenImage(engine, writer, target)
      /\ engine' = NoEngine /\ writer' = NoWriter /\ k' = 0 /\ target' = "engine"
      /\ pc' = "closed" /\ UNCHANGED <<guid, edits>>
  BY DEF Write, Writing
<1>2. /\ Known(engine) /\ WriterOK(engine.heap, writer)
      /\ target \in {"memory", "directory"}
  BY <1>1 DEF TypeInvariant, Stage, Known
<1>3. IsImage(disk')
  BY <1>1, <1>2, ImageIsWritten
<1>4. EngineOK(engine') /\ \A t \in TableNames : DOMAIN engine'.heap[t] \subseteq 0..(guid' - 1)
  BY <1>1, NothingRead
<1>5. WriterOK(engine.heap, writer)'
  BY <1>1, NothingPushed
<1>6. Stage'
  BY <1>1 DEF Stage
<1> QED
  BY <1>1, <1>3, <1>4, <1>5, <1>6 DEF TypeInvariant, SpansInvariant

\* A step that loses the engine, or leaves everything as it is.
LEMMA StopOK ==
  ASSUME TypeInvariant, SpansInvariant,
         Panic \/ ReadGarbled \/ UNCHANGED vars
  PROVE  TypeInvariant' /\ SpansInvariant'
<1>1. CASE Panic
  <2>1. pc' = "panicked" /\ UNCHANGED <<engine, guid, writer, k, target, disk, edits>>
    BY <1>1 DEF Panic
  <2> QED BY <2>1 DEF TypeInvariant, SpansInvariant, Stage
<1>2. CASE ReadGarbled
  <2>1. /\ pc = "closed" /\ pc' = "garbled"
        /\ UNCHANGED <<engine, guid, writer, k, target, disk, edits>>
    BY <1>2 DEF ReadGarbled
  <2> QED BY <2>1 DEF TypeInvariant, SpansInvariant, Stage
<1>3. CASE UNCHANGED vars
  BY <1>3 DEF vars, TypeInvariant, SpansInvariant, Stage, PatchesDone
<1> QED
  BY <1>1, <1>2, <1>3

\* Each step keeps both invariants.
LEMMA StepOK ==
  ASSUME TypeInvariant, SpansInvariant, [Next]_vars
  PROVE  TypeInvariant' /\ SpansInvariant'
<1>1. CASE Read
  BY <1>1, ReadOK
<1>2. CASE ResolveBegins
  BY <1>2, ResolveBeginsOK
<1>3. CASE ResolveEnds
  BY <1>3, ResolveEndsOK
<1>4. ASSUME NEW f \in Files, NEW p \in Names, AddFile(f, p)
      PROVE  TypeInvariant' /\ SpansInvariant'
  BY <1>4, AddFileOK
<1>5. ASSUME NEW d \in DOMAIN engine.heap.descriptors, NEW data \in NewData,
             ChangeMetadata(d, data)
      PROVE  TypeInvariant' /\ SpansInvariant'
  BY <1>5, ChangeMetadataOK
<1>6. ASSUME NEW g \in DOMAIN engine.heap.groups, NEW p \in DOMAIN engine.heap.packages,
             SetSubPackage(g, p)
      PROVE  TypeInvariant' /\ SpansInvariant'
  BY <1>6, SetSubPackageOK
<1>7. ASSUME NEW t \in {"engine", "memory", "directory"}, FromEngine(t)
      PROVE  TypeInvariant' /\ SpansInvariant'
  BY <1>7, FromEngineOK
<1>8. CASE PushTurn
  BY <1>8, PushTurnOK
<1>9. CASE Reorganize
  BY <1>9, ReorganizeOK
<1>10. CASE Write
  BY <1>10, WriteOK
<1>11. CASE Panic \/ ReadGarbled \/ UNCHANGED vars
  BY <1>11, StopOK
<1>12. CASE ResolveBeginPanics \/ ResolveEndPanics \/ PushPanics \/ WritePanics
  BY <1>11, <1>12 DEF ResolveBeginPanics, ResolveEndPanics, PushPanics, WritePanics
<1>13. ASSUME NEW f \in Files, NEW p \in Names, AddFilePanics(f, p)
       PROVE  TypeInvariant' /\ SpansInvariant'
  BY <1>11, <1>13 DEF AddFilePanics
<1> QED
  BY <1>1, <1>2, <1>3, <1>4, <1>5, <1>6, <1>7, <1>8, <1>9, <1>10, <1>11, <1>12, <1>13 DEF Next

\* TypeInvariant and SpansInvariant are inductive.
THEOREM InvariantHolds == Spec => [](TypeInvariant /\ SpansInvariant)
<1>1. Init => TypeInvariant /\ SpansInvariant
  BY InitOK
<1>2. (TypeInvariant /\ SpansInvariant) /\ [Next]_vars => (TypeInvariant /\ SpansInvariant)'
  BY StepOK
<1> QED
  BY <1>1, <1>2, PTL DEF Spec

LEMMA FirstIsThere ==
  ASSUME NEW S, NEW cells \in Seq(S), NEW t, NEW need \in FirstOf(t, cells)
  PROVE  need[1] = t /\ need[2] \in S
BY DEF FirstOf

LEMMA OwnerIsThere ==
  ASSUME NEW h, NEW ref \in {None} \cup OwnersIn(h), NEW need \in OwnerOf(ref)
  PROVE  need[2] \in DOMAIN h[need[1]]
BY DEF OwnersIn, OwnerOf, CellOf, None

LEMMA CellIsThere ==
  ASSUME NEW S, NEW ref \in ReferenceTo(S), NEW t, NEW need \in CellOf(t, ref)
  PROVE  need[1] = t /\ need[2] \in S
BY DEF ReferenceTo, CellOf, None

LEMMA SpanIsThere ==
  ASSUME NEW S, NEW set \in SpanSetOf(S), IsSet(set), NEW t, NEW need \in FirstOf(t, set.cells)
  PROVE  need[1] = t /\ need[2] \in S
<1>1. set.cells \in Seq(S)
  BY DEF SpanSetOf, IsSet
<1> QED
  BY <1>1, FirstIsThere

\* No index that is written is that of a cell that is not there.
LEMMA NeedsAreThere ==
  ASSUME NEW e, Known(e), NEW t \in TableNames, NEW c \in DOMAIN e.heap[t],
         NEW need \in Needs(t, e.heap[t][c])
  PROVE  need[2] \in DOMAIN e.heap[need[1]]
<1>1. PICK h, x : h = e.heap /\ x = e.heap[t][c]
  OBVIOUS
<1>2. RecordOK(h, t, x) /\ need \in Needs(t, x)
  BY <1>1 DEF Known, EngineOK, HeapOK
<1> SUFFICES need[2] \in DOMAIN h[need[1]]
  BY <1>1
<1>3. CASE t = "packages"
  <2>1. PackageOK(h, x)
    BY <1>2, <1>3 DEF RecordOK
  <2>2. IsSet(x.groups) /\ IsSet(x.infos) /\ IsSet(x.children)
    BY <1>1, <1>3 DEF Known, OwnersKnown
  <2>3. need \in FirstOf("groups", x.groups.cells) \cup FirstOf("infos", x.infos.cells)
                  \cup FirstOf("children", x.children.cells)
    BY <1>2, <1>3 DEF Needs
  <2>4. /\ x.groups \in SpanSetOf(DOMAIN h.groups)
        /\ x.infos \in SpanSetOf(DOMAIN h.infos)
        /\ x.children \in SpanSetOf(DOMAIN h.children)
    BY <2>1 DEF PackageOK
  <2> QED BY <2>2, <2>3, <2>4, SpanIsThere
<1>4. CASE t = "children"
  <2>1. x.package \in ReferenceTo(DOMAIN h.packages)
    BY <1>2, <1>4 DEF RecordOK, ChildOK
  <2>2. need \in CellOf("packages", x.package)
    BY <1>2, <1>4 DEF Needs
  <2> QED BY <2>1, <2>2, CellIsThere
<1>5. CASE t = "groups"
  <2>1. GroupOK(h, x)
    BY <1>2, <1>5 DEF RecordOK
  <2>2. ~IsUnresolved(x.sub) /\ x.files.is # "range"
    BY <1>1, <1>5 DEF Known, OwnersKnown
  <2>3. x.files.cells \in Seq(DOMAIN h[x.files.is])
    BY <2>1, <2>2 DEF GroupOK, FileSets
  <2>4. x.sub \in {None} \cup OwnersIn(h)
    BY <2>1, <2>2 DEF GroupOK, IsUnresolved
  <2>5. need \in FirstOf(x.files.is, x.files.cells) \cup OwnerOf(x.sub)
    BY <1>2, <1>5 DEF Needs
  <2>6. CASE need \in FirstOf(x.files.is, x.files.cells)
    BY <2>3, <2>6, FirstIsThere
  <2>7. CASE need \in OwnerOf(x.sub)
    BY <2>4, <2>7, OwnerIsThere
  <2> QED BY <2>5, <2>6, <2>7
<1>6. CASE t = "paths"
  <2>1. x.link \in ReferenceTo(DOMAIN h.links) /\ x.file \in ReferenceTo(DOMAIN h.files)
    BY <1>2, <1>6 DEF RecordOK, PathOK
  <2>2. need \in CellOf("links", x.link) \cup CellOf("files", x.file)
    BY <1>2, <1>6 DEF Needs
  <2> QED BY <2>1, <2>2, CellIsThere
<1>7. CASE t = "links"
  <2>1. LinkOK(h, x)
    BY <1>2, <1>7 DEF RecordOK
  <2>2. ~IsUnresolved(x.owner)
    BY <1>1, <1>7 DEF Known, UsersKnown
  <2>3. x.owner \in {None} \cup OwnersIn(h) /\ x.info \in ReferenceTo(DOMAIN h.infos)
    BY <2>1, <2>2 DEF LinkOK, IsUnresolved
  <2>4. need \in OwnerOf(x.owner) \cup CellOf("infos", x.info)
    BY <1>2, <1>7 DEF Needs
  <2>5. CASE need \in OwnerOf(x.owner)
    BY <2>3, <2>5, OwnerIsThere
  <2>6. CASE need \in CellOf("infos", x.info)
    BY <2>3, <2>6, CellIsThere
  <2> QED BY <2>4, <2>5, <2>6
<1>8. CASE t = "infos"
  <2>1. /\ x.path \in ReferenceTo(DOMAIN h.paths) /\ x.link \in ReferenceTo(DOMAIN h.links)
        /\ x.descriptors \in SpanSetOf(DOMAIN h.descriptors)
    BY <1>2, <1>8 DEF RecordOK, InfoOK
  <2>2. IsSet(x.descriptors)
    BY <1>1, <1>8 DEF Known, UsersKnown, InfoKnown
  <2>3. need \in CellOf("paths", x.path) \cup CellOf("links", x.link)
                  \cup FirstOf("descriptors", x.descriptors.cells)
    BY <1>2, <1>8 DEF Needs
  <2> QED BY <2>1, <2>2, <2>3, CellIsThere, SpanIsThere
<1>9. CASE t = "descriptors"
  <2>1. /\ x.group \in ReferenceTo(DOMAIN h.groups)
        /\ x.metadata \in ReferenceTo(DOMAIN h.metadatas)
        /\ x.args \in ReferenceTo(DOMAIN h[ArgsTable(x)])
    BY <1>2, <1>9 DEF RecordOK, DescriptorOK
  <2>2. need \in CellOf("groups", x.group) \cup CellOf("metadatas", x.metadata)
                  \cup CellOf(ArgsTable(x), x.args)
    BY <1>2, <1>9 DEF Needs
  <2> QED BY <2>1, <2>2, CellIsThere
<1>10. CASE t = "metadatas"
  BY <1>2, <1>10 DEF Needs
<1>11. CASE t = "patches"
  <2>1. x.group \in ReferenceTo(DOMAIN h.groups) /\ x.files \in SpanSetOf(DOMAIN h.files)
    BY <1>2, <1>11 DEF RecordOK, PatchOK
  <2>2. IsSet(x.files)
    BY <1>1, <1>11 DEF Known, UsersKnown
  <2>3. need \in CellOf("groups", x.group) \cup FirstOf("files", x.files.cells)
    BY <1>2, <1>11 DEF Needs
  <2> QED BY <2>1, <2>2, <2>3, CellIsThere, SpanIsThere
<1>12. CASE t = "files"
  <2>1. x.info \in ReferenceTo(DOMAIN h.infos) /\ x.link \in ReferenceTo(DOMAIN h.links)
    BY <1>2, <1>12 DEF RecordOK, VersionedFileOK
  <2>2. need \in CellOf("infos", x.info) \cup CellOf("links", x.link)
    BY <1>2, <1>12 DEF Needs
  <2> QED BY <2>1, <2>2, CellIsThere
<1> QED
  BY <1>3, <1>4, <1>5, <1>6, <1>7, <1>8, <1>9, <1>10, <1>11, <1>12 DEF TableNames

\* Type correctness, for any client and any image that parses: every index and
\* reference of an engine that was resolved leads to a cell of its kind, and what
\* to_memory and to_directory write can be parsed again.
THEOREM TypeCorrect == Spec => []TypeOK
<1>1. TypeInvariant => TypeOK
  <2> SUFFICES ASSUME TypeInvariant PROVE TypeOK
    OBVIOUS
  <2>1. \A t \in TableNames :
          /\ DOMAIN engine.heap[t] \subseteq 0..(guid - 1)
          /\ engine.tables[t] \in Seq(DOMAIN engine.heap[t])
          /\ IsMaker(writer.makers[t], DOMAIN engine.heap[t])
    BY DEF TypeInvariant, EngineOK, WriterOK
  <2>2. ASSUME pc \in {"idle", "push", "writing"},
               NEW t \in TableNames, NEW c \in DOMAIN engine.heap[t],
               NEW need \in Needs(t, engine.heap[t][c])
        PROVE  need[2] \in DOMAIN engine.heap[need[1]]
    <3>1. Known(engine)
      BY <2>2 DEF TypeInvariant, Stage, Known
    <3> QED BY <2>2, <3>1, NeedsAreThere
  <2>3. /\ guid \in 0..MaxGuid /\ edits \in 0..MaxEdits /\ IsImage(disk)
        /\ pc \in {"closed", "read", "resolving", "idle", "push", "writing", "panicked", "garbled"}
    BY DEF TypeInvariant
  <2> QED BY <2>1, <2>2, <2>3 DEF TypeOK
<1> QED
  BY <1>1, InvariantHolds, PTL

\* Whatever the client did, what from_engine completes can be stored as first
\* indices and counts: of packages their groups, infos and child packages, of
\* info groups and infos what they hold, of patches their versioned files.
THEOREM SetsAreInOrder == Spec => []SetsInOrder
<1>1. SpansInvariant => SetsInOrder
  BY DEF SpansInvariant, SetsInOrder
<1> QED
  BY <1>1, InvariantHolds, PTL

-----------------------------------------------------------------------------
(* The offsets: the groups of the table hold infos of the table, of which    *)
(* the GUIDs tell the places.                                              *)

\* No group holds infos before resolve.
LEMMA NoneHeldBeforeResolve ==
  ASSUME NEW image, IsImage(image), NEW first \in Nat, NEW at \in Nat, NEW gap \in Nat,
         NEW e, IsRead(e, image, first, at, gap)
  PROVE  InfosHeld(e)
<1>1. /\ Len(e.tables["groups"]) = Len(image["groups"])
      /\ \A i \in 1..Len(image["groups"]) :
           e.heap["groups"][e.tables["groups"][i]] = Parse("groups", image["groups"][i])
  BY Kinds10, ReadCells
<1>2. image.groups \in Seq(Cells(image.groups))
  BY Kinds10 DEF IsImage
<1>3. ASSUME NEW g \in Cells(e.tables.groups) PROVE ~IsInfoGroup(e, g)
  <2>1. PICK i \in 1..Len(image.groups) : g = e.tables.groups[i]
    BY <1>1, <1>3 DEF Cells
  <2>2. PICK x : x = image.groups[i]
    OBVIOUS
  <2>3. {x.start, x.count} \subseteq Nat
    <3>1. x \in Cells(image.groups)
      BY <1>2, <2>2, CellsOfSeq
    <3> QED BY <3>1 DEF IsImage
  <2>4. e.heap.groups[g].files = Span(x.start, x.count)
    <3>1. e.heap.groups[g] = ParseGroup(x)
      BY <1>1, <2>1, <2>2 DEF Parse
    <3> QED BY <3>1 DEF ParseGroup
  <2>5. Span(x.start, x.count).is = "range"
    <3>1. x.start \in Nat /\ x.count \in Nat
      BY <2>3
    <3>2. Span(x.start, x.count) \in [is : {"range"}, start : Nat, end : Nat]
      BY <3>1, SpanIsRange
    <3> QED BY <3>2
  <2> QED BY <2>4, <2>5 DEF IsInfoGroup
<1> QED
  BY <1>3 DEF InfosHeld

\* A step that leaves the tables and what the groups of the table hold.
LEMMA HeldStays ==
  ASSUME NEW e, NEW f, InfosHeld(e), f.tables = e.tables,
         \A g \in Cells(e.tables.groups) :
           Holds(e.heap.groups[g].files, f.heap.groups[g].files, e.tables.infos)
  PROVE  InfosHeld(f)
<1> SUFFICES ASSUME NEW g \in Cells(e.tables.groups), IsInfoGroup(f, g)
             PROVE  Cells(f.heap.groups[g].files.cells) \subseteq Cells(e.tables.infos)
  BY DEF InfosHeld
<1>1. f.heap.groups[g].files.is = "infos"
  BY DEF IsInfoGroup
<1>2. CASE f.heap.groups[g].files = e.heap.groups[g].files
  BY <1>1, <1>2 DEF InfosHeld, IsInfoGroup
<1> QED
  BY <1>1, <1>2 DEF Holds

LEMMA HeldFromThen ==
  ASSUME NEW e, NEW f, InfosHeld(e), f.tables = e.tables, f.heap.groups = e.heap.groups
  PROVE  InfosHeld(f)
BY HeldStays DEF Holds

\* add_file changes a group of metadata.
LEMMA HeldWithFile ==
  ASSUME NEW e, EngineOK(e), InfosHeld(e), NEW first \in Nat, NEW file, NEW p,
         Addable(e, file, p), NEW f, f = WithFile(e, file, p, first)
  PROVE  InfosHeld(f)
<1>1. PICK g : g = FirstGroup(e, e.packageLookup[p])
  OBVIOUS
<1>2. f.tables = e.tables /\ f.heap.groups = WithMetadata(e.heap.groups, g, first)
  <2>1. PICK package, d, l, q, i, D, L, Q, I :
          /\ package = e.packageLookup[p]
          /\ d = first + 1 /\ l = first + 2 /\ q = first + 3 /\ i = first + 4
          /\ D = [group |-> Resolved(g), load |-> "owned",
                  metadata |-> Resolved(first), args |-> None]
          /\ L = [owner |-> PackageRef(package), info |-> Resolved(i)]
          /\ Q = [fullPath |-> file.fullPath, link |-> Resolved(l), file |-> None]
          /\ I = [path |-> Resolved(q), link |-> Resolved(l), kind |-> "plain",
                  descriptors |-> Set(<<d>>), shared |-> FALSE]
    OBVIOUS
  <2>2. f = [heap |-> f.heap, tables |-> e.tables, packageLookup |-> e.packageLookup,
             fileLookup |-> Insert(e.fileLookup, file.fullPath, q)]
    BY <1>1, <2>1, FileIsAdded
  <2>3. f.heap.groups = WithMetadata(e.heap.groups, g, first)
    BY <1>1, <2>1, FileIsAdded
  <2>4. f.tables = e.tables
    BY <2>2
  <2> QED BY <2>3, <2>4
<1>3. ~IsInfoGroup(e, g)
  BY <1>1 DEF Addable
<1>4. IsFunction(e.heap.groups) /\ \A c \in DOMAIN e.heap.groups : GroupOK(e.heap, e.heap.groups[c])
  BY Kinds10 DEF EngineOK, HeapOK, RecordOK
<1>5. Cells(e.tables.groups) \subseteq DOMAIN e.heap.groups
  BY Kinds10, CellsOfSeq DEF EngineOK
<1>6. ASSUME NEW c \in Cells(e.tables.groups)
      PROVE  Holds(e.heap.groups[c].files, f.heap.groups[c].files, e.tables.infos)
  <2>1. CASE c # g
    <3>1. f.heap.groups[c] = e.heap.groups[c]
      BY <1>2, <1>4, <1>5, <1>6, <2>1 DEF WithMetadata
    <3> QED BY <3>1 DEF Holds
  <2>2. CASE c = g
    <3>1. PICK x : x = e.heap.groups[g]
      OBVIOUS
    <3>2. /\ x = [offset |-> x.offset, files |-> x.files, sub |-> x.sub]
          /\ x.files \in [is : {"range"}, start : Nat, end : Nat] \cup FileSets(e.heap)
      BY <1>4, <1>5, <1>6, <2>2, <3>1 DEF GroupOK
    <3>3. f.heap.groups[g] = [x EXCEPT !.files.cells = Append(@, first)]
      BY <1>2, <1>4, <1>5, <1>6, <2>2, <3>1 DEF WithMetadata
    <3>4. f.heap.groups[g].files = [x.files EXCEPT !.cells = Append(@, first)]
      BY <3>2, <3>3
    <3>5. f.heap.groups[g].files.is = x.files.is
      BY <3>2, <3>4 DEF FileSets
    <3> QED BY <1>3, <2>2, <3>1, <3>5 DEF Holds, IsInfoGroup
  <2> QED BY <2>1, <2>2
<1> QED
  BY <1>2, <1>6, HeldStays

\* What is pushed with its group is in the table that reorganize takes over.
LEMMA HeldWhenPushed ==
  ASSUME NEW h, NEW w, WriterOK(h, w), GroupSpans(h, w),
         NEW e, e.heap = h, e.tables.groups = TableOf(w, "groups"),
         e.tables.infos = TableOf(w, "infos")
  PROVE  InfosHeld(e)
<1> SUFFICES ASSUME NEW g \in Cells(TableOf(w, "groups")), h.groups[g].files.is = "infos",
                    NEW c \in Cells(h.groups[g].files.cells)
             PROVE  c \in Cells(TableOf(w, "infos"))
  BY DEF InfosHeld, IsInfoGroup
<1>1. PICK i \in 1..Len(h.groups[g].files.cells) : c = h.groups[g].files.cells[i]
  BY DEF Cells
<1>2. HasCell(w.makers["infos"], c)
  BY <1>1 DEF GroupSpans, Consecutive
<1>3. MakerOK(w.makers["infos"])
  BY Kinds10 DEF WriterOK
<1> QED
  BY <1>2, <1>3 DEF HasCell, MakerOK, TableOf

LEMMA GroupsHeldStep ==
  ASSUME TypeInvariant, SpansInvariant, GroupsHeld, [Next]_vars
  PROVE  GroupsHeld'
<1>1. PICK e, f : e = engine /\ f = engine'
  OBVIOUS
<1>2. EngineOK(e) /\ InfosHeld(e) /\ guid \in Nat
  BY <1>1, CountsOK DEF TypeInvariant, GroupsHeld
<1>3. SUFFICES InfosHeld(f)
  BY <1>1 DEF GroupsHeld
<1>4. CASE Read
  <2>1. PICK gap \in Gaps, at \in 0..CellsOf(disk) : f = ReadEngine(disk, guid, at, gap)
    BY <1>1, <1>4 DEF Read
  <2>2. IsImage(disk) /\ CellsOf(disk) \in Nat
    <3>1. IsImage(disk)
      BY DEF TypeInvariant
    <3>2. Len(ReadOrder(disk.kind)) = 10 /\ \A n \in 0..10 : CellsBefore(disk, n) \in Nat
      BY <3>1, CellsAreCounted
    <3> QED BY <3>1, <3>2 DEF CellsOf
  <2>3. gap \in Nat /\ at \in Nat
    BY <2>2, CountsOK
  <2> QED BY <1>2, <2>1, <2>2, <2>3, NoneHeldBeforeResolve DEF IsRead
<1>5. CASE ResolveBegins
  <2>1. /\ pc \in {"read", "idle"} /\ OwnersFit(e) /\ f = ResolveOwners(e)
    BY <1>1, <1>5 DEF ResolveBegins, MayResolve
  <2>2. Fresh(e) \/ OwnersKnown(e.heap)
    BY <1>1, <2>1 DEF TypeInvariant, Stage
  <2>3. /\ f.tables = e.tables
        /\ \A c \in Cells(e.tables.groups) :
             Holds(e.heap.groups[c].files, f.heap.groups[c].files, e.tables.infos)
    BY <1>2, <2>1, <2>2, OwnersResolved
  <2> QED BY <1>2, <2>3, HeldStays
<1>6. CASE ResolveEnds
  <2>1. /\ pc = "resolving" /\ CanResolveUsers(e) /\ f = ResolveUsers(e)
    BY <1>1, <1>6 DEF ResolveEnds
  <2>2. Fresh(e) \/ UsersKnown(e.heap)
    BY <1>1, <2>1 DEF TypeInvariant, Stage
  <2>3. \A t \in TableNames : DOMAIN e.heap[t] \subseteq Nat
    BY <1>1, <1>2 DEF TypeInvariant
  <2>4. f.tables = e.tables /\ f.heap.groups = e.heap.groups
    BY <1>2, <2>1, <2>2, <2>3, UsersResolved
  <2> QED BY <1>2, <2>4, HeldFromThen
<1>7. ASSUME NEW file \in Files, NEW p \in Names, AddFile(file, p)
      PROVE  InfosHeld(f)
  <2>1. Addable(e, file, p) /\ f = WithFile(e, file, p, guid)
    BY <1>1, <1>7 DEF AddFile
  <2> QED BY <1>2, <2>1, HeldWithFile
<1>8. ASSUME NEW d \in DOMAIN engine.heap.descriptors, NEW data \in NewData,
             ChangeMetadata(d, data)
      PROVE  InfosHeld(f)
  <2>1. PICK m : f = [e EXCEPT !.heap.metadatas[m] = data]
    BY <1>1, <1>8 DEF ChangeMetadata
  <2>2. f.tables = e.tables /\ f.heap.groups = e.heap.groups
    BY <1>2, <2>1, Kinds10 DEF EngineOK, HeapOK
  <2> QED BY <1>2, <2>2, HeldFromThen
<1>9. ASSUME NEW g \in DOMAIN engine.heap.groups, NEW p \in DOMAIN engine.heap.packages,
             SetSubPackage(g, p)
      PROVE  InfosHeld(f)
  <2>1. f = [e EXCEPT !.heap.groups[g].sub = PackageRef(p)]
    BY <1>1, <1>9 DEF SetSubPackage
  <2>2. /\ IsFunction(e.heap.groups)
        /\ \A c \in DOMAIN e.heap.groups : GroupOK(e.heap, e.heap.groups[c])
    BY <1>2, Kinds10 DEF EngineOK, HeapOK, RecordOK
  <2>3. f.tables = e.tables
        /\ f.heap.groups = [e.heap.groups EXCEPT ![g] = [@ EXCEPT !.sub = PackageRef(p)]]
    BY <1>2, <2>1, Kinds10 DEF EngineOK, HeapOK
  <2>4. ASSUME NEW c \in Cells(e.tables.groups)
        PROVE  f.heap.groups[c].files = e.heap.groups[c].files
    <3>1. c \in DOMAIN e.heap.groups
      BY <1>2, <2>4, Kinds10, CellsOfSeq DEF EngineOK
    <3>2. PICK x : x = e.heap.groups[c]
      OBVIOUS
    <3>3. x = [offset |-> x.offset, files |-> x.files, sub |-> x.sub]
      BY <2>2, <3>1, <3>2 DEF GroupOK
    <3>4. CASE c = g
      <4>1. f.heap.groups[c] = [x EXCEPT !.sub = PackageRef(p)]
        BY <2>2, <2>3, <3>1, <3>2, <3>4
      <4> QED BY <3>2, <3>3, <4>1
    <3>5. CASE c # g
      BY <2>2, <2>3, <3>1, <3>5
    <3> QED BY <3>4, <3>5
  <2> QED BY <1>2, <2>3, <2>4, HeldStays DEF Holds
<1>10. CASE Reorganize
  <2>1. /\ pc = "writing"
        /\ f = [e EXCEPT !.tables = [t \in TableNames |-> TableOf(writer, t)]]
    BY <1>1, <1>10 DEF Reorganize
  <2>2. f.heap = e.heap /\ f.tables = [t \in TableNames |-> TableOf(writer, t)]
    BY <1>2, <2>1 DEF EngineOK
  <2>3. WriterOK(e.heap, writer) /\ GroupSpans(e.heap, writer)
    BY <1>1, <2>1 DEF TypeInvariant, SpansInvariant, InOrder
  <2> QED BY <2>2, <2>3, Kinds10, HeldWhenPushed
<1>11. CASE Write
  <2>1. f = NoEngine
    BY <1>1, <1>11 DEF Write
  <2> QED BY <2>1, Kinds10, EmptySeq DEF NoEngine, InfosHeld, Cells
<1>12. CASE UNCHANGED engine
  BY <1>1, <1>2, <1>12
<1>13. ASSUME NEW t \in {"engine", "memory", "directory"}, FromEngine(t)
       PROVE  InfosHeld(f)
  BY <1>12, <1>13 DEF FromEngine
<1>14. CASE \/ ResolveBeginPanics \/ ResolveEndPanics \/ PushPanics \/ WritePanics
            \/ ReadGarbled \/ PushTurn \/ UNCHANGED vars
  BY <1>12, <1>14
  DEF ResolveBeginPanics, ResolveEndPanics, PushPanics, WritePanics, ReadGarbled, PushTurn,
      Panic, vars
<1>15. ASSUME NEW file \in Files, NEW p \in Names, AddFilePanics(file, p)
       PROVE  InfosHeld(f)
  BY SMTT(30), <1>12, <1>15 DEF AddFilePanics, Panic
<1> QED
  BY <1>4, <1>5, <1>6, <1>7, <1>8, <1>9, <1>10, <1>11, <1>13, <1>14, <1>15 DEF Next

InfosInSequence(e) ==
  \A i \in 1..Len(e.tables.infos) : e.tables.infos[i] = e.tables.infos[1] + i - 1

\* Of infos with consecutive GUIDs, the distance from the first is the place.
LEMMA DistanceIsPlace ==
  ASSUME NEW e, EngineOK(e), \A t \in TableNames : DOMAIN e.heap[t] \subseteq Nat,
         InfosHeld(e), InfosInSequence(e),
         NEW g \in Cells(e.tables.groups), IsInfoGroup(e, g), e.heap.groups[g].files.cells # <<>>
  PROVE  Distance(e, g) = Beginning(e, g) /\ Beginning(e, g) \in Nat
<1>1. PICK cells, infos, c, n :
        /\ cells = e.heap.groups[g].files.cells /\ infos = e.tables.infos
        /\ c = cells[1] /\ n = PositionOf(infos, c)
  OBVIOUS
<1>2. infos \in Seq(DOMAIN e.heap.infos) /\ DOMAIN e.heap.infos \subseteq Nat
  BY <1>1, Kinds10 DEF EngineOK
<1>3. cells \in Seq(DOMAIN e.heap.infos)
  <2>1. g \in DOMAIN e.heap.groups
    BY Kinds10, CellsOfSeq DEF EngineOK
  <2>2. GroupOK(e.heap, e.heap.groups[g])
    BY <2>1, Kinds10 DEF EngineOK, HeapOK, RecordOK
  <2> QED BY <1>1, <2>2 DEF IsInfoGroup, GroupOK, FileSets
<1>4. c \in Cells(infos)
  <2>1. 1 \in 1..Len(cells)
    BY <1>1, <1>3, LenProperties, EmptySeq
  <2>2. c \in Cells(cells)
    BY SMTT(30), <1>1, <1>3, <2>1, CellsOfSeq
  <2> QED BY <1>1, <2>2 DEF InfosHeld
<1>5. /\ n \in 0..(Len(infos) - 1) /\ n + 1 \in 1..Len(infos) /\ infos[n + 1] = c
      /\ Len(infos) \in Nat
  BY <1>1, <1>2, <1>4, PositionIsIndex, LenProperties
<1>6. infos[1] \in Nat
  <2>1. 1 \in 1..Len(infos)
    BY <1>5
  <2> QED BY <1>2, <2>1, ElementOfSeq
<1>7. c = infos[1] + (n + 1) - 1
  BY <1>1, <1>5 DEF InfosInSequence
<1>8. c - infos[1] = n
  BY <1>5, <1>6, <1>7
<1> QED
  BY <1>1, <1>5, <1>8 DEF Distance, Beginning

Follows(e, T, i) ==
  LET g == e.tables.groups[i] IN g \in T /\ e.heap.groups[g].files.cells # <<>>

\* n is the first distance of a group in T that is not 0.
IsFirstDistance(e, T, n) ==
  LET s == e.tables.groups
      apart == {i \in 1..Len(s) : Follows(e, T, i) /\ Distance(e, s[i]) # 0}
  IN n = IF apart = {} THEN 0 ELSE Distance(e, s[Min(apart)])

\* n is the first place of a group in T that is not 0.
IsFirstPlace(e, T, n) ==
  LET s == e.tables.groups
      before(m) == \A i \in 1..(m - 1) : Follows(e, T, i) => Beginning(e, s[i]) = 0
  IN \/ n = 0 /\ before(Len(s) + 1)
     \/ \E m \in 1..Len(s) : Follows(e, T, m) /\ n = Beginning(e, s[m]) /\ n # 0 /\ before(m)

LEMMA FirstOfGroups ==
  ASSUME NEW e, EngineOK(e), \A t \in TableNames : DOMAIN e.heap[t] \subseteq Nat,
         InfosHeld(e), InfosInSequence(e), NEW T, \A g \in T : IsInfoGroup(e, g),
         NEW n, IsFirstDistance(e, T, n)
  PROVE  IsFirstPlace(e, T, n)
<1>0. PICK s, Apart :
        /\ s = e.tables.groups
        /\ Apart = {i \in 1..Len(s) : Follows(e, T, i) /\ Distance(e, s[i]) # 0}
  OBVIOUS
<1>1. s \in Seq(DOMAIN e.heap.groups) /\ Len(s) \in Nat
  BY <1>0, Kinds10, LenProperties DEF EngineOK
<1>2. /\ n = IF Apart = {} THEN 0 ELSE Distance(e, s[Min(Apart)])
      /\ (Len(s) + 1) - 1 = Len(s)
  BY <1>0, <1>1 DEF IsFirstDistance
<1>3. ASSUME NEW i \in 1..Len(s), Follows(e, T, i)
      PROVE  Distance(e, s[i]) = Beginning(e, s[i])
  <2>1. s[i] \in Cells(s)
    BY <1>3 DEF Cells
  <2>2. IsInfoGroup(e, s[i]) /\ e.heap.groups[s[i]].files.cells # <<>>
    BY <1>0, <1>3 DEF Follows
  <2> QED BY <1>0, <2>1, <2>2, DistanceIsPlace
<1>4. \A i : i \in Apart <=> i \in 1..Len(s) /\ Follows(e, T, i) /\ Beginning(e, s[i]) # 0
  BY <1>0, <1>3
<1>5. CASE Apart = {}
  <2>1. \A i \in 1..Len(s) : Follows(e, T, i) => Beginning(e, s[i]) = 0
    BY <1>1, <1>4, <1>5
  <2> QED BY <1>0, <1>2, <1>5, <2>1 DEF IsFirstPlace
<1>6. CASE Apart # {}
  <2>1. PICK m : m = Min(Apart)
    OBVIOUS
  <2>2. m \in Apart /\ \A i \in Apart : m <= i
    <3>1. Apart \subseteq Nat
      <4>1. \A i \in 1..Len(s) : i \in Nat
        OBVIOUS
      <4> QED BY <1>4, <4>1
    <3> QED BY <1>6, <2>1, <3>1, MinIsLeast
  <2>3. m \in 1..Len(s) /\ Follows(e, T, m) /\ Beginning(e, s[m]) # 0
    BY <1>4, <2>2
  <2>4. \A i \in 1..(m - 1) : Follows(e, T, i) => Beginning(e, s[i]) = 0
    <3> SUFFICES ASSUME NEW i \in 1..(m - 1), Follows(e, T, i), Beginning(e, s[i]) # 0
                 PROVE  FALSE
      OBVIOUS
    <3>1. i \in 1..Len(s) /\ ~(m <= i)
      BY <1>1, <2>3
    <3> QED BY <1>4, <2>2, <3>1
  <2>5. n = Beginning(e, s[m])
    BY <1>2, <1>3, <1>6, <2>1, <2>3
  <2> QED BY <1>0, <2>3, <2>4, <2>5 DEF IsFirstPlace
<1> QED
  BY <1>5, <1>6

LEMMA StartsArePlaces ==
  ASSUME NEW e, EngineOK(e), \A t \in TableNames : DOMAIN e.heap[t] \subseteq Nat,
         InfosHeld(e), InfosInSequence(e)
  PROVE  /\ FirstBeginsAt(e, IsInfoGroup, InfoStart(e))
         /\ FirstBeginsAt(e, IsVersionGroup, VersionStart(e))
<1>1. PICK s : s = e.tables.groups
  OBVIOUS
<1>2. Len(s) \in Nat /\ (Len(s) + 1) - 1 = Len(s)
  BY SMTT(30), <1>1, Kinds10, LenProperties DEF EngineOK
<1>3. FirstBeginsAt(e, IsInfoGroup, InfoStart(e))
  <2>1. PICK T : T = {g \in Cells(s) : IsInfoGroup(e, g)}
    OBVIOUS
  <2>2. /\ \A i \in 1..Len(s) : s[i] \in T <=> IsInfoGroup(e, s[i])
        /\ \A g \in T : IsInfoGroup(e, g)
    BY <2>1 DEF Cells
  <2>3. \A i \in 1..Len(s) : Follows(e, T, i)
          <=> IsInfoGroup(e, s[i]) /\ e.heap.groups[s[i]].files.cells # <<>>
    BY <1>1, <2>2 DEF Follows
  <2>4. PICK n : n = InfoStart(e)
    BY SMTT(30)
  <2>5. IsFirstDistance(e, T, n)
    <3>1. {i \in 1..Len(s) : Follows(e, T, i) /\ Distance(e, s[i]) # 0}
            = {i \in 1..Len(s) : /\ IsInfoGroup(e, s[i])
                                 /\ e.heap.groups[s[i]].files.cells # <<>>
                                 /\ Distance(e, s[i]) # 0}
      BY <2>3
    <3> QED BY <1>1, <2>4, <3>1 DEF IsFirstDistance, InfoStart, PartStart
  <2>6. IsFirstPlace(e, T, n)
    BY <2>1, <2>2, <2>5, FirstOfGroups
  <2> QED BY <1>1, <1>2, <2>3, <2>4, <2>6 DEF IsFirstPlace, FirstBeginsAt
<1>4. FirstBeginsAt(e, IsVersionGroup, VersionStart(e))
  <2>1. PICK T : T = {g \in Cells(s) : IsVersionGroup(e, g)}
    OBVIOUS
  <2>2. /\ \A i \in 1..Len(s) : s[i] \in T <=> IsVersionGroup(e, s[i])
        /\ \A g \in T : IsInfoGroup(e, g)
    BY <2>1 DEF Cells, IsVersionGroup
  <2>3. \A i \in 1..Len(s) : Follows(e, T, i)
          <=> IsVersionGroup(e, s[i]) /\ e.heap.groups[s[i]].files.cells # <<>>
    BY <1>1, <2>2 DEF Follows
  <2>4. PICK n : n = VersionStart(e)
    OBVIOUS
  <2>5. IsFirstDistance(e, T, n)
    <3>1. {i \in 1..Len(s) : Follows(e, T, i) /\ Distance(e, s[i]) # 0}
            = {i \in 1..Len(s) : /\ IsVersionGroup(e, s[i])
                                 /\ e.heap.groups[s[i]].files.cells # <<>>
                                 /\ Distance(e, s[i]) # 0}
      BY <2>3
    <3> QED BY <1>1, <2>4, <3>1 DEF IsFirstDistance, VersionStart, PartStart
  <2>6. IsFirstPlace(e, T, n)
    BY <2>1, <2>2, <2>5, FirstOfGroups
  <2> QED BY <1>1, <1>2, <2>3, <2>4, <2>6 DEF IsFirstPlace, FirstBeginsAt
<1> QED
  BY <1>3, <1>4

LEMMA LatestIsPlace ==
  ASSUME NEW e, EngineOK(e), \A t \in TableNames : DOMAIN e.heap[t] \subseteq Nat,
         InfosHeld(e), InfosInSequence(e),
         NEW last, last = LastOf(e.tables.groups), e.tables.groups # <<>>,
         IsInfoGroup(e, last), e.heap.groups[last].files.cells # <<>>
  PROVE  Beginning(e, last) = VersionStart(e) + LatestFile(e)
<1>1. PICK s : s = e.tables.groups
  OBVIOUS
<1>2. s \in Seq(DOMAIN e.heap.groups) /\ \A i \in 1..Len(s) : s[i] \in Cells(s)
  BY <1>1, Kinds10, CellsOfSeq DEF EngineOK
<1>3. last \in Cells(s)
  BY <1>1, <1>2, CellsOfSeq DEF LastOf
<1>4. Distance(e, last) = Beginning(e, last) /\ Beginning(e, last) \in Nat
  BY <1>1, <1>3, DistanceIsPlace
<1>5. VersionStart(e) \in Nat
  <2>1. FirstBeginsAt(e, IsVersionGroup, VersionStart(e))
    BY SMTT(30), StartsArePlaces
  <2>2. \/ VersionStart(e) = 0
        \/ \E i \in 1..Len(s) :
             /\ IsVersionGroup(e, s[i]) /\ e.heap.groups[s[i]].files.cells # <<>>
             /\ VersionStart(e) = Beginning(e, s[i])
    BY ZenonT(40), <1>1, <2>1 DEF FirstBeginsAt
  <2>3. ASSUME NEW i \in 1..Len(s), IsVersionGroup(e, s[i]),
               e.heap.groups[s[i]].files.cells # <<>>
        PROVE  Beginning(e, s[i]) \in Nat
    BY <1>1, <1>2, <2>3, DistanceIsPlace DEF IsVersionGroup
  <2> QED BY <2>2, <2>3
<1> QED
  BY <1>4, <1>5 DEF LatestFile

\* With what the groups of the table hold, the invariant stays inductive.
THEOREM GroupsStayHeld == Spec => []GroupsHeld
<1>1. Init => TypeInvariant /\ SpansInvariant
  BY InitOK
<1>2. Init => GroupsHeld
  BY Kinds10, EmptySeq DEF Init, NoEngine, GroupsHeld, InfosHeld, Cells
<1>3. (TypeInvariant /\ SpansInvariant) /\ [Next]_vars => (TypeInvariant /\ SpansInvariant)'
  BY StepOK
<1>4. (TypeInvariant /\ SpansInvariant /\ GroupsHeld) /\ [Next]_vars => GroupsHeld'
  BY GroupsHeldStep
<1> QED
  BY <1>1, <1>2, <1>3, <1>4, PTL DEF Spec

\* Whatever is read, edited, reorganized and resolved again: if the infos of the
\* table have consecutive GUIDs, the differences of GUIDs that resolve takes are
\* the places of the infos where the info groups, the version groups and the
\* latest patch begin.
THEOREM OffsetsAreRight == Spec => []OffsetsArePositions
<1>1. TypeInvariant /\ GroupsHeld => OffsetsArePositions
  <2> SUFFICES ASSUME TypeInvariant, GroupsHeld, InfosInSequence(engine)
               PROVE  /\ FirstBeginsAt(engine, IsInfoGroup, InfoStart(engine))
                      /\ FirstBeginsAt(engine, IsVersionGroup, VersionStart(engine))
                      /\ \A last : /\ last = LastOf(engine.tables.groups)
                                    /\ engine.tables.groups # <<>>
                                    /\ IsInfoGroup(engine, last)
                                    /\ engine.heap.groups[last].files.cells # <<>>
                           => Beginning(engine, last)
                                = VersionStart(engine) + LatestFile(engine)
    BY DEF OffsetsArePositions, InfosInSequence
  <2>1. /\ EngineOK(engine) /\ \A t \in TableNames : DOMAIN engine.heap[t] \subseteq Nat
        /\ InfosHeld(engine)
    BY CountsOK DEF TypeInvariant, GroupsHeld
  <2> QED BY <2>1, StartsArePlaces, LatestIsPlace
<1> QED
  BY <1>1, InvariantHolds, GroupsStayHeld, PTL
=============================================================================
