--------------------------- MODULE StreamFsProofs ---------------------------
(***************************************************************************)
(* Proofs about StreamFs, for every number of locales and regions, every    *)
(* image that parses, every liberty of the client and every bound: the     *)
(* writer keeps sets consecutive, and a careful client's filesystem never   *)
(* panics and is a Document.                                               *)
(***************************************************************************)
EXTENDS StreamFsInvariant, StreamRefinement, TablesProofs

-----------------------------------------------------------------------------
(* Vectors. *)

\* Vec::remove and, for the rest of the vector, its cells are of the vector.
LEMMA RemoveAtIsSeq ==
  ASSUME NEW S, NEW s \in Seq(S), NEW i \in 1..Len(s)
  PROVE  RemoveAt(s, i) \in Seq(S)
<1>1. Len(s) \in Nat
  BY LenProperties
<1>2. SubSeq(s, 1, i - 1) \in Seq(S) /\ SubSeq(s, i + 1, Len(s)) \in Seq(S)
  <2>1. i - 1 \in Nat /\ i + 1 \in Nat /\ i + 1 >= 1 /\ i - 1 <= Len(s)
    BY <1>1
  <2> QED BY <1>1, <2>1, SubSeqIsSeq
<1> QED
  BY <1>2, ConcatProperties DEF RemoveAt

\* The cells a table reader makes.
LEMMA TableOfCells ==
  ASSUME NEW first \in Nat, NEW entries, NEW S, entries \in Seq(S), NEW n,
         n = Len(entries)
  PROVE  TableFrom(first, n) \in Seq(first..(first + n - 1))
<1>1. n \in Nat
  BY LenProperties
<1>2. \A i \in 1..n : first + i - 1 \in first..(first + n - 1)
  BY <1>1
<1>3. TableFrom(first, n) \in [1..n -> first..(first + n - 1)]
  BY <1>2 DEF TableFrom
<1> QED
  BY <1>1, <1>3, SeqDef

-----------------------------------------------------------------------------
(* Type correctness. *)

LEMMA ParsedFolder ==
  ASSUME NEW e, e.start \in Nat, e.count \in Nat
  PROVE  /\ ParseFolder(e) = [name |-> ParseFolder(e).name, paths |-> ParseFolder(e).paths]
         /\ ParseFolder(e).paths \in [is : {"range"}, start : Nat, end : Nat]
<1>1. HashKeyIndex(e.count) \in Nat /\ e.start + HashKeyIndex(e.count) \in Nat
  BY DEF HashKeyIndex
<1> QED
  BY <1>1 DEF ParseFolder, Span

LEMMA ParsedPath ==
  ASSUME NEW e, e.link \in Nat, e.flags \in {0, 1, 2}
  PROVE  /\ ParsePath(e) = [fullPath |-> ParsePath(e).fullPath, flags |-> ParsePath(e).flags,
                            links |-> ParsePath(e).links]
         /\ ParsePath(e).flags \in 0..2
         /\ ParsePath(e).links \in [is : {"range"}, start : Nat, end : Nat]
<1>1. HashKeyIndex(e.link) \in Nat /\ LinkCount(e.flags) \in Nat
  BY CountsOK DEF HashKeyIndex, LinkCount
<1>2. HashKeyIndex(e.link) + LinkCount(e.flags) \in Nat
  BY <1>1
<1> QED
  BY <1>1, <1>2 DEF ParsePath, Span

\* Nothing of the writer's is left when no push is under way.
LEMMA TypeInit == Init => TypeOK /\ TurnOK
<1> SUFFICES ASSUME Init PROVE TypeOK /\ TurnOK
  OBVIOUS
<1> USE DEF Init
<1>1. IsImage(disk)
  BY ImagesOK
<1>2. DOMAIN EmptyMap = {} /\ \A K, V : IsMap(EmptyMap, K, V) /\ EmptyMap \in [{} -> V]
  BY DEF EmptyMap, IsMap
<1>3. \A G : IsMaker(NewMaker, G)
  BY NewMakerOK
<1>4. \A S : <<>> \in Seq(S)
  BY EmptySeq
<1>5. guid \in 0..MaxGuid
  BY CountsOK
<1>6. /\ engine.folders = <<>> /\ engine.paths = <<>> /\ engine.links = <<>>
      /\ engine.metadatas = <<>> /\ engine.pathLookup = EmptyMap
      /\ engine = [t \in {"folders", "paths", "links", "metadatas", "pathLookup"} |-> engine[t]]
  BY DEF NoEngine
<1>7. /\ writer.folders = NewMaker /\ writer.paths = NewMaker
      /\ writer.links = NewMaker /\ writer.metadatas = NewMaker
      /\ writer = [t \in {"folders", "paths", "links", "metadatas"} |-> writer[t]]
  BY DEF NoWriter
<1>8. at \in [folder : Nat, path : Nat, link : Nat]
  BY DEF NoTurn
<1> QED
  BY <1>1, <1>2, <1>3, <1>4, <1>5, <1>6, <1>7, <1>8 DEF TypeOK, TurnOK

LEMMA TypeRead == TypeOK /\ TurnOK /\ Read => TypeOK'
<1> SUFFICES ASSUME TypeOK, TurnOK, Read PROVE TypeOK'
  OBVIOUS
<1>0. PICK nf, np, nl, nm :
        /\ nf = Len(disk.folders) /\ np = Len(disk.paths)
        /\ nl = Len(disk.links) /\ nm = Len(disk.metadatas)
  OBVIOUS
<1>1. /\ disk.folders \in Seq(Cells(disk.folders)) /\ disk.paths \in Seq(Cells(disk.paths))
      /\ disk.links \in Seq(Nat) /\ disk.metadatas \in Seq(Cells(disk.metadatas))
      /\ guid \in Nat
  BY DEF TypeOK, IsImage
<1>2. /\ nf \in Nat /\ np \in Nat /\ nl \in Nat /\ nm \in Nat
      /\ \A i \in 1..nl : disk.links[i] \in Nat
  BY <1>0, <1>1, LenProperties, ElementOfSeq
<1>3. /\ \A i \in 1..nf : disk.folders[i].start \in Nat /\ disk.folders[i].count \in Nat
      /\ \A i \in 1..np : disk.paths[i].link \in Nat /\ disk.paths[i].flags \in {0, 1, 2}
  BY <1>0 DEF TypeOK, IsImage, Read, Parsable, Cells
<1> DEFINE F == guid..(guid + nf - 1)
           p0 == guid + nf
           P == p0..(p0 + np - 1)
           l0 == p0 + np
           L == l0..(l0 + nl - 1)
           m0 == l0 + nl
           M == m0..(m0 + nm - 1)
<1>4. /\ folder' = [g \in F |-> ParseFolder(disk.folders[g - guid + 1])]
      /\ path' = [g \in P |-> ParsePath(disk.paths[g - p0 + 1])]
      /\ link' = [g \in L |-> Unresolved(disk.links[g - l0 + 1])]
      /\ metadata' = [g \in M |-> disk.metadatas[g - m0 + 1]]
      /\ guid' = m0 + nm /\ guid' <= MaxGuid
  BY <1>0 DEF Read, CellsFrom, ParseLink, ParseMetadata
<1>5. /\ engine'.folders = TableFrom(guid, nf) /\ engine'.paths = TableFrom(p0, np)
      /\ engine'.links = TableFrom(l0, nl) /\ engine'.metadatas = TableFrom(m0, nm)
      /\ engine'.pathLookup = LookupOf(disk.paths, p0, {})
      /\ engine' = [t \in {"folders", "paths", "links", "metadatas", "pathLookup"} |-> engine'[t]]
  BY <1>0 DEF Read
<1>6. p0 \in Nat /\ l0 \in Nat /\ m0 \in Nat
  BY <1>1, <1>2
<1>7. /\ engine'.folders \in Seq(F) /\ engine'.paths \in Seq(P)
      /\ engine'.links \in Seq(L) /\ engine'.metadatas \in Seq(M)
  <2>1. TableFrom(guid, nf) \in Seq(F)
    BY <1>0, <1>1, TableOfCells
  <2> HIDE DEF p0, l0, m0
  <2>2. TableFrom(p0, np) \in Seq(P)
    BY <1>0, <1>1, <1>6, TableOfCells
  <2>3. TableFrom(l0, nl) \in Seq(L)
    BY <1>0, <1>1, <1>6, TableOfCells
  <2>4. TableFrom(m0, nm) \in Seq(M)
    BY <1>0, <1>1, <1>6, TableOfCells
  <2> HIDE DEF F, P, L, M
  <2> QED BY <1>5, <2>1, <2>2, <2>3, <2>4
<1>8. IsMap(engine'.pathLookup, DOMAIN engine'.pathLookup, P)
  <2> HIDE DEF p0
  <2> DEFINE names == {disk.paths[i].fullPath : i \in 1..np}
  <2>1. \A r \in Cells(disk.paths) : r.fullPath \in names
    BY <1>0 DEF Cells
  <2> HIDE DEF names
  <2>2. IsMap(LookupOf(disk.paths, p0, {}), names, P)
    BY <1>0, <1>1, <1>6, <2>1, LookupIsMap
  <2> QED BY <1>5, <2>2 DEF IsMap
<1>9. /\ \A g \in F : g - guid + 1 \in 1..nf
      /\ \A g \in P : g - p0 + 1 \in 1..np
      /\ \A g \in L : g - l0 + 1 \in 1..nl
  BY <1>1, <1>2
<1> HIDE DEF F, P, L, M, p0, l0, m0
<1>10. DOMAIN folder' = F /\ DOMAIN path' = P /\ DOMAIN link' = L /\ DOMAIN metadata' = M
  BY <1>4
<1>11. \A f \in F : StreamFolder(folder[f])'
  <2> SUFFICES ASSUME NEW f \in F PROVE StreamFolder(folder[f])'
    OBVIOUS
  <2>1. PICK e : e = disk.folders[f - guid + 1] /\ e.start \in Nat /\ e.count \in Nat
    BY <1>3, <1>9
  <2>2. folder'[f] = ParseFolder(e)
    BY <1>4, <2>1
  <2>3. /\ ParseFolder(e) = [name |-> ParseFolder(e).name, paths |-> ParseFolder(e).paths]
        /\ ParseFolder(e).paths \in [is : {"range"}, start : Nat, end : Nat]
    BY <2>1, ParsedFolder
  <2> QED BY <2>2, <2>3 DEF StreamFolder, SpanSetOf
<1>12. \A p \in P : StreamPath(path[p])'
  <2> SUFFICES ASSUME NEW p \in P PROVE StreamPath(path[p])'
    OBVIOUS
  <2>1. PICK e : e = disk.paths[p - p0 + 1] /\ e.link \in Nat /\ e.flags \in {0, 1, 2}
    BY <1>3, <1>9
  <2>2. path'[p] = ParsePath(e)
    BY <1>4, <2>1
  <2>3. /\ ParsePath(e) = [fullPath |-> ParsePath(e).fullPath, flags |-> ParsePath(e).flags,
                           links |-> ParsePath(e).links]
        /\ ParsePath(e).flags \in 0..2
        /\ ParsePath(e).links \in [is : {"range"}, start : Nat, end : Nat]
    BY <2>1, ParsedPath
  <2> QED BY <2>2, <2>3 DEF StreamPath, SpanSetOf
<1>13. link' \in [DOMAIN link' -> ReferenceTo(DOMAIN metadata') \ {None}]
  <2>1. \A g \in L : Unresolved(disk.links[g - l0 + 1]) \in ReferenceTo(DOMAIN metadata') \ {None}
    BY <1>2, <1>9 DEF Unresolved, None, ReferenceTo
  <2> QED BY <1>4, <1>10, <2>1
<1>14. \A G : IsMaker(NewMaker, G)
  BY NewMakerOK
<1>15. guid' \in 0..MaxGuid
  BY <1>2, <1>4, <1>6, CountsOK
<1>16. /\ writer' = NoWriter /\ at' = at /\ disk' = disk /\ pc' = "idle"
       /\ writer' = [t \in {"folders", "paths", "links", "metadatas"} |-> writer'[t]]
       /\ writer'.folders = NewMaker /\ writer'.paths = NewMaker
       /\ writer'.links = NewMaker /\ writer'.metadatas = NewMaker
  BY DEF TurnOK, Read, writerVars, NoWriter
<1>17. at' \in [folder : Nat, path : Nat, link : Nat] /\ IsImage(disk')
  BY <1>16 DEF TypeOK
<1> QED
  BY <1>5, <1>7, <1>8, <1>10, <1>11, <1>12, <1>13, <1>14, <1>15, <1>16, <1>17 DEF TypeOK

\* A panic, or a reader out of step, keeps everything but the program counter.
LEMMA TypePanic ==
  TypeOK /\ (ReadGarbled \/ Panic) => TypeOK' /\ (pc' # "push" /\ pc' # "closed" => TurnOK')
<1> SUFFICES ASSUME TypeOK, ReadGarbled \/ Panic
             PROVE  TypeOK' /\ (pc' # "push" /\ pc' # "closed" => TurnOK')
  OBVIOUS
<1>1. /\ UNCHANGED <<folder, path, link, metadata, guid, engine, writer, at, disk>>
      /\ pc' \in {"panicked", "garbled"}
  BY DEF ReadGarbled, Panic, heapVars, writerVars
<1>2. TypeOK'
  BY <1>1 DEF TypeOK, StreamFolder, StreamPath
<1> QED
  BY <1>2 DEF TurnOK

\* A cell of the tables is a cell of the heap.
LEMMA EngineCells ==
  ASSUME TypeOK
  PROVE  /\ Cells(engine.folders) \subseteq DOMAIN folder
         /\ Cells(engine.paths) \subseteq DOMAIN path
         /\ Cells(engine.links) \subseteq DOMAIN link
         /\ Cells(engine.metadatas) \subseteq DOMAIN metadata
         /\ Len(engine.folders) \in Nat
         /\ \A i \in 1..Len(engine.folders) : engine.folders[i] \in DOMAIN folder
BY CellsOfSeq, LenProperties, ElementOfSeq DEF TypeOK

LEMMA TypeResolve == TypeOK /\ ResolveAll => TypeOK'
<1> SUFFICES ASSUME TypeOK, ResolveAll PROVE TypeOK'
  OBVIOUS
<1>1. /\ engine.paths \in Seq(DOMAIN path) /\ engine.links \in Seq(DOMAIN link)
      /\ engine.metadatas \in Seq(DOMAIN metadata)
      /\ \A f \in DOMAIN folder : StreamFolder(folder[f])
      /\ \A p \in DOMAIN path : StreamPath(path[p])
      /\ link \in [DOMAIN link -> ReferenceTo(DOMAIN metadata) \ {None}]
  BY DEF TypeOK
<1>2. /\ DOMAIN folder' = DOMAIN folder /\ DOMAIN path' = DOMAIN path
      /\ DOMAIN link' = DOMAIN link /\ metadata' = metadata
  BY DEF ResolveAll
<1>3. \A f \in DOMAIN folder' : StreamFolder(folder[f])'
  <2> SUFFICES ASSUME NEW f \in DOMAIN folder PROVE StreamFolder(folder[f])'
    BY <1>2
  <2>1. CASE f \in Cells(engine.folders)
    <3>1. folder'[f] = [folder[f] EXCEPT !.paths = ResolveSpan(@, engine.paths)]
      BY <2>1 DEF ResolveAll
    <3>2. SpanFits(folder[f].paths, engine.paths)
      BY <2>1 DEF ResolveAll, Resolvable
    <3>3. StreamFolder(folder[f])
      BY <1>1
    <3>4. ResolveSpan(folder[f].paths, engine.paths) \in SpanSetOf(DOMAIN path)
      BY <1>1, <3>2, <3>3, ResolveSpanType DEF StreamFolder
    <3>5. PICK n, s : folder[f] = [name |-> n, paths |-> s]
      BY <3>3 DEF StreamFolder
    <3>6. folder'[f] = [name |-> n, paths |-> ResolveSpan(folder[f].paths, engine.paths)]
      BY <3>1, <3>5
    <3> QED BY <1>2, <3>4, <3>6 DEF StreamFolder
  <2>2. CASE f \notin Cells(engine.folders)
    <3>1. folder'[f] = folder[f]
      BY <2>2 DEF ResolveAll
    <3> QED BY <1>1, <1>2, <3>1 DEF StreamFolder
  <2> QED BY <2>1, <2>2
<1>4. \A p \in DOMAIN path' : StreamPath(path[p])'
  <2> SUFFICES ASSUME NEW p \in DOMAIN path PROVE StreamPath(path[p])'
    BY <1>2
  <2>1. CASE p \in Cells(engine.paths)
    <3>1. path'[p] = [path[p] EXCEPT !.links = ResolveSpan(@, engine.links)]
      BY <2>1 DEF ResolveAll
    <3>2. SpanFits(path[p].links, engine.links)
      BY <2>1 DEF ResolveAll, Resolvable
    <3>3. StreamPath(path[p])
      BY <1>1
    <3>4. ResolveSpan(path[p].links, engine.links) \in SpanSetOf(DOMAIN link)
      BY <1>1, <3>2, <3>3, ResolveSpanType DEF StreamPath
    <3>5. PICK n, g, s : path[p] = [fullPath |-> n, flags |-> g, links |-> s] /\ g \in 0..2
      BY <3>3 DEF StreamPath
    <3>6. path'[p] = [fullPath |-> n, flags |-> g,
                      links |-> ResolveSpan(path[p].links, engine.links)]
      BY <3>1, <3>5
    <3> QED BY <1>2, <3>4, <3>5, <3>6 DEF StreamPath
  <2>2. CASE p \notin Cells(engine.paths)
    <3>1. path'[p] = path[p]
      BY <2>2 DEF ResolveAll
    <3> QED BY <1>1, <1>2, <3>1 DEF StreamPath
  <2> QED BY <2>1, <2>2
<1>5. link' \in [DOMAIN link' -> ReferenceTo(DOMAIN metadata') \ {None}]
  <2>1. ASSUME NEW l \in Cells(engine.links), l \in DOMAIN link
        PROVE  Resolve(link[l], engine.metadatas) \in ReferenceTo(DOMAIN metadata) \ {None}
    <3>1. link[l] \in ReferenceTo(DOMAIN metadata) \ {None}
      BY <1>1, <2>1
    <3>2. CASE IsUnresolved(link[l])
      <4>1. link[l].index \in Nat
        BY <3>1, <3>2 DEF ReferenceTo, IsUnresolved, None
      <4>2. link[l].index < Len(engine.metadatas)
        BY <3>2 DEF ResolveAll, Resolvable, InBounds
      <4>3. Len(engine.metadatas) \in Nat
        BY <1>1, LenProperties
      <4>4. link[l].index + 1 \in 1..Len(engine.metadatas)
        BY <4>1, <4>2, <4>3
      <4>5. engine.metadatas[link[l].index + 1] \in DOMAIN metadata
        BY <1>1, <4>4, ElementOfSeq
      <4> QED BY <3>2, <4>5 DEF Resolve, Resolved, CellAt, ReferenceTo, None
    <3>3. CASE ~IsUnresolved(link[l])
      BY <3>1, <3>3 DEF Resolve
    <3> QED BY <3>2, <3>3
  <2>2. link' = [l \in DOMAIN link |->
                   IF l \in Cells(engine.links)
                     THEN Resolve(link[l], engine.metadatas) ELSE link[l]]
    BY DEF ResolveAll
  <2> QED BY <1>1, <1>2, <2>1, <2>2
<1>6. UNCHANGED <<guid, engine, writer, at, disk, pc>>
  BY DEF ResolveAll, writerVars
<1> QED
  BY <1>2, <1>3, <1>4, <1>5, <1>6 DEF TypeOK

\* What a client does to the records keeps the tables.
LEMMA TypeEdited ==
  ASSUME TypeOK, UNCHANGED <<engine, writer, at, disk, pc>>, guid' \in 0..MaxGuid,
         DOMAIN folder' = DOMAIN folder, DOMAIN path' = DOMAIN path,
         DOMAIN link' = DOMAIN link, DOMAIN metadata \subseteq DOMAIN metadata',
         \A f \in DOMAIN folder : StreamFolder(folder[f])',
         \A p \in DOMAIN path : StreamPath(path[p])',
         link' \in [DOMAIN link -> ReferenceTo(DOMAIN metadata') \ {None}]
  PROVE  TypeOK'
<1>1. /\ engine.metadatas \in Seq(DOMAIN metadata')
      /\ IsMaker(writer.metadatas, DOMAIN metadata')
  BY LargerHeap DEF TypeOK
<1> QED
  BY <1>1 DEF TypeOK

\* A folder with another vector of paths.
LEMMA FolderWith ==
  ASSUME TypeOK, NEW f \in DOMAIN folder, NEW cells \in Seq(DOMAIN path),
         NEW r, r = [folder[f] EXCEPT !.paths = Set(cells)], path' = path
  PROVE  StreamFolder(r)'
<1>1. StreamFolder(folder[f])
  BY DEF TypeOK
<1>2. PICK n, s : folder[f] = [name |-> n, paths |-> s]
  BY <1>1 DEF StreamFolder
<1>3. r = [name |-> n, paths |-> Set(cells)]
  BY <1>2
<1>4. Set(cells) \in SpanSetOf(DOMAIN path')
  BY DEF Set, SpanSetOf
<1> QED
  BY <1>3, <1>4 DEF StreamFolder

\* A path with other links and flags.
LEMMA PathWith ==
  ASSUME TypeOK, NEW p \in DOMAIN path, NEW flags \in 0..2,
         NEW links \in SpanSetOf(DOMAIN link),
         NEW r, r = [path[p] EXCEPT !.links = links, !.flags = flags], link' = link
  PROVE  StreamPath(r)'
<1>1. StreamPath(path[p])
  BY DEF TypeOK
<1>2. PICK n, g, s : path[p] = [fullPath |-> n, flags |-> g, links |-> s]
  BY <1>1 DEF StreamPath
<1>3. r = [fullPath |-> n, flags |-> flags, links |-> links]
  <2>1. [path[p] EXCEPT !.links = links] = [fullPath |-> n, flags |-> g, links |-> links]
    BY <1>2
  <2>2. r = [[path[p] EXCEPT !.links = links] EXCEPT !.flags = flags]
    OBVIOUS
  <2> QED BY <2>1, <2>2
<1> QED
  BY <1>3 DEF StreamPath

\* The cells of a set that is resolved.
LEMMA SetCells ==
  ASSUME TypeOK
  PROVE  /\ \A f \in DOMAIN folder : IsSet(folder[f].paths) =>
              folder[f].paths.cells \in Seq(DOMAIN path)
         /\ \A p \in DOMAIN path : IsSet(path[p].links) =>
              path[p].links.cells \in Seq(DOMAIN link)
BY DEF TypeOK, StreamFolder, StreamPath, SpanSetOf, IsSet

LEMMA TypeUntouched ==
  ASSUME TypeOK
  PROVE  /\ path' = path => \A f \in DOMAIN folder : folder'[f] = folder[f] => StreamFolder(folder[f])'
         /\ link' = link => \A p \in DOMAIN path : path'[p] = path[p] => StreamPath(path[p])'
         /\ DOMAIN link' = DOMAIN link =>
              \A p \in DOMAIN path : path'[p] = path[p] => StreamPath(path[p])'
BY DEF TypeOK, StreamFolder, StreamPath

LEMMA TypeLinks ==
  ASSUME TypeOK, NEW l \in Cells(engine.links), NEW data,
         \/ \E m \in Cells(engine.metadatas) : SetMetadata(l, m)
         \/ SetNewMetadata(l, data)
         \/ ChangeMetadata(l, data)
  PROVE  TypeOK'
<1>1. /\ UNCHANGED <<folder, path, engine, writer, at, disk, pc>>
      /\ DOMAIN link' = DOMAIN link /\ DOMAIN metadata \subseteq DOMAIN metadata'
      /\ guid' \in 0..MaxGuid
  BY CountsOK DEF TypeOK, SetMetadata, SetNewMetadata, ChangeMetadata, Insert, writerVars
<1>2. l \in DOMAIN link
  BY EngineCells
<1>3. link' = link \/ \E m \in DOMAIN metadata' : link' = [link EXCEPT ![l] = Resolved(m)]
  <2>1. Cells(engine.metadatas) \subseteq DOMAIN metadata
    BY EngineCells
  <2> QED BY <1>1, <2>1 DEF SetMetadata, SetNewMetadata, ChangeMetadata, Insert
<1>4. link' \in [DOMAIN link -> ReferenceTo(DOMAIN metadata') \ {None}]
  <2>1. link \in [DOMAIN link -> ReferenceTo(DOMAIN metadata') \ {None}]
    BY <1>1 DEF TypeOK, ReferenceTo
  <2>2. \A m \in DOMAIN metadata' : Resolved(m) \in ReferenceTo(DOMAIN metadata') \ {None}
    BY DEF Resolved, ReferenceTo, None
  <2> QED BY <1>3, <2>1, <2>2
<1>5. /\ \A f \in DOMAIN folder : StreamFolder(folder[f])'
      /\ \A p \in DOMAIN path : StreamPath(path[p])'
  BY <1>1, TypeUntouched
<1> QED
  BY <1>1, <1>4, <1>5, TypeEdited

LEMMA TypePaths ==
  ASSUME TypeOK, NEW p \in Cells(engine.paths),
         \/ \E n \in 0..Locales, flags \in 0..2 : Relink(p, n, flags)
         \/ \E q \in Cells(engine.paths) : Borrow(p, q)
  PROVE  TypeOK'
<1>1. UNCHANGED <<folder, link, metadata, guid, engine, writer, at, disk, pc>> /\ Settled
  BY DEF Relink, Borrow, writerVars
<1>2. p \in DOMAIN path
  BY EngineCells
<1>3. \E flags \in 0..2, links \in SpanSetOf(DOMAIN link) :
        path' = [path EXCEPT ![p] = [path[p] EXCEPT !.links = links, !.flags = flags]]
  <2>1. ASSUME NEW n \in 0..Locales, NEW flags \in 0..2, Relink(p, n, flags)
        PROVE  \E links \in SpanSetOf(DOMAIN link) :
                 path' = [path EXCEPT ![p] = [path[p] EXCEPT !.links = links, !.flags = flags]]
    <3>1. path[p].links.cells \in Seq(DOMAIN link) /\ n <= Len(path[p].links.cells) /\ n \in Nat
      <4>1. IsSet(path[p].links) /\ n <= Len(path[p].links.cells)
        BY <2>1 DEF Settled, Relink
      <4> QED BY <1>2, <4>1, SetCells, CountsOK
    <3>2. SubSeq(path[p].links.cells, 1, n) \in Seq(DOMAIN link)
      BY <3>1, SubSeqIsSeq
    <3>3. Set(SubSeq(path[p].links.cells, 1, n)) \in SpanSetOf(DOMAIN link)
      BY <3>2 DEF Set, SpanSetOf
    <3>4. StreamPath(path[p])
      BY <1>2 DEF TypeOK
    <3>5. path' = [path EXCEPT ![p].links = Set(SubSeq(@.cells, 1, n)), ![p].flags = flags]
      BY <2>1 DEF Relink
    <3>6. path' = [path EXCEPT ![p] = [path[p] EXCEPT !.links = Set(SubSeq(path[p].links.cells, 1, n)),
                                                      !.flags = flags]]
      BY <1>2, <3>4, <3>5 DEF StreamPath
    <3> QED BY <3>3, <3>6
  <2>2. ASSUME NEW q \in Cells(engine.paths), Borrow(p, q)
        PROVE  path' = [path EXCEPT ![p] = [path[p] EXCEPT !.links = path[q].links,
                                                           !.flags = path[q].flags]]
               /\ path[q].links \in SpanSetOf(DOMAIN link) /\ path[q].flags \in 0..2
    <3>1. q \in DOMAIN path
      BY EngineCells
    <3>2. StreamPath(path[p]) /\ StreamPath(path[q])
      BY <1>2, <3>1 DEF TypeOK
    <3>3. path' = [path EXCEPT ![p].links = path[q].links, ![p].flags = path[q].flags]
      BY <2>2 DEF Borrow
    <3> QED BY <1>2, <3>2, <3>3 DEF StreamPath
  <2> QED BY <2>1, <2>2
<1>4. PICK flags \in 0..2, links \in SpanSetOf(DOMAIN link) :
        path' = [path EXCEPT ![p] = [path[p] EXCEPT !.links = links, !.flags = flags]]
  BY <1>3
<1>5. DOMAIN path' = DOMAIN path
  BY <1>4
<1>6. ASSUME NEW q \in DOMAIN path PROVE StreamPath(path[q])'
  <2>1. CASE q = p
    BY <1>1, <1>2, <1>4, <2>1, PathWith
  <2>2. CASE q # p
    BY <1>1, <1>4, <2>2, TypeUntouched
  <2> QED BY <2>1, <2>2
<1>7. \A f \in DOMAIN folder : StreamFolder(folder[f])'
  BY <1>1, <1>5 DEF TypeOK, StreamFolder
<1>8. guid' \in 0..MaxGuid /\ link' \in [DOMAIN link -> ReferenceTo(DOMAIN metadata') \ {None}]
  BY <1>1 DEF TypeOK
<1> QED
  BY <1>1, <1>5, <1>6, <1>7, <1>8, TypeEdited

LEMMA TypeFolders ==
  ASSUME TypeOK, NEW f \in Cells(engine.folders),
         Drop(f) \/ \E g \in Cells(engine.folders) : Move(f, g)
  PROVE  TypeOK'
<1>1. UNCHANGED <<path, link, metadata, guid, engine, writer, at, disk, pc>> /\ Settled
  BY DEF Drop, Move, writerVars
<1>2. f \in DOMAIN folder /\ folder[f].paths.cells \in Seq(DOMAIN path)
  BY <1>1, EngineCells, SetCells DEF Settled
<1> DEFINE cells == folder[f].paths.cells
<1>3. \A i \in 1..Len(cells) : RemoveAt(cells, i) \in Seq(DOMAIN path)
  BY <1>2, RemoveAtIsSeq
<1>4. \A x \in DOMAIN folder : \A s \in Seq(DOMAIN path) : \A r :
        r = [folder[x] EXCEPT !.paths = Set(s)] => StreamFolder(r)'
  BY <1>1, FolderWith
<1>5. CASE Drop(f)
  <2>1. PICK i \in 1..Len(cells) : folder' = [folder EXCEPT ![f].paths = Set(RemoveAt(cells, i))]
    BY <1>5 DEF Drop
  <2>2. DOMAIN folder' = DOMAIN folder
    BY <2>1
  <2>3. ASSUME NEW x \in DOMAIN folder PROVE StreamFolder(folder[x])'
    <3>1. CASE x = f
      <4>1. folder'[x] = [folder[x] EXCEPT !.paths = Set(RemoveAt(cells, i))]
        BY <1>2, <2>1, <3>1
      <4> QED BY <1>3, <1>4, <4>1 DEF StreamFolder
    <3>2. CASE x # f
      BY <1>1, <2>1, <3>2, TypeUntouched
    <3> QED BY <3>1, <3>2
  <2>4. /\ \A p \in DOMAIN path : StreamPath(path[p])'
        /\ guid' \in 0..MaxGuid /\ link' \in [DOMAIN link -> ReferenceTo(DOMAIN metadata') \ {None}]
    BY <1>1 DEF TypeOK, StreamPath
  <2> QED BY <1>1, <2>2, <2>3, <2>4, TypeEdited
<1>6. ASSUME NEW g \in Cells(engine.folders), Move(f, g) PROVE TypeOK'
  <2>1. PICK i \in 1..Len(cells) :
          folder' = [folder EXCEPT ![f].paths = Set(RemoveAt(cells, i)),
                                   ![g].paths = Set(Append(@.cells, cells[i]))]
    BY <1>6 DEF Move
  <2>2. DOMAIN folder' = DOMAIN folder /\ f # g
    BY <1>6, <2>1 DEF Move
  <2>3. g \in DOMAIN folder /\ folder[g].paths.cells \in Seq(DOMAIN path)
    BY <1>1, EngineCells, SetCells DEF Settled
  <2>4. Append(folder[g].paths.cells, cells[i]) \in Seq(DOMAIN path)
    <3>1. cells[i] \in DOMAIN path
      BY <1>2, ElementOfSeq
    <3> QED BY <2>3, <3>1, AppendElement
  <2>5. ASSUME NEW x \in DOMAIN folder PROVE StreamFolder(folder[x])'
    <3>1. CASE x = f
      <4>1. folder'[x] = [folder[x] EXCEPT !.paths = Set(RemoveAt(cells, i))]
        BY <1>2, <2>1, <2>2, <3>1
      <4> QED BY <1>3, <1>4, <4>1 DEF StreamFolder
    <3>2. CASE x = g
      <4>1. folder'[x] = [folder[x] EXCEPT !.paths = Set(Append(folder[g].paths.cells, cells[i]))]
        BY <2>1, <2>2, <2>3, <3>2
      <4> QED BY <1>4, <2>4, <4>1 DEF StreamFolder
    <3>3. CASE x # f /\ x # g
      BY <1>1, <2>1, <3>3, TypeUntouched
    <3> QED BY <3>1, <3>2, <3>3
  <2>6. /\ \A p \in DOMAIN path : StreamPath(path[p])'
        /\ guid' \in 0..MaxGuid /\ link' \in [DOMAIN link -> ReferenceTo(DOMAIN metadata') \ {None}]
    BY <1>1 DEF TypeOK, StreamPath
  <2> QED BY <1>1, <2>2, <2>5, <2>6, TypeEdited
<1> QED
  BY <1>5, <1>6

\* An edit is made while no push is under way.
LEMMA TypeEdit == TypeOK /\ Edit => TypeOK' /\ TurnOK'
<1> SUFFICES ASSUME TypeOK, Edit PROVE TypeOK' /\ TurnOK'
  OBVIOUS
<1>1. pc = "idle"
  BY DEF Edit
<1>2. ASSUME NEW l \in Cells(engine.links),
             \/ \E m \in Cells(engine.metadatas) : SetMetadata(l, m)
             \/ \E data \in NewData : SetNewMetadata(l, data) \/ ChangeMetadata(l, data)
      PROVE  TypeOK' /\ pc' = pc
  <2>1. TypeOK'
    BY <1>2, TypeLinks
  <2> QED BY <1>2, <2>1 DEF SetMetadata, SetNewMetadata, ChangeMetadata
<1>3. ASSUME NEW p \in Cells(engine.paths),
             \/ \E n \in 0..Locales, flags \in 0..2 : Relink(p, n, flags)
             \/ \E q \in Cells(engine.paths) : Borrow(p, q)
      PROVE  TypeOK' /\ pc' = pc
  <2>1. TypeOK'
    BY <1>3, TypePaths
  <2> QED BY <1>3, <2>1 DEF Relink, Borrow
<1>4. ASSUME NEW f \in Cells(engine.folders),
             Drop(f) \/ \E g \in Cells(engine.folders) : Move(f, g)
      PROVE  TypeOK' /\ pc' = pc
  <2>1. TypeOK'
    BY <1>4, TypeFolders
  <2> QED BY <1>4, <2>1 DEF Drop, Move
<1>5. TypeOK' /\ pc' = pc
  BY <1>2, <1>3, <1>4 DEF Edit
<1> QED
  BY <1>1, <1>5 DEF TurnOK

\* A writer's table has only cells of the heap, and a step of the writer changes
\* nothing else.
LEMMA TypePushed ==
  ASSUME TypeOK, UNCHANGED <<folder, path, link, metadata, guid, engine, disk>>,
         writer' = [t \in {"folders", "paths", "links", "metadatas"} |-> writer'[t]],
         IsMaker(writer'.folders, DOMAIN folder), IsMaker(writer'.paths, DOMAIN path),
         IsMaker(writer'.links, DOMAIN link), IsMaker(writer'.metadatas, DOMAIN metadata),
         at' \in [folder : Nat, path : Nat, link : Nat],
         pc' \in {"closed", "idle", "push", "panicked", "garbled"}
  PROVE  TypeOK'
BY DEF TypeOK, StreamFolder, StreamPath

-----------------------------------------------------------------------------
(* What a push does to a set that is in a table, or on its way into it. *)

\* TableMaker::push puts the next cell of a set behind the last.
LEMMA TailPushed ==
  ASSUME NEW G, NEW maker, IsMaker(maker, G), NEW cell \in G,
         NEW H, NEW cells \in Seq(H), NEW n \in Nat, n < Len(cells),
         cells[n + 1] = cell, IsTail(cells, n, maker.table)
  PROVE  IsTail(cells, n + 1, PushCell(maker, cell).table)
<1> DEFINE t == maker.table
           u == Append(t, cell)
<1>1. t \in Seq(G) /\ Len(t) \in Nat /\ Len(cells) \in Nat
  BY LenProperties DEF IsMaker
<1>2. Len(u) = Len(t) + 1 /\ u[Len(t) + 1] = cell /\ \A i \in 1..Len(t) : u[i] = t[i]
  BY <1>1, AppendElement
<1>3. PushCell(maker, cell).table = u
  BY DEF PushCell
<1>4. n <= Len(t) /\ \A i \in 1..n : t[Len(t) - n + i] = cells[i]
  BY DEF IsTail
<1> HIDE DEF t, u
<1>5. ASSUME NEW i \in 1..(n + 1) PROVE u[Len(u) - (n + 1) + i] = cells[i]
  <2>1. CASE i = n + 1
    BY <1>1, <1>2, <2>1
  <2>2. CASE i # n + 1
    <3>1. i \in 1..n /\ Len(t) - n + i \in 1..Len(t) /\ Len(u) - (n + 1) + i = Len(t) - n + i
      BY <1>1, <1>2, <1>4, <2>2
    <3> QED BY <1>2, <1>4, <3>1
  <2> QED BY <2>1, <2>2
<1>6. n + 1 <= Len(cells) /\ n + 1 <= Len(u)
  BY <1>1, <1>2, <1>4
<1>7. IsTail(cells, n + 1, u)
  BY <1>5, <1>6 DEF IsTail
<1> QED
  BY <1>3, <1>7

LEMMA TailOfNone ==
  ASSUME NEW G, NEW maker, IsMaker(maker, G), NEW H, NEW cells \in Seq(H)
  PROVE  IsTail(cells, 0, maker.table)
<1>1. Len(maker.table) \in Nat /\ Len(cells) \in Nat
  BY LenProperties DEF IsMaker
<1> QED
  BY <1>1 DEF IsTail

\* A set that is all at the end of the table is consecutive.
LEMMA TailIsConsecutive ==
  ASSUME NEW G, NEW maker, IsMaker(maker, G), MakerOK(maker),
         NEW H, NEW cells \in Seq(H), IsTail(cells, Len(cells), maker.table)
  PROVE  Consecutive(cells, maker)
<1>0. PICK t, n, z : t = maker.table /\ n = Len(cells) /\ z = Len(t)
  OBVIOUS
<1>1. z \in Nat /\ n \in Nat
  BY <1>0, LenProperties DEF IsMaker
<1>2. n <= z /\ \A i \in 1..n : t[z - n + i] = cells[i]
  BY <1>0 DEF IsTail
<1>3. /\ DOMAIN maker.index = Cells(t)
      /\ \A i \in 1..z : t[i] \in Cells(t) /\ maker.index[t[i]] = i - 1
  BY <1>0 DEF MakerOK, Cells
<1>4. ASSUME NEW i \in 1..n
      PROVE  cells[i] \in DOMAIN maker.index /\ maker.index[cells[i]] = z - n + i - 1
  <2>1. PICK h : h = z - n + i
    OBVIOUS
  <2>2. h \in 1..z /\ t[h] = cells[i]
    BY <1>1, <1>2, <2>1
  <2>3. t[h] \in Cells(t) /\ maker.index[t[h]] = h - 1
    BY <1>3, <2>2
  <2>4. cells[i] \in DOMAIN maker.index /\ maker.index[cells[i]] = h - 1
    BY <1>3, <2>2, <2>3, Zenon
  <2>5. h - 1 = z - n + i - 1
    BY <1>1, <2>1
  <2> QED BY <2>4, <2>5, Zenon
<1>5. ASSUME NEW i \in 1..n
      PROVE  maker.index[cells[i]] = maker.index[cells[1]] + i - 1
  <2>1. 1 \in 1..n
    BY <1>1
  <2>2. maker.index[cells[1]] = z - n + 1 - 1 /\ maker.index[cells[i]] = z - n + i - 1
    BY <1>4, <2>1
  <2> QED BY <1>1, <2>2
<1> QED
  BY <1>0, <1>4, <1>5 DEF Consecutive, HasCell, GetIndex

\* It stays so, whatever is pushed after it.
LEMMA ConsecutivePushed ==
  ASSUME NEW G, NEW maker, IsMaker(maker, G), NEW cell \in G, ~HasCell(maker, cell),
         NEW H, NEW cells \in Seq(H), Consecutive(cells, maker)
  PROVE  Consecutive(cells, PushCell(maker, cell))
<1>0. PICK index, ins : index = maker.index /\ ins = PushCell(maker, cell).index
  OBVIOUS
<1>1. /\ DOMAIN ins = DOMAIN index \cup {cell}
      /\ \A x \in DOMAIN index : ins[x] = index[x]
  BY <1>0 DEF PushCell, Insert, HasCell
<1>2. Len(cells) \in Nat
  BY LenProperties
<1>3. ASSUME NEW i \in 1..Len(cells)
      PROVE  cells[i] \in DOMAIN ins /\ ins[cells[i]] = ins[cells[1]] + i - 1
  <2>1. 1 \in 1..Len(cells)
    BY <1>2
  <2>2. cells[i] \in DOMAIN index /\ cells[1] \in DOMAIN index
        /\ index[cells[i]] = index[cells[1]] + i - 1
    BY <1>0, <2>1 DEF Consecutive, HasCell, GetIndex
  <2> QED BY <1>1, <2>2
<1> QED
  BY <1>0, <1>3 DEF Consecutive, HasCell, GetIndex

-----------------------------------------------------------------------------
(* One turn of the writer after the other. *)

\* The tables of a writer, and what its turns are of.
LEMMA TurnTypes ==
  ASSUME TypeOK, TurnOK, pc = "push"
  PROVE  /\ IsMaker(writer.folders, DOMAIN folder) /\ MakerOK(writer.folders)
         /\ IsMaker(writer.paths, DOMAIN path) /\ MakerOK(writer.paths)
         /\ IsMaker(writer.links, DOMAIN link) /\ MakerOK(writer.links)
         /\ IsMaker(writer.metadatas, DOMAIN metadata) /\ MakerOK(writer.metadatas)
         /\ FolderTurn /\ PathTurn /\ LinkTurn
         /\ at.folder \in Nat /\ at.path \in Nat /\ at.link \in Nat
         /\ Len(engine.folders) \in Nat
         /\ \A i \in 1..Len(engine.folders) : engine.folders[i] \in DOMAIN folder
BY EngineCells DEF TypeOK, TurnOK

\* The folder of the turn, once it is pushed, and its paths.
LEMMA FolderHere ==
  ASSUME TypeOK, TurnOK, pc = "push", at.path >= 1
  PROVE  /\ at.folder \in 1..Len(engine.folders)
         /\ engine.folders[at.folder] \in DOMAIN folder
         /\ PathsHere \in Seq(DOMAIN path) /\ Len(PathsHere) \in Nat
         /\ \A i \in 1..Len(PathsHere) : PathsHere[i] \in DOMAIN path
<1>1. at.folder \in 1..Len(engine.folders)
  BY TurnTypes DEF FolderTurn
<1>2. PICK f : f = engine.folders[at.folder] /\ f \in DOMAIN folder
  BY <1>1, TurnTypes
<1>3. IsSet(folder[f].paths)
  <2>1. f \in Cells(writer.folders.table)
    BY <1>1, <1>2, TurnTypes DEF FolderTurn
  <2> QED BY <2>1, TurnTypes DEF FolderTurn
<1>4. PathsHere = folder[f].paths.cells
  BY <1>2 DEF PathsHere
<1>5. PathsHere \in Seq(DOMAIN path)
  BY <1>2, <1>3, <1>4, SetCells
<1> QED
  BY <1>1, <1>2, <1>5, LenProperties, ElementOfSeq

\* The path of the turn, once it is pushed, is the last of the table.
LEMMA PathHere ==
  ASSUME TypeOK, TurnOK, pc = "push", at.link >= 1
  PROVE  /\ at.path \in 1..Len(PathsHere)
         /\ PathsHere[at.path] \in DOMAIN path
         /\ Len(writer.paths.table) \in 1..Len(writer.paths.table)
         /\ writer.paths.table[Len(writer.paths.table)] = PathsHere[at.path]
         /\ LinksHere \in Seq(DOMAIN link) /\ Len(LinksHere) \in Nat
         /\ \A i \in 1..Len(LinksHere) : LinksHere[i] \in DOMAIN link
<1>1. at.path \in 1..Len(PathsHere)
  BY TurnTypes DEF FolderTurn
<1>2. /\ Len(writer.paths.table) \in Nat /\ at.path \in Nat
      /\ IsTail(PathsHere, at.path, writer.paths.table)
  BY <1>1, TurnTypes, LenProperties DEF PathTurn, IsMaker
<1>3. PICK p, n, h : p = PathsHere[at.path] /\ n = Len(writer.paths.table) /\ h = at.path
  OBVIOUS
<1>4. n \in 1..n /\ n - h + h = n
  BY <1>1, <1>2, <1>3 DEF IsTail
<1>5. writer.paths.table[n] = p
  <2>1. h \in 1..h /\ \A i \in 1..h : writer.paths.table[n - h + i] = PathsHere[i]
    BY <1>1, <1>2, <1>3 DEF IsTail
  <2>2. writer.paths.table[n - h + h] = PathsHere[h]
    BY <2>1
  <2> QED BY <1>3, <1>4, <2>2
<1>6. p \in DOMAIN path
  BY <1>1, <1>3, FolderHere
<1>7. IsSet(path[p].links)
  <2>1. p \in Cells(writer.paths.table)
    BY <1>3, <1>4, <1>5 DEF Cells
  <2> QED BY <2>1, TurnTypes DEF PathTurn
<1>8. LinksHere = path[p].links.cells
  BY <1>3 DEF LinksHere
<1>9. LinksHere \in Seq(DOMAIN link)
  BY <1>6, <1>7, <1>8, SetCells
<1> QED
  BY <1>1, <1>3, <1>4, <1>5, <1>6, <1>9, LenProperties, ElementOfSeq

LEMMA TurnPushFolder ==
  TypeOK /\ TurnOK /\ PushFolder => TypeOK' /\ TurnOK'
<1> SUFFICES ASSUME TypeOK, TurnOK, PushFolder PROVE TypeOK' /\ TurnOK'
  OBVIOUS
<1>1. pc = "push" /\ at.folder <= Len(engine.folders) /\ at.path = 0
  BY DEF PushFolder, Pushing
<1>2. at.folder \in 1..Len(engine.folders) /\ at.link = 0
  BY <1>1, TurnTypes DEF FolderTurn
<1>3. PICK f : f = engine.folders[at.folder] /\ f \in DOMAIN folder
  BY <1>1, <1>2, TurnTypes
<1>4. CASE Panic
  BY <1>4, TypePanic DEF Panic
<1>5. ASSUME ~HasCell(writer.folders, f), IsSet(folder[f].paths),
             writer' = [writer EXCEPT !.folders = PushCell(@, f)],
             at' = [at EXCEPT !.path = 1],
             UNCHANGED <<heapVars, engine, target, disk, edits, pc>>
      PROVE  TypeOK' /\ TurnOK'
  <2>1. /\ UNCHANGED <<folder, path, link, metadata, guid, engine, disk, pc>>
        /\ writer'.folders = PushCell(writer.folders, f)
        /\ writer'.paths = writer.paths /\ writer'.links = writer.links
        /\ writer'.metadatas = writer.metadatas
        /\ writer' = [t \in {"folders", "paths", "links", "metadatas"} |-> writer'[t]]
    BY <1>5 DEF TypeOK, heapVars
  <2>2. /\ at' \in [folder : Nat, path : Nat, link : Nat]
        /\ at'.folder = at.folder /\ at'.path = 1 /\ at'.link = 0
    BY <1>2, <1>5 DEF TypeOK
  <2>3. /\ IsMaker(writer'.folders, DOMAIN folder) /\ MakerOK(writer'.folders)
        /\ Cells(writer'.folders.table) = Cells(writer.folders.table) \cup {f}
    <3>1. IsMaker(writer.folders, DOMAIN folder) /\ MakerOK(writer.folders)
      BY <1>1, TurnTypes
    <3>2. /\ IsMaker(PushCell(writer.folders, f), DOMAIN folder)
          /\ MakerOK(PushCell(writer.folders, f))
          /\ Cells(PushCell(writer.folders, f).table) = Cells(writer.folders.table) \cup {f}
      BY <1>3, <1>5, <3>1, PushKeepsIndex
    <3> QED BY <2>1, <3>2
  <2>4. TypeOK'
    BY <1>1, <2>1, <2>2, <2>3, TurnTypes, TypePushed
  <2>5. FolderTurn'
    <3>1. Cells(writer.folders.table) =
            {engine.folders[i] : i \in {h \in 1..Len(engine.folders) :
               h < at.folder \/ (h = at.folder /\ at.path >= 1)}}
      BY <1>1, TurnTypes DEF FolderTurn
    <3>2. Cells(writer'.folders.table) =
            {engine.folders[i] : i \in {h \in 1..Len(engine.folders) :
               h < at.folder \/ (h = at.folder /\ 1 >= 1)}}
      BY <1>1, <1>2, <1>3, <2>3, <3>1
    <3>3. \A g \in Cells(writer'.folders.table) : IsSet(folder[g].paths)
      BY <1>1, <1>5, <2>3, TurnTypes DEF FolderTurn
    <3> QED BY <1>2, <2>1, <2>2, <3>2, <3>3, TurnTypes DEF FolderTurn
  <2>6. PathTurn'
    <3>1. folder[f].paths.cells \in Seq(DOMAIN path)
      BY <1>3, <1>5, SetCells
    <3>2. IsTail(folder[f].paths.cells, 0, writer.paths.table)
      BY <1>1, <3>1, TurnTypes, TailOfNone
    <3>3. PathsHere' = folder[f].paths.cells
      BY <1>3, <2>1, <2>2 DEF PathsHere
    <3>4. PathTurn
      BY <1>1, TurnTypes
    <3> QED BY <2>1, <2>2, <3>2, <3>3, <3>4 DEF PathTurn
  <2>7. LinkTurn'
    <3>1. LinkTurn
      BY <1>1, TurnTypes
    <3> QED BY <1>2, <2>1, <2>2, <3>1 DEF LinkTurn
  <2> QED BY <1>1, <2>1, <2>3, <2>4, <2>5, <2>6, <2>7, TurnTypes DEF TurnOK
<1> QED
  BY <1>3, <1>4, <1>5 DEF PushFolder

\* What is pushed is resolved.
LEMMA PushedSets ==
  ASSUME TypeOK, TurnOK, pc = "push"
  PROVE  /\ \A i \in 1..Len(engine.folders) : i < at.folder =>
              folder[engine.folders[i]].paths.cells \in Seq(DOMAIN path)
         /\ \A p \in Cells(writer.paths.table) :
              p \in DOMAIN path /\ path[p].links.cells \in Seq(DOMAIN link)
         /\ Cells(writer.links.table) \subseteq DOMAIN link
<1>1. ASSUME NEW i \in 1..Len(engine.folders), i < at.folder
      PROVE  folder[engine.folders[i]].paths.cells \in Seq(DOMAIN path)
  <2>1. engine.folders[i] \in DOMAIN folder /\ engine.folders[i] \in Cells(writer.folders.table)
    BY <1>1, TurnTypes DEF FolderTurn
  <2> QED BY <2>1, SetCells, TurnTypes DEF FolderTurn
<1>2. ASSUME NEW p \in Cells(writer.paths.table)
      PROVE  p \in DOMAIN path /\ path[p].links.cells \in Seq(DOMAIN link)
  <2>1. p \in DOMAIN path
    BY TurnTypes, CellsOfSeq DEF IsMaker
  <2> QED BY <2>1, SetCells, TurnTypes DEF PathTurn
<1>3. Cells(writer.links.table) \subseteq DOMAIN link
  BY TurnTypes, CellsOfSeq DEF IsMaker
<1> QED
  BY <1>1, <1>2, <1>3

LEMMA TurnPushPath ==
  TypeOK /\ TurnOK /\ PushPath => TypeOK' /\ TurnOK'
<1> SUFFICES ASSUME TypeOK, TurnOK, PushPath PROVE TypeOK' /\ TurnOK'
  OBVIOUS
<1>1. /\ pc = "push" /\ at.path >= 1 /\ at.path <= Len(PathsHere) /\ at.link = 0
  BY DEF PushPath, AtPath, Pushing
<1>2. /\ at.folder \in 1..Len(engine.folders) /\ at.path \in 1..Len(PathsHere)
      /\ at.path - 1 \in Nat /\ at.path - 1 < Len(PathsHere) /\ at.path - 1 + 1 = at.path
      /\ PathsHere \in Seq(DOMAIN path)
  BY <1>1, FolderHere, TurnTypes
<1>3. PICK p : p = PathsHere[at.path] /\ p \in DOMAIN path
  BY <1>1, <1>2, FolderHere
<1>4. CASE Panic
  BY <1>4, TypePanic DEF Panic
<1>5. ASSUME ~HasCell(writer.paths, p), IsSet(path[p].links),
             writer' = [writer EXCEPT !.paths = PushCell(@, p)],
             at' = [at EXCEPT !.link = 1],
             UNCHANGED <<heapVars, engine, target, disk, edits, pc>>
      PROVE  TypeOK' /\ TurnOK'
  <2>1. /\ UNCHANGED <<folder, path, link, metadata, guid, engine, disk, pc>>
        /\ writer'.paths = PushCell(writer.paths, p)
        /\ writer'.folders = writer.folders /\ writer'.links = writer.links
        /\ writer'.metadatas = writer.metadatas
        /\ writer' = [t \in {"folders", "paths", "links", "metadatas"} |-> writer'[t]]
    BY <1>5 DEF TypeOK, heapVars
  <2>2. /\ at' \in [folder : Nat, path : Nat, link : Nat]
        /\ at'.folder = at.folder /\ at'.path = at.path /\ at'.link = 1
    BY <1>5 DEF TypeOK
  <2>3. /\ IsMaker(PushCell(writer.paths, p), DOMAIN path)
        /\ MakerOK(PushCell(writer.paths, p))
        /\ Cells(PushCell(writer.paths, p).table) = Cells(writer.paths.table) \cup {p}
    <3>1. IsMaker(writer.paths, DOMAIN path) /\ MakerOK(writer.paths)
      BY <1>1, TurnTypes
    <3> QED BY ZenonT(60), <1>3, <1>5, <3>1, PushKeepsIndex
  <2>4. TypeOK'
    BY <1>1, <2>1, <2>2, <2>3, TurnTypes, TypePushed
  <2>5. PathsHere' = PathsHere /\ LinksHere' = path[p].links.cells
    BY <1>3, <2>1, <2>2 DEF PathsHere, LinksHere
  <2>6. FolderTurn'
    <3>1. FolderTurn
      BY <1>1, TurnTypes
    <3> QED BY <1>1, <2>1, <2>2, <2>5, <3>1 DEF FolderTurn
  <2>7. PathTurn'
    <3>1. PathTurn /\ IsMaker(writer.paths, DOMAIN path)
      BY <1>1, TurnTypes
    <3>2. ASSUME NEW i \in 1..Len(engine.folders), i < at.folder
          PROVE  Consecutive(folder[engine.folders[i]].paths.cells, PushCell(writer.paths, p))
      <4>1. /\ folder[engine.folders[i]].paths.cells \in Seq(DOMAIN path)
            /\ Consecutive(folder[engine.folders[i]].paths.cells, writer.paths)
        BY <1>1, <3>1, <3>2, PushedSets DEF PathTurn
      <4> QED BY <1>3, <1>5, <3>1, <4>1, ConsecutivePushed
    <3>3. IsTail(PathsHere, at.path, PushCell(writer.paths, p).table)
      <4>1. IsTail(PathsHere, at.path - 1, writer.paths.table)
        BY <1>1, <3>1 DEF PathTurn
      <4>2. IsTail(PathsHere, at.path - 1 + 1, PushCell(writer.paths, p).table)
        BY <1>2, <1>3, <3>1, <4>1, TailPushed
      <4> QED BY <1>2, <4>2
    <3>4. ASSUME NEW q \in Cells(writer.paths.table) \cup {p}
          PROVE  /\ IsSet(path[q].links)
                 /\ \E i \in 1..Len(engine.folders) :
                      i <= at.folder /\ q \in Cells(folder[engine.folders[i]].paths.cells)
      <4>1. CASE q \in Cells(writer.paths.table)
        BY <3>1, <4>1 DEF PathTurn
      <4>2. CASE q = p
        <5>1. q \in Cells(folder[engine.folders[at.folder]].paths.cells)
          BY ZenonT(60), <1>2, <1>3, <4>2 DEF Cells, PathsHere
        <5>2. at.folder <= at.folder
          BY <1>2
        <5> QED BY <1>2, <1>5, <4>2, <5>1, <5>2, Zenon
      <4> QED BY <4>1, <4>2
    <3> HIDE <1>5
    <3> QED BY <1>1, <2>1, <2>2, <2>3, <2>5, <3>2, <3>3, <3>4 DEF PathTurn
  <2>8. LinkTurn'
    <3>1. LinkTurn /\ IsMaker(writer.paths, DOMAIN path) /\ IsMaker(writer.links, DOMAIN link)
      BY <1>1, TurnTypes
    <3>2. PICK t, u, n : t = writer.paths.table /\ u = PushCell(writer.paths, p).table
                         /\ n = Len(t)
      OBVIOUS
    <3>3. /\ n \in Nat /\ Len(u) = n + 1 /\ \A i \in 1..n : u[i] = t[i]
      <4>1. t \in Seq(DOMAIN path) /\ u = Append(t, p)
        BY <3>1, <3>2 DEF IsMaker, PushCell
      <4> QED BY <1>3, <3>2, <4>1, AppendElement, LenProperties
    <3>4. \A i \in 1..Len(u) : i < Len(u) => Consecutive(path[u[i]].links.cells, writer.links)
      <4>1. \A i \in 1..n : Consecutive(path[t[i]].links.cells, writer.links)
        BY <1>1, <3>1, <3>2 DEF LinkTurn
      <4>2. \A i \in 1..(n + 1) : i < n + 1 => i \in 1..n
        BY <3>3
      <4> QED BY <3>3, <4>1, <4>2
    <3>5. IsTail(path[p].links.cells, 0, writer.links.table)
      BY <1>3, <1>5, <3>1, SetCells, TailOfNone
    <3>6. \A l \in Cells(writer.links.table) :
            /\ IsCell(link[l])
            /\ \E q \in Cells(writer.paths.table) \cup {p} : l \in Cells(path[q].links.cells)
      BY <3>1 DEF LinkTurn
    <3>7. Cells(writer.metadatas.table) = {link[l].cell : l \in Cells(writer.links.table)}
      BY <3>1 DEF LinkTurn
    <3>8. writer'.paths.table = u /\ Cells(u) = Cells(writer.paths.table) \cup {p}
      BY <2>1, <2>3, <3>2
    <3> QED BY <2>1, <2>2, <2>5, <3>4, <3>5, <3>6, <3>7, <3>8 DEF LinkTurn
  <2> QED BY <1>1, <2>1, <2>3, <2>4, <2>6, <2>7, <2>8, TurnTypes DEF TurnOK
<1> QED
  BY <1>3, <1>4, <1>5 DEF PushPath

\* A link's metadata is pushed unless it is there.
LEMMA PushIfNewKeeps ==
  ASSUME NEW G, NEW maker, IsMaker(maker, G), MakerOK(maker), NEW cell \in G
  PROVE  /\ IsMaker(PushIfNew(maker, cell), G)
         /\ MakerOK(PushIfNew(maker, cell))
         /\ Cells(PushIfNew(maker, cell).table) = Cells(maker.table) \cup {cell}
<1>1. CASE HasCell(maker, cell)
  <2>1. cell \in Cells(maker.table)
    BY <1>1 DEF HasCell, MakerOK
  <2>2. PushIfNew(maker, cell) = maker
    BY <1>1 DEF PushIfNew
  <2> QED BY <2>1, <2>2
<1>2. CASE ~HasCell(maker, cell)
  <2>1. PushIfNew(maker, cell) = PushCell(maker, cell)
    BY <1>2 DEF PushIfNew
  <2> QED BY <1>2, <2>1, PushKeepsIndex
<1> QED
  BY <1>1, <1>2

LEMMA TurnPushLink ==
  TypeOK /\ TurnOK /\ PushLink => TypeOK' /\ TurnOK'
<1> SUFFICES ASSUME TypeOK, TurnOK, PushLink PROVE TypeOK' /\ TurnOK'
  OBVIOUS
<1>1. pc = "push" /\ at.link >= 1 /\ at.link <= Len(LinksHere)
  BY DEF PushLink, AtPath, Pushing
<1>2. /\ at.link \in 1..Len(LinksHere)
      /\ at.link - 1 \in Nat /\ at.link - 1 < Len(LinksHere) /\ at.link - 1 + 1 = at.link
      /\ LinksHere \in Seq(DOMAIN link)
  BY <1>1, PathHere, TurnTypes
<1>3. PICK l : l = LinksHere[at.link] /\ l \in DOMAIN link
  BY <1>1, <1>2, PathHere
<1>4. CASE Panic
  BY <1>4, TypePanic DEF Panic
<1>5. ASSUME ~HasCell(writer.links, l), IsCell(link[l]),
             writer' = [writer EXCEPT !.links = PushCell(@, l),
                                      !.metadatas = PushIfNew(@, link[l].cell)],
             at' = [at EXCEPT !.link = @ + 1],
             UNCHANGED <<heapVars, engine, target, disk, edits, pc>>
      PROVE  TypeOK' /\ TurnOK'
  <2>0. PICK m : m = link[l].cell /\ m \in DOMAIN metadata
    <3>1. link[l] \in ReferenceTo(DOMAIN metadata)
      BY <1>3 DEF TypeOK
    <3> QED BY <1>5, <3>1 DEF ReferenceTo, IsCell, None
  <2>1. /\ UNCHANGED <<folder, path, link, metadata, guid, engine, disk, pc>>
        /\ writer'.links = PushCell(writer.links, l)
        /\ writer'.metadatas = PushIfNew(writer.metadatas, m)
        /\ writer'.folders = writer.folders /\ writer'.paths = writer.paths
        /\ writer' = [t \in {"folders", "paths", "links", "metadatas"} |-> writer'[t]]
    BY <1>5, <2>0 DEF TypeOK, heapVars
  <2>2. /\ at' \in [folder : Nat, path : Nat, link : Nat]
        /\ at'.folder = at.folder /\ at'.path = at.path /\ at'.link = at.link + 1
    BY SMTT(60), <1>5 DEF TypeOK
  <2>3. /\ IsMaker(PushCell(writer.links, l), DOMAIN link)
        /\ MakerOK(PushCell(writer.links, l))
        /\ Cells(PushCell(writer.links, l).table) = Cells(writer.links.table) \cup {l}
    <3>1. IsMaker(writer.links, DOMAIN link) /\ MakerOK(writer.links)
      BY <1>1, TurnTypes
    <3> QED BY ZenonT(60), <1>3, <1>5, <3>1, PushKeepsIndex
  <2>4. /\ IsMaker(PushIfNew(writer.metadatas, m), DOMAIN metadata)
        /\ MakerOK(PushIfNew(writer.metadatas, m))
        /\ Cells(PushIfNew(writer.metadatas, m).table) = Cells(writer.metadatas.table) \cup {m}
    <3>1. IsMaker(writer.metadatas, DOMAIN metadata) /\ MakerOK(writer.metadatas)
      BY <1>1, TurnTypes
    <3> QED BY ZenonT(60), <2>0, <3>1, PushIfNewKeeps
  <2>5. TypeOK'
    BY <1>1, <2>1, <2>2, <2>3, <2>4, TurnTypes, TypePushed
  <2>6. PathsHere' = PathsHere /\ LinksHere' = LinksHere
    BY <2>1, <2>2 DEF PathsHere, LinksHere
  <2>7. at'.link >= 1 /\ at'.link # 0 /\ at.link # 0 /\ at'.link - 1 = at.link
    BY <1>1, <2>2, TurnTypes
  <2>8. FolderTurn'
    <3>1. FolderTurn
      BY <1>1, TurnTypes
    <3> QED BY <1>1, <2>1, <2>2, <2>6, <3>1 DEF FolderTurn
  <2>9. PathTurn'
    <3>1. PathTurn
      BY <1>1, TurnTypes
    <3> QED BY <2>1, <2>2, <2>6, <2>7, <3>1 DEF PathTurn
  <2>10. LinkTurn'
    <3>1. LinkTurn /\ IsMaker(writer.paths, DOMAIN path) /\ IsMaker(writer.links, DOMAIN link)
      BY <1>1, TurnTypes
    <3>2. ASSUME NEW i \in 1..Len(writer.paths.table), i < Len(writer.paths.table)
          PROVE  Consecutive(path[writer.paths.table[i]].links.cells, PushCell(writer.links, l))
      <4>1. writer.paths.table[i] \in Cells(writer.paths.table)
        BY DEF Cells
      <4>2. path[writer.paths.table[i]].links.cells \in Seq(DOMAIN link)
        BY <1>1, <4>1, PushedSets
      <4>3. Consecutive(path[writer.paths.table[i]].links.cells, writer.links)
        BY <3>1, <3>2 DEF LinkTurn
      <4> QED BY <1>3, <1>5, <3>1, <4>2, <4>3, ConsecutivePushed
    <3>3. IsTail(LinksHere, at.link, PushCell(writer.links, l).table)
      <4>1. IsTail(LinksHere, at.link - 1, writer.links.table)
        BY <1>1, <3>1 DEF LinkTurn
      <4>2. IsTail(LinksHere, at.link - 1 + 1, PushCell(writer.links, l).table)
        BY <1>2, <1>3, <3>1, <4>1, TailPushed
      <4> QED BY <1>2, <4>2
    <3>4. ASSUME NEW k \in Cells(writer.links.table) \cup {l}
          PROVE  /\ IsCell(link[k])
                 /\ \E p \in Cells(writer.paths.table) : k \in Cells(path[p].links.cells)
      <4>1. CASE k \in Cells(writer.links.table)
        BY <3>1, <4>1 DEF LinkTurn
      <4>2. CASE k = l
        <5>1. PICK p : p = PathsHere[at.path]
          OBVIOUS
        <5>2. p \in Cells(writer.paths.table)
          BY <1>1, <5>1, PathHere DEF Cells
        <5>3. k \in Cells(path[p].links.cells)
          BY <1>2, <1>3, <4>2, <5>1 DEF Cells, LinksHere
        <5> QED BY <1>5, <4>2, <5>2, <5>3
      <4> QED BY <4>1, <4>2
    <3>5. Cells(PushIfNew(writer.metadatas, m).table) =
            {link[k].cell : k \in Cells(writer.links.table) \cup {l}}
      BY <2>0, <2>4, <3>1 DEF LinkTurn
    <3> HIDE <1>5
    <3> QED BY <2>1, <2>2, <2>3, <2>6, <2>7, <3>2, <3>3, <3>4, <3>5 DEF LinkTurn
  <2> QED BY <1>1, <2>1, <2>3, <2>4, <2>5, <2>8, <2>9, <2>10, TurnTypes DEF TurnOK
<1> QED
  BY <1>3, <1>4, <1>5 DEF PushLink, CanPushLink

\* The set that the turn has gone through is consecutive from now on.
LEMMA TurnNextPath ==
  TypeOK /\ TurnOK /\ PushNextPath => TypeOK' /\ TurnOK'
<1> SUFFICES ASSUME TypeOK, TurnOK, PushNextPath PROVE TypeOK' /\ TurnOK'
  OBVIOUS
<1>1. pc = "push" /\ at.link >= 1 /\ at.link > Len(LinksHere)
  BY DEF PushNextPath, AtPath, Pushing
<1>2. /\ UNCHANGED <<folder, path, link, metadata, guid, engine, writer, disk, pc>>
      /\ at' \in [folder : Nat, path : Nat, link : Nat]
      /\ at'.folder = at.folder /\ at'.path = at.path + 1 /\ at'.link = 0
  <2>1. at \in [folder : Nat, path : Nat, link : Nat]
    BY DEF TypeOK
  <2>2. at' = [at EXCEPT !.path = @ + 1, !.link = 0]
    BY DEF PushNextPath
  <2>3. UNCHANGED <<folder, path, link, metadata, guid, engine, writer, disk, pc>>
    BY DEF PushNextPath, heapVars
  <2>4. PICK x \in Nat, y \in Nat, z \in Nat : at = [folder |-> x, path |-> y, link |-> z]
    BY <2>1
  <2>5. at' = [folder |-> x, path |-> y + 1, link |-> 0]
    BY <2>2, <2>4
  <2> QED BY <2>3, <2>4, <2>5
<1>3. TypeOK'
  BY <1>2 DEF TypeOK, StreamFolder, StreamPath
<1>4. PathsHere' = PathsHere
  BY <1>2 DEF PathsHere
<1>5. FolderTurn /\ PathTurn /\ LinkTurn /\ at.path >= 1 /\ at.link # 0
  BY <1>1, TurnTypes DEF FolderTurn
<1>6. at.path + 1 >= 1 /\ at.path + 1 - 1 = at.path /\ at.path \in Nat
  BY <1>1, TurnTypes
<1>7. FolderTurn'
  BY <1>2, <1>4, <1>5, <1>6 DEF FolderTurn
<1>8. PathTurn'
  BY <1>2, <1>4, <1>5, <1>6 DEF PathTurn
<1>9. LinkTurn'
  <2>0. PICK t, n, p : t = writer.paths.table /\ n = Len(t) /\ p = PathsHere[at.path]
    OBVIOUS
  <2>1. IsTail(LinksHere, at.link - 1, writer.links.table)
    BY <1>1, <1>5 DEF LinkTurn
  <2>2. at.link - 1 = Len(LinksHere)
    <3>1. at.link - 1 <= Len(LinksHere)
      BY <2>1 DEF IsTail
    <3> QED BY <1>1, <3>1, PathHere, TurnTypes
  <2>3. Consecutive(LinksHere, writer.links)
    <3>1. LinksHere \in Seq(DOMAIN link) /\ IsMaker(writer.links, DOMAIN link) /\ MakerOK(writer.links)
      BY <1>1, PathHere, TurnTypes
    <3> QED BY <2>1, <2>2, <3>1, TailIsConsecutive
  <2>4. n \in 1..n /\ t[n] = p /\ LinksHere = path[p].links.cells
    BY <1>1, <2>0, PathHere DEF LinksHere
  <2>5. \A i \in 1..n : Consecutive(path[t[i]].links.cells, writer.links)
    <3>1. \A i \in 1..n : i < n => Consecutive(path[t[i]].links.cells, writer.links)
      BY <1>5, <2>0 DEF LinkTurn
    <3>2. \A i \in 1..n : i < n \/ i = n
      BY <2>4
    <3> QED BY <2>3, <2>4, <3>1, <3>2
  <2> QED BY <1>2, <1>5, <2>0, <2>5 DEF LinkTurn
<1> QED
  BY <1>1, <1>2, <1>3, <1>7, <1>8, <1>9 DEF TurnOK

LEMMA TurnNextFolder ==
  TypeOK /\ TurnOK /\ PushNextFolder => TypeOK' /\ TurnOK'
<1> SUFFICES ASSUME TypeOK, TurnOK, PushNextFolder PROVE TypeOK' /\ TurnOK'
  OBVIOUS
<1>1. pc = "push" /\ at.path >= 1 /\ at.path > Len(PathsHere)
  BY DEF PushNextFolder, Pushing
<1>2. /\ UNCHANGED <<folder, path, link, metadata, guid, engine, writer, disk, pc>>
      /\ at' \in [folder : Nat, path : Nat, link : Nat]
      /\ at'.folder = at.folder + 1 /\ at'.path = 0 /\ at'.link = 0
  BY SMTT(60) DEF PushNextFolder, TypeOK, heapVars, NoTurn
<1>3. TypeOK'
  BY <1>2 DEF TypeOK, StreamFolder, StreamPath
<1>4. FolderTurn /\ PathTurn /\ LinkTurn
  BY <1>1, TurnTypes
<1>5. /\ at.folder \in 1..Len(engine.folders) /\ Len(engine.folders) \in Nat
      /\ PathsHere \in Seq(DOMAIN path) /\ Len(PathsHere) \in Nat
      /\ at.path \in Nat /\ at.link \in Nat
  BY <1>1, FolderHere, TurnTypes
<1>6. at.link = 0 /\ IsTail(PathsHere, at.path - 1, writer.paths.table)
  <2>1. ~(at.link >= 1)
    BY <1>1, <1>4, <1>5 DEF FolderTurn
  <2>2. at.link = 0
    BY <1>5, <2>1
  <2> QED BY <1>1, <1>4, <2>2 DEF PathTurn
<1>7. at.path - 1 = Len(PathsHere)
  <2>1. at.path - 1 <= Len(PathsHere)
    BY <1>6 DEF IsTail
  <2> QED BY <1>1, <1>5, <2>1
<1>8. Consecutive(PathsHere, writer.paths)
  <2>1. IsMaker(writer.paths, DOMAIN path) /\ MakerOK(writer.paths)
    BY <1>1, TurnTypes
  <2> QED BY <1>5, <1>6, <1>7, <2>1, TailIsConsecutive
<1>9. /\ \A i \in 1..Len(engine.folders) :
           (i < at.folder + 1) <=> (i < at.folder \/ i = at.folder)
      /\ \A i \in 1..Len(engine.folders) : i <= at.folder => i <= at.folder + 1
      /\ at.folder + 1 \in 1..(Len(engine.folders) + 1)
  BY <1>5
<1>10. FolderTurn'
  <2>1. {h \in 1..Len(engine.folders) : h < at.folder \/ (h = at.folder /\ at.path >= 1)}
          = {h \in 1..Len(engine.folders) :
               h < at.folder + 1 \/ (h = at.folder + 1 /\ 0 >= 1)}
    BY <1>1, <1>9
  <2> QED BY <1>2, <1>4, <1>9, <2>1 DEF FolderTurn
<1>11. PathTurn'
  <2>1. ASSUME NEW i \in 1..Len(engine.folders), i < at.folder + 1
        PROVE  Consecutive(folder[engine.folders[i]].paths.cells, writer.paths)
    BY <1>4, <1>8, <1>9, <2>1 DEF PathTurn, PathsHere
  <2>2. ASSUME NEW p \in Cells(writer.paths.table)
        PROVE  /\ IsSet(path[p].links)
               /\ \E i \in 1..Len(engine.folders) :
                    i <= at.folder + 1 /\ p \in Cells(folder[engine.folders[i]].paths.cells)
    BY <1>4, <1>9 DEF PathTurn
  <2> QED BY <1>2, <2>1, <2>2 DEF PathTurn
<1>12. LinkTurn'
  BY <1>2, <1>4, <1>6 DEF LinkTurn
<1> QED
  BY <1>1, <1>2, <1>3, <1>10, <1>11, <1>12 DEF TurnOK

\* A set that is where its index says is in the table.
LEMMA ConsecutiveIsThere ==
  ASSUME NEW maker, MakerOK(maker), NEW cells, Consecutive(cells, maker)
  PROVE  Cells(cells) \subseteq Cells(maker.table)
BY DEF Consecutive, HasCell, MakerOK, Cells

\* Once the loops are done, all of the engine has been gone through.
LEMMA DoneTurns ==
  ASSUME TypeOK, TurnOK, Done
  PROVE  /\ at.link = 0
         /\ \A i \in 1..Len(engine.folders) : i < at.folder
         /\ Cells(writer.folders.table) = Cells(engine.folders)
<1>1. pc = "push" /\ at.folder > Len(engine.folders)
  BY DEF Done
<1>2. /\ FolderTurn /\ Len(engine.folders) \in Nat /\ at.folder \in Nat
      /\ at.path \in Nat /\ at.link \in Nat
  BY <1>1, TurnTypes
<1>3. ~(at.path >= 1) /\ ~(at.link >= 1)
  BY <1>1, <1>2 DEF FolderTurn
<1>4. \A i \in 1..Len(engine.folders) : i < at.folder
  BY <1>1, <1>2
<1>5. Cells(writer.folders.table) = Cells(engine.folders)
  BY <1>2, <1>4 DEF FolderTurn, Cells
<1> QED
  BY <1>2, <1>3, <1>4, <1>5

LEMMA DoneConsecutive == TypeOK /\ TurnOK => SetsAreConsecutive
<1> SUFFICES ASSUME TypeOK, TurnOK, Done
             PROVE  /\ \A f \in Cells(writer.folders.table) :
                         Consecutive(folder[f].paths.cells, writer.paths)
                    /\ \A p \in Cells(writer.paths.table) :
                         Consecutive(path[p].links.cells, writer.links)
  BY DEF SetsAreConsecutive
<1>1. PathTurn /\ LinkTurn
  BY TurnTypes DEF Done
<1>2. \A f \in Cells(writer.folders.table) :
        Consecutive(folder[f].paths.cells, writer.paths)
  BY <1>1, DoneTurns DEF PathTurn, Cells
<1>3. \A p \in Cells(writer.paths.table) :
        Consecutive(path[p].links.cells, writer.links)
  BY <1>1, DoneTurns DEF LinkTurn, Cells
<1> QED
  BY <1>2, <1>3

LEMMA DoneReachable == TypeOK /\ TurnOK => TablesAreReachable
<1> SUFFICES ASSUME TypeOK, TurnOK, Done
             PROVE  /\ Cells(writer.paths.table) =
                         UNION {Cells(folder[f].paths.cells) : f \in Cells(engine.folders)}
                    /\ Cells(writer.links.table) =
                         UNION {Cells(path[p].links.cells) : p \in Cells(writer.paths.table)}
  BY DoneTurns, TurnTypes DEF TablesAreReachable, Done, LinkTurn
<1>1. /\ PathTurn /\ LinkTurn /\ MakerOK(writer.paths) /\ MakerOK(writer.links)
      /\ Cells(writer.folders.table) = Cells(engine.folders)
  BY DoneTurns, TurnTypes DEF Done
<1>2. /\ \A f \in Cells(engine.folders) :
           Cells(folder[f].paths.cells) \subseteq Cells(writer.paths.table)
      /\ \A p \in Cells(writer.paths.table) :
           Cells(path[p].links.cells) \subseteq Cells(writer.links.table)
  BY <1>1, DoneConsecutive, ConsecutiveIsThere DEF SetsAreConsecutive
<1>3. \A p \in Cells(writer.paths.table) :
        \E f \in Cells(engine.folders) : p \in Cells(folder[f].paths.cells)
  BY ZenonT(60), <1>1 DEF PathTurn, Cells
<1>4. \A l \in Cells(writer.links.table) :
        \E p \in Cells(writer.paths.table) : l \in Cells(path[p].links.cells)
  BY <1>1 DEF LinkTurn
<1> QED
  BY <1>2, <1>3, <1>4

-----------------------------------------------------------------------------
(* The writer's beginning and its ends. *)

LEMMA NoWriterTables ==
  /\ NoWriter.folders = NewMaker /\ NoWriter.paths = NewMaker
  /\ NoWriter.links = NewMaker /\ NoWriter.metadatas = NewMaker
  /\ NoWriter = [t \in {"folders", "paths", "links", "metadatas"} |-> NoWriter[t]]
  /\ NewMaker.table = <<>> /\ Len(<<>>) = 0 /\ Cells(<<>>) = {}
<1>1. Len(<<>>) = 0
  BY EmptySeq
<1> QED
  BY <1>1 DEF NoWriter, NewMaker, Cells

LEMMA TurnFromEngine ==
  ASSUME TypeOK, TurnOK, NEW t, FromEngine(t)
  PROVE  TypeOK' /\ TurnOK'
<1>1. /\ UNCHANGED <<folder, path, link, metadata, guid, engine, disk>>
      /\ writer' = NoWriter /\ pc' = "push"
      /\ at' = [folder |-> 1, path |-> 0, link |-> 0]
  BY DEF FromEngine, heapVars, NoTurn
<1>2. \A G : IsMaker(NewMaker, G) /\ MakerOK(NewMaker)
  BY NewMakerOK
<1>3. TypeOK'
  <2>1. /\ writer'.folders = NewMaker /\ writer'.paths = NewMaker
        /\ writer'.links = NewMaker /\ writer'.metadatas = NewMaker
        /\ writer' = [x \in {"folders", "paths", "links", "metadatas"} |-> writer'[x]]
    BY <1>1, NoWriterTables
  <2>2. at' \in [folder : Nat, path : Nat, link : Nat]
    BY <1>1
  <2> QED BY <1>1, <1>2, <2>1, <2>2, TypePushed
<1>4. Len(engine.folders) \in Nat
  BY EngineCells
<1>5. /\ Cells(writer'.folders.table) = {} /\ Cells(writer'.paths.table) = {}
      /\ Cells(writer'.links.table) = {} /\ Cells(writer'.metadatas.table) = {}
      /\ Len(writer'.paths.table) = 0
  BY <1>1, NoWriterTables
<1>6. FolderTurn'
  BY <1>1, <1>4, <1>5 DEF FolderTurn
<1>7. PathTurn'
  BY <1>1, <1>5 DEF PathTurn
<1>8. LinkTurn'
  BY <1>1, <1>5 DEF LinkTurn
<1> QED
  BY <1>1, <1>2, <1>3, <1>6, <1>7, <1>8, NoWriterTables DEF TurnOK

LEMMA TurnReorganize == TypeOK /\ TurnOK /\ Reorganize => TypeOK' /\ TurnOK'
<1> SUFFICES ASSUME TypeOK, TurnOK, Reorganize PROVE TypeOK' /\ TurnOK'
  OBVIOUS
<1>1. /\ UNCHANGED <<folder, path, link, metadata, guid, disk>>
      /\ writer' = NoWriter /\ at' = NoTurn /\ pc' = "idle"
      /\ engine'.folders = writer.folders.table /\ engine'.paths = writer.paths.table
      /\ engine'.links = writer.links.table /\ engine'.metadatas = writer.metadatas.table
      /\ engine'.pathLookup = engine.pathLookup
      /\ engine' = [t \in {"folders", "paths", "links", "metadatas", "pathLookup"} |-> engine'[t]]
  BY DEF Reorganize, heapVars
<1>2. /\ writer.folders.table \in Seq(DOMAIN folder) /\ writer.paths.table \in Seq(DOMAIN path)
      /\ writer.links.table \in Seq(DOMAIN link)
      /\ writer.metadatas.table \in Seq(DOMAIN metadata)
  BY DEF TypeOK, IsMaker
<1>3. \A G : IsMaker(NewMaker, G)
  BY NewMakerOK
<1>4. /\ writer'.folders = NewMaker /\ writer'.paths = NewMaker
      /\ writer'.links = NewMaker /\ writer'.metadatas = NewMaker
      /\ writer' = [x \in {"folders", "paths", "links", "metadatas"} |-> writer'[x]]
  BY <1>1, NoWriterTables
<1>5. at' \in [folder : Nat, path : Nat, link : Nat]
  BY <1>1 DEF NoTurn
<1>6. TypeOK'
  BY <1>1, <1>2, <1>3, <1>4, <1>5 DEF TypeOK, StreamFolder, StreamPath
<1> QED
  BY <1>1, <1>6 DEF TurnOK

\* A table that is written entry by entry.
LEMMA WrittenTable ==
  ASSUME NEW n \in Nat, NEW s, s = [i \in 1..n |-> s[i]]
  PROVE  /\ s \in Seq(Cells(s)) /\ Len(s) = n
         /\ \A S : (\A i \in 1..n : s[i] \in S) => s \in Seq(S)
         /\ \A e \in Cells(s) : \E i \in 1..n : e = s[i]
<1>1. \A S : (\A i \in 1..n : s[i] \in S) => s \in Seq(S)
  <2> SUFFICES ASSUME NEW S, \A i \in 1..n : s[i] \in S PROVE s \in Seq(S)
    OBVIOUS
  <2>1. s \in [1..n -> S]
    OBVIOUS
  <2> QED BY <2>1, SeqDef
<1>2. Len(s) = n
  <2>1. DOMAIN s = 1..n
    OBVIOUS
  <2>2. s \in Seq({s[i] : i \in 1..n})
    BY <1>1
  <2>3. Len(s) \in Nat /\ DOMAIN s = 1..Len(s)
    BY <2>2, LenProperties
  <2> QED BY <2>1, <2>3
<1>3. s \in Seq(Cells(s))
  BY <1>1, <1>2 DEF Cells
<1> QED
  BY <1>1, <1>2, <1>3 DEF Cells

\* What get_index answers is an index.
LEMMA IndexIsNat ==
  ASSUME NEW G, NEW maker, IsMaker(maker, G), MakerOK(maker),
         NEW cell \in Cells(maker.table)
  PROVE  GetIndex(maker, cell) \in Nat
BY DEF IsMaker, MakerOK, IsMap, GetIndex

LEMMA WrittenIsImage ==
  ASSUME TypeOK, TurnOK, Write
  PROVE  IsImage(WrittenImage)
<1>1. Done /\ pc = "push" /\ Serialisable
  BY DEF Write, Done
<1>2. SetsAreConsecutive /\ TablesAreReachable
  BY DoneConsecutive, DoneReachable
<1>3. /\ IsMaker(writer.paths, DOMAIN path) /\ MakerOK(writer.paths)
      /\ IsMaker(writer.links, DOMAIN link) /\ MakerOK(writer.links)
      /\ IsMaker(writer.metadatas, DOMAIN metadata) /\ MakerOK(writer.metadatas)
      /\ writer.folders.table \in Seq(DOMAIN folder) /\ writer.paths.table \in Seq(DOMAIN path)
      /\ writer.links.table \in Seq(DOMAIN link)
      /\ writer.metadatas.table \in Seq(DOMAIN metadata)
  BY <1>1, TurnTypes DEF IsMaker
<1>4. PICK nf, np, nl, nm :
        /\ nf = Len(writer.folders.table) /\ np = Len(writer.paths.table)
        /\ nl = Len(writer.links.table) /\ nm = Len(writer.metadatas.table)
  OBVIOUS
<1>5. nf \in Nat /\ np \in Nat /\ nl \in Nat /\ nm \in Nat
  BY <1>3, <1>4, LenProperties
<1> DEFINE wf == [i \in 1..nf |-> WriteFolder(folder[writer.folders.table[i]])]
           wp == [i \in 1..np |-> WritePath(path[writer.paths.table[i]])]
           wl == [i \in 1..nl |-> WriteLink(link[writer.links.table[i]])]
           wm == [i \in 1..nm |-> metadata[writer.metadatas.table[i]]]
<1>6. /\ WrittenImage.folders = wf /\ WrittenImage.paths = wp
      /\ WrittenImage.links = wl /\ WrittenImage.metadatas = wm
  BY <1>4 DEF WrittenImage
<1>7. ASSUME NEW f \in Cells(writer.folders.table)
      PROVE  WriteFolder(folder[f]).start \in Nat /\ WriteFolder(folder[f]).count \in Nat
  <2>1. PICK cells : cells = folder[f].paths.cells
    OBVIOUS
  <2>2. cells \in Seq(DOMAIN path) /\ Len(cells) \in Nat
    <3>1. f \in DOMAIN folder /\ IsSet(folder[f].paths)
      BY <1>1, <1>3, TurnTypes, CellsOfSeq DEF FolderTurn
    <3> QED BY <2>1, <3>1, SetCells, LenProperties
  <2>3. cells # <<>> => GetIndex(writer.paths, cells[1]) \in Nat
    <3>1. SUFFICES ASSUME cells # <<>> PROVE GetIndex(writer.paths, cells[1]) \in Nat
      OBVIOUS
    <3>2. Len(cells) # 0
      BY <2>2, <3>1, EmptySeq, Zenon
    <3>3. 1 \in 1..Len(cells)
      BY <2>2, <3>2
    <3>4. cells[1] \in Cells(writer.paths.table)
      BY <1>1, <1>2, <1>3, <2>1, <3>3 DEF SetsAreConsecutive, Consecutive, HasCell, MakerOK
    <3> QED BY <1>3, <3>4, IndexIsNat
  <2>4. /\ WriteFolder(folder[f]).count = Len(cells)
        /\ WriteFolder(folder[f]).start = IF cells = <<>> THEN 0 ELSE GetIndex(writer.paths, cells[1])
    BY <2>1 DEF WriteFolder
  <2> QED BY <2>2, <2>3, <2>4
<1>8. ASSUME NEW p \in Cells(writer.paths.table)
      PROVE  WritePath(path[p]).link \in Nat /\ WritePath(path[p]).flags \in Nat
  <2>1. PICK cells : cells = path[p].links.cells
    OBVIOUS
  <2>2. p \in DOMAIN path /\ cells \in Seq(DOMAIN link) /\ Len(cells) \in Nat /\ cells # <<>>
    BY <1>1, <2>1, PushedSets, LenProperties DEF Serialisable
  <2>3. Len(cells) # 0
    BY <2>2, EmptySeq, Zenon
  <2>4. 1 \in 1..Len(cells)
    BY <2>2, <2>3
  <2>5. cells[1] \in Cells(writer.links.table)
    BY <1>1, <1>2, <1>3, <2>1, <2>4 DEF SetsAreConsecutive, Consecutive, HasCell, MakerOK
  <2>6. GetIndex(writer.links, cells[1]) \in Nat
    BY <1>3, <2>5, IndexIsNat
  <2>7. path[p].flags \in 0..2
    BY <2>2 DEF TypeOK, StreamPath
  <2> QED BY <2>1, <2>6, <2>7 DEF WritePath
<1>9. ASSUME NEW l \in Cells(writer.links.table) PROVE WriteLink(link[l]) \in Nat
  <2>1. link[l].cell \in Cells(writer.metadatas.table)
    BY <1>1, <1>2 DEF TablesAreReachable
  <2> QED BY <1>3, <2>1, IndexIsNat DEF WriteLink
<1>10. /\ \A i \in 1..nf : writer.folders.table[i] \in Cells(writer.folders.table)
       /\ \A i \in 1..np : writer.paths.table[i] \in Cells(writer.paths.table)
       /\ \A i \in 1..nl : writer.links.table[i] \in Cells(writer.links.table)
  BY <1>4 DEF Cells
<1>11. /\ wf \in Seq(Cells(wf)) /\ \A e \in Cells(wf) : e.start \in Nat /\ e.count \in Nat
  <2>1. wf = [i \in 1..nf |-> wf[i]]
    OBVIOUS
  <2>2. \A i \in 1..nf : wf[i].start \in Nat /\ wf[i].count \in Nat
    BY <1>7, <1>10
  <2> HIDE DEF wf
  <2>3. wf \in Seq(Cells(wf)) /\ \A e \in Cells(wf) : \E i \in 1..nf : e = wf[i]
    BY <1>5, <2>1, WrittenTable
  <2> QED BY <2>2, <2>3
<1>12. /\ wp \in Seq(Cells(wp)) /\ \A e \in Cells(wp) : e.link \in Nat /\ e.flags \in Nat
  <2>1. wp = [i \in 1..np |-> wp[i]]
    OBVIOUS
  <2>2. \A i \in 1..np : wp[i].link \in Nat /\ wp[i].flags \in Nat
    BY <1>8, <1>10
  <2> HIDE DEF wp
  <2>3. wp \in Seq(Cells(wp)) /\ \A e \in Cells(wp) : \E i \in 1..np : e = wp[i]
    BY <1>5, <2>1, WrittenTable
  <2> QED BY <2>2, <2>3
<1>13. wl \in Seq(Nat)
  <2>1. wl = [i \in 1..nl |-> wl[i]]
    OBVIOUS
  <2>2. \A i \in 1..nl : wl[i] \in Nat
    BY <1>9, <1>10
  <2> HIDE DEF wl
  <2> QED BY <1>5, <2>1, <2>2, WrittenTable
<1>14. wm \in Seq(Cells(wm))
  <2>1. wm = [i \in 1..nm |-> wm[i]]
    OBVIOUS
  <2> HIDE DEF wm
  <2> QED BY <1>5, <2>1, WrittenTable
<1> HIDE DEF wf, wp, wl, wm
<1> QED
  BY <1>6, <1>11, <1>12, <1>13, <1>14 DEF IsImage

LEMMA TurnWrite == TypeOK /\ TurnOK /\ Write => TypeOK' /\ TurnOK'
<1> SUFFICES ASSUME TypeOK, TurnOK, Write PROVE TypeOK' /\ TurnOK'
  OBVIOUS
<1>1. IsImage(disk')
  BY WrittenIsImage DEF Write
<1>2. /\ folder' = EmptyMap /\ path' = EmptyMap /\ link' = EmptyMap /\ metadata' = EmptyMap
      /\ engine' = NoEngine /\ writer' = NoWriter /\ at' = NoTurn
      /\ guid' = guid /\ pc' = "closed"
  BY DEF Write
<1>3. DOMAIN EmptyMap = {} /\ \A K, V : IsMap(EmptyMap, K, V) /\ EmptyMap \in [{} -> V]
  BY DEF EmptyMap, IsMap
<1>4. \A G : IsMaker(NewMaker, G)
  BY NewMakerOK
<1>5. \A S : <<>> \in Seq(S)
  BY EmptySeq
<1>6. /\ engine'.folders = <<>> /\ engine'.paths = <<>> /\ engine'.links = <<>>
      /\ engine'.metadatas = <<>> /\ engine'.pathLookup = EmptyMap
      /\ engine' = [t \in {"folders", "paths", "links", "metadatas", "pathLookup"} |-> engine'[t]]
  BY <1>2 DEF NoEngine
<1>7. /\ writer'.folders = NewMaker /\ writer'.paths = NewMaker
      /\ writer'.links = NewMaker /\ writer'.metadatas = NewMaker
      /\ writer' = [x \in {"folders", "paths", "links", "metadatas"} |-> writer'[x]]
  BY <1>2, NoWriterTables
<1>8. at' \in [folder : Nat, path : Nat, link : Nat] /\ guid' \in 0..MaxGuid
  BY <1>2 DEF NoTurn, TypeOK
<1>9. TypeOK'
  BY <1>1, <1>2, <1>3, <1>4, <1>5, <1>6, <1>7, <1>8 DEF TypeOK
<1> QED
  BY <1>2, <1>9 DEF TurnOK

-----------------------------------------------------------------------------
(* Theorems. *)

LEMMA TurnStep == TypeOK /\ TurnOK /\ [Next]_vars => TypeOK' /\ TurnOK'
<1> SUFFICES ASSUME TypeOK, TurnOK, [Next]_vars PROVE TypeOK' /\ TurnOK'
  OBVIOUS
<1>1. CASE Read
  <2>1. TypeOK'
    BY <1>1, TypeRead
  <2> QED BY <1>1, <2>1 DEF Read, TurnOK
<1>2. CASE ReadGarbled
  BY <1>2, TypePanic DEF ReadGarbled
<1>3. CASE ReadPanics \/ ResolvePanics \/ WritePanics
  BY <1>3, TypePanic DEF ReadPanics, ResolvePanics, WritePanics, Panic
<1>4. CASE ResolveAll
  <2>1. TypeOK'
    BY <1>4, TypeResolve
  <2> QED BY <1>4, <2>1 DEF ResolveAll, TurnOK
<1>5. CASE Edit
  BY <1>5, TypeEdit
<1>6. CASE \E t \in {"engine", "memory", "directory"} : FromEngine(t)
  BY <1>6, TurnFromEngine
<1>7. CASE PushStep
  BY <1>7, TurnPushFolder, TurnPushPath, TurnPushLink, TurnNextPath, TurnNextFolder
     DEF PushStep
<1>8. CASE Reorganize
  BY <1>8, TurnReorganize
<1>9. CASE Write
  BY <1>9, TurnWrite
<1>10. CASE UNCHANGED vars
  <2>1. UNCHANGED <<folder, path, link, metadata, guid, engine, writer, at, disk, pc>>
    BY <1>10 DEF vars, heapVars, writerVars
  <2>2. TypeOK'
    BY SMTT(60), <2>1 DEF TypeOK, StreamFolder, StreamPath
  <2>3. TurnOK'
    BY ZenonT(60), <2>1 DEF TurnOK, FolderTurn, PathTurn, LinkTurn, PathsHere, LinksHere
  <2> QED BY <2>2, <2>3
<1> QED
  BY <1>1, <1>2, <1>3, <1>4, <1>5, <1>6, <1>7, <1>8, <1>9, <1>10
     DEF Next, Step, CallStep

\* No reference of a stream engine dangles, no table of its writer holds a cell
\* that is not there, and what it writes parses again.
THEOREM TypeCorrect == Spec => []TypeOK
<1>1. Init => TypeOK /\ TurnOK
  BY TypeInit
<1>2. TypeOK /\ TurnOK /\ [Next]_vars => TypeOK' /\ TurnOK'
  BY TurnStep
<1> QED
  BY <1>1, <1>2, PTL DEF Spec

\* At each turn, the writer's tables are as far as its loops are.
THEOREM TurnsAreKept == Spec => []TurnOK
<1>1. Init => TypeOK /\ TurnOK
  BY TypeInit
<1>2. TypeOK /\ TurnOK /\ [Next]_vars => TypeOK' /\ TurnOK'
  BY TurnStep
<1> QED
  BY <1>1, <1>2, PTL DEF Spec

\* Every set of paths and of links ends up consecutive, though the image keeps
\* the index of its first entry only: whatever the client did to the vectors,
\* and whichever cells its sets share, StreamWriter::from_engine has put them
\* so, or panicked.
THEOREM WriterKeepsSetsConsecutive == Spec => []SetsAreConsecutive
<1>1. TypeOK /\ TurnOK => SetsAreConsecutive
  BY DoneConsecutive
<1> QED
  BY <1>1, TypeCorrect, TurnsAreKept, PTL

\* StreamWriter::from_engine leaves out nothing that is reachable, and puts in
\* nothing else, nor anything twice.
THEOREM WriterTakesWhatIsReachable == Spec => []TablesAreReachable
<1>1. TypeOK /\ TurnOK => TablesAreReachable
  BY DoneReachable
<1> QED
  BY <1>1, TypeCorrect, TurnsAreKept, PTL

-----------------------------------------------------------------------------
(* Reading. *)

LEMMA CarefulInit == CarefulClients /\ Init => CarefulInvariant
BY DEF CarefulClients, Init, CarefulInvariant, Open, IsCareful

\* The table a reader makes: entry by entry the next GUID.
Numbered(t, first, n) ==
  /\ Len(t) = n /\ NoRepetition(t)
  /\ \A i \in 1..n : /\ t[i] = first + i - 1
                     /\ t[i] \in first..(first + n - 1)
                     /\ t[i] - first + 1 = i

LEMMA ReadTable ==
  ASSUME NEW first \in Nat, NEW n \in Nat
  PROVE  Numbered(TableFrom(first, n), first, n)
<1> DEFINE t == TableFrom(first, n)
<1>1. t = [i \in 1..n |-> first + i - 1]
  BY DEF TableFrom
<1> HIDE DEF t
<1>2. Len(t) = n
  BY <1>1
<1>3. ASSUME NEW i \in 1..n
      PROVE  /\ t[i] = first + i - 1
             /\ t[i] \in first..(first + n - 1)
             /\ t[i] - first + 1 = i
  <2>1. t[i] = first + i - 1
    BY <1>1
  <2> QED BY <2>1
<1>4. NoRepetition(t)
  BY <1>2, <1>3 DEF NoRepetition
<1>5. Numbered(t, first, n)
  BY <1>2, <1>3, <1>4 DEF Numbered
<1> QED
  BY <1>5 DEF t

\* What is known of an engine just read.
LEMMA ReadEngine ==
  ASSUME TypeOK, Read
  PROVE  /\ AsRead'
         /\ NoRepetition(engine.folders)'
         /\ engine.pathLookup' = LookupOf(disk.paths, guid + Len(disk.folders), {})
         /\ \A i \in 1..Len(disk.paths) :
              engine.paths'[i] = guid + Len(disk.folders) + i - 1
<1>0. PICK nf, np, nl, nm :
        /\ nf = Len(disk.folders) /\ np = Len(disk.paths)
        /\ nl = Len(disk.links) /\ nm = Len(disk.metadatas)
  OBVIOUS
<1>1. nf \in Nat /\ np \in Nat /\ nl \in Nat /\ nm \in Nat /\ guid \in Nat
  BY <1>0, LenProperties DEF TypeOK, IsImage
<1>2. PICK p0, l0, m0 : p0 = guid + nf /\ l0 = p0 + np /\ m0 = l0 + nl
  OBVIOUS
<1>3. p0 \in Nat /\ l0 \in Nat /\ m0 \in Nat
  BY <1>1, <1>2
<1>4. /\ folder' = [g \in guid..(guid + nf - 1) |-> ParseFolder(disk.folders[g - guid + 1])]
      /\ path' = [g \in p0..(p0 + np - 1) |-> ParsePath(disk.paths[g - p0 + 1])]
      /\ link' = [g \in l0..(l0 + nl - 1) |-> ParseLink(disk.links[g - l0 + 1])]
      /\ metadata' = [g \in m0..(m0 + nm - 1) |-> ParseMetadata(disk.metadatas[g - m0 + 1])]
      /\ engine' = [folders |-> TableFrom(guid, nf), paths |-> TableFrom(p0, np),
                    links |-> TableFrom(l0, nl), metadatas |-> TableFrom(m0, nm),
                    pathLookup |-> LookupOf(disk.paths, p0, {})]
      /\ disk' = disk
  BY <1>0, <1>2 DEF Read, CellsFrom
<1>5. /\ engine'.folders = TableFrom(guid, nf) /\ engine'.paths = TableFrom(p0, np)
      /\ engine'.links = TableFrom(l0, nl) /\ engine'.metadatas = TableFrom(m0, nm)
  BY <1>4
<1>6. /\ Len(engine'.folders) = nf /\ NoRepetition(engine'.folders)
      /\ \A i \in 1..nf : folder'[engine'.folders[i]] = ParseFolder(disk.folders[i])
  <2>1. \A g \in guid..(guid + nf - 1) : folder'[g] = ParseFolder(disk.folders[g - guid + 1])
    BY <1>4
  <2>2. Numbered(TableFrom(guid, nf), guid, nf)
    BY <1>1, ReadTable
  <2>3. Numbered(engine'.folders, guid, nf)
    BY <1>5, <2>2
  <2> QED BY <2>1, <2>3 DEF Numbered
<1>7. /\ Len(engine'.paths) = np /\ NoRepetition(engine'.paths)
      /\ \A i \in 1..np : path'[engine'.paths[i]] = ParsePath(disk.paths[i])
      /\ \A i \in 1..np : engine'.paths[i] = p0 + i - 1
  <2>1. \A g \in p0..(p0 + np - 1) : path'[g] = ParsePath(disk.paths[g - p0 + 1])
    BY <1>4
  <2>2. Numbered(TableFrom(p0, np), p0, np)
    BY <1>1, <1>3, ReadTable
  <2>3. Numbered(engine'.paths, p0, np)
    BY <1>5, <2>2
  <2> QED BY <2>1, <2>3 DEF Numbered
<1>8. /\ Len(engine'.links) = nl /\ NoRepetition(engine'.links)
      /\ \A i \in 1..nl : link'[engine'.links[i]] = ParseLink(disk.links[i])
  <2>1. \A g \in l0..(l0 + nl - 1) : link'[g] = ParseLink(disk.links[g - l0 + 1])
    BY <1>4
  <2>2. Numbered(TableFrom(l0, nl), l0, nl)
    BY <1>1, <1>3, ReadTable
  <2>3. Numbered(engine'.links, l0, nl)
    BY <1>5, <2>2
  <2> QED BY <2>1, <2>3 DEF Numbered
<1>9. /\ Len(engine'.metadatas) = nm /\ NoRepetition(engine'.metadatas)
      /\ \A i \in 1..nm : metadata'[engine'.metadatas[i]] = ParseMetadata(disk.metadatas[i])
  <2>1. \A g \in m0..(m0 + nm - 1) : metadata'[g] = ParseMetadata(disk.metadatas[g - m0 + 1])
    BY <1>4
  <2>2. Numbered(TableFrom(m0, nm), m0, nm)
    BY <1>1, <1>3, ReadTable
  <2>3. Numbered(engine'.metadatas, m0, nm)
    BY <1>5, <2>2
  <2> QED BY <2>1, <2>3 DEF Numbered
<1>10. AsRead'
  BY <1>0, <1>4, <1>6, <1>7, <1>8, <1>9 DEF AsRead, NoRepetition
<1> QED
  BY <1>0, <1>2, <1>4, <1>6, <1>7, <1>10 DEF NoRepetition

\* An engine that has been read has nothing resolved, unless it has no records.
LEMMA ReadIsUnresolved ==
  ASSUME TypeOK, Read, Settled'
  PROVE  /\ Len(engine.folders') = 0 /\ Len(engine.paths') = 0
         /\ Len(engine.links') = 0
         /\ Len(disk.folders) = 0 /\ Len(disk.paths) = 0 /\ Len(disk.links) = 0
<1>1. AsRead' /\ disk' = disk
  BY ReadEngine DEF Read
<1>2. Len(disk.folders) \in Nat /\ Len(disk.paths) \in Nat /\ Len(disk.links) \in Nat
  BY LenProperties DEF TypeOK, IsImage
<1>3. ASSUME Len(disk.folders) # 0 PROVE FALSE
  <2>1. 1 \in 1..Len(disk.folders)
    BY <1>2, <1>3
  <2>2. folder'[engine'.folders[1]] = ParseFolder(disk.folders[1])
        /\ engine'.folders[1] \in Cells(engine'.folders)
    BY <1>1, <2>1 DEF AsRead, Cells
  <2> QED BY <2>2 DEF Settled, ParseFolder, Span, IsSet
<1>4. ASSUME Len(disk.paths) # 0 PROVE FALSE
  <2>1. 1 \in 1..Len(disk.paths)
    BY <1>2, <1>4
  <2>2. path'[engine'.paths[1]] = ParsePath(disk.paths[1])
        /\ engine'.paths[1] \in Cells(engine'.paths)
    BY <1>1, <2>1 DEF AsRead, Cells
  <2> QED BY <2>2 DEF Settled, ParsePath, Span, IsSet
<1>5. ASSUME Len(disk.links) # 0 PROVE FALSE
  <2>1. 1 \in 1..Len(disk.links)
    BY <1>2, <1>5
  <2>2. link'[engine'.links[1]] = ParseLink(disk.links[1])
        /\ engine'.links[1] \in Cells(engine'.links)
    BY <1>1, <2>1 DEF AsRead, Cells
  <2> QED BY <2>2 DEF Settled, ParseLink, Unresolved, IsCell
<1> QED
  BY <1>1, <1>3, <1>4, <1>5 DEF AsRead

LEMMA CarefulRead ==
  TypeOK /\ CarefulInvariant /\ IsCareful /\ Read /\ UNCHANGED client => CarefulInvariant'
<1> SUFFICES ASSUME TypeOK, CarefulInvariant, IsCareful, Read, UNCHANGED client
             PROVE  CarefulInvariant'
  OBVIOUS
<1>1. IsSound(disk) /\ disk' = disk /\ pc' = "idle"
  BY DEF CarefulInvariant, Read
<1>2. /\ AsRead' /\ NoRepetition(engine'.folders)
      /\ engine'.pathLookup = LookupOf(disk.paths, guid + Len(disk.folders), {})
      /\ \A i \in 1..Len(disk.paths) :
           engine'.paths[i] = guid + Len(disk.folders) + i - 1
  BY ReadEngine
<1>3. /\ Len(engine'.paths) = Len(disk.paths) /\ Len(engine'.links) = Len(disk.links)
      /\ Len(disk.paths) \in Nat
      /\ \A i \in 1..Len(disk.paths) : path'[engine'.paths[i]] = ParsePath(disk.paths[i])
  BY <1>1, <1>2, LenProperties DEF AsRead, TypeOK, IsImage
<1>4. LookupNames'
  <2> DEFINE first == guid + Len(disk.folders)
             lookup == LookupOf(disk.paths, first, {})
  <2>1. \A i, h \in 1..Len(disk.paths) :
          disk.paths[i].fullPath = disk.paths[h].fullPath => i = h
    BY <1>1 DEF IsSound
  <2> HIDE DEF first
  <2>2. /\ \A n \in DOMAIN lookup : \E i \in 1..Len(disk.paths) : n = disk.paths[i].fullPath
        /\ \A i \in 1..Len(disk.paths) :
             /\ disk.paths[i].fullPath \in DOMAIN lookup
             /\ lookup[disk.paths[i].fullPath] = first + i - 1
    BY SMTT(60), <1>3, <2>1, LookupIsInverse
  <2> HIDE DEF lookup
  <2>3. \A e : ParsePath(e).fullPath = e.fullPath
    BY DEF ParsePath
  <2>4. engine'.pathLookup = lookup /\ \A i \in 1..Len(disk.paths) : engine'.paths[i] = first + i - 1
    BY <1>2 DEF lookup, first
  <2>5. ASSUME NEW i \in 1..Len(disk.paths)
        PROVE  /\ path'[engine'.paths[i]].fullPath = disk.paths[i].fullPath
               /\ lookup[path'[engine'.paths[i]].fullPath] = engine'.paths[i]
               /\ path'[engine'.paths[i]].fullPath \in DOMAIN lookup
    <3>1. path'[engine'.paths[i]] = ParsePath(disk.paths[i])
      BY <1>3
    <3>2. path'[engine'.paths[i]].fullPath = disk.paths[i].fullPath
      BY <2>3, <3>1, Zenon
    <3> QED BY <2>2, <2>4, <3>2
  <2>6. /\ \A p \in Cells(engine'.paths) : \E i \in 1..Len(disk.paths) : p = engine'.paths[i]
        /\ \A i \in 1..Len(disk.paths) : engine'.paths[i] \in Cells(engine'.paths)
    BY <1>3 DEF Cells
  <2>7. ASSUME NEW p \in Cells(engine'.paths)
        PROVE  path'[p].fullPath \in DOMAIN lookup /\ lookup[path'[p].fullPath] = p
    BY <2>5, <2>6
  <2>8. ASSUME NEW n \in DOMAIN lookup
        PROVE  \E p \in Cells(engine'.paths) : n = path'[p].fullPath
    <3>1. PICK i \in 1..Len(disk.paths) : n = disk.paths[i].fullPath
      BY <2>2
    <3>2. n = path'[engine'.paths[i]].fullPath /\ engine'.paths[i] \in Cells(engine'.paths)
      BY <2>5, <2>6, <3>1
    <3> QED BY <3>2
  <2>9. DOMAIN lookup = {path'[p].fullPath : p \in Cells(engine'.paths)}
    BY <2>7, <2>8
  <2> QED BY <2>4, <2>7, <2>9 DEF LookupNames
<1>5. TablesFit'
  BY <1>1, <1>3 DEF TablesFit, IsSound
<1>6. ASSUME Settled' PROVE PathsPlaced' /\ LinksPlaced'
  <2>1. Len(engine'.folders) = 0 /\ Len(engine'.paths) = 0
    BY <1>6, ReadIsUnresolved
  <2>2. Cells(engine'.paths) = {}
    BY <2>1 DEF Cells
  <2> QED BY <2>1, <2>2 DEF PathsPlaced, LinksPlaced
<1>7. CarefulTree'
  BY <1>1, <1>2, <1>4, <1>5, <1>6 DEF CarefulTree
<1> QED
  BY <1>1, <1>7 DEF CarefulInvariant

\* What a careful client's image cannot do to its reader.
LEMMA CarefulReads ==
  ASSUME TypeOK, CarefulInvariant, IsCareful
  PROVE  ~ReadGarbled /\ ~ReadPanics
<1>1. IsSound(disk) /\ disk.paths \in Seq(Cells(disk.paths))
  BY DEF CarefulInvariant, TypeOK, IsImage
<1> QED
  BY <1>1 DEF IsSound, ReadGarbled, ReadPanics, Aligned, Parsable

-----------------------------------------------------------------------------
(* Resolving. *)

\* The n cells of a table t after the first s.
IsSpan(u, t, s, n) ==
  Len(u) = n /\ \A i \in 1..n : s + i \in 1..Len(t) /\ u[i] = t[s + i]

LEMMA SpanOf ==
  ASSUME NEW S, NEW t \in Seq(S), NEW s \in Nat, NEW n \in Nat, s + n <= Len(t)
  PROVE  IsSpan(SubSeq(t, s + 1, s + n), t, s, n)
<1> DEFINE u == SubSeq(t, s + 1, s + n)
<1>1. Len(t) \in Nat /\ \A i \in 1..Len(t) : t[i] \in S
  BY LenProperties, ElementOfSeq
<1>2. \A i \in (s + 1)..(s + n) : i \in 1..Len(t)
  BY <1>1
<1>3. /\ u \in Seq(S)
      /\ Len(u) = IF s + 1 <= s + n THEN (s + n) - (s + 1) + 1 ELSE 0
      /\ \A i \in 1..((s + n) - (s + 1) + 1) : u[i] = t[(s + 1) + i - 1]
  <2>1. s + 1 \in Int /\ s + n \in Int /\ \A i \in (s + 1)..(s + n) : t[i] \in S
    BY <1>1, <1>2
  <2> QED BY <2>1, SubSeqProperties
<1> HIDE DEF u
<1>4. Len(u) = n
  BY <1>3
<1>5. \A i \in 1..n : u[i] = t[s + i] /\ s + i \in 1..Len(t)
  <2> SUFFICES ASSUME NEW i \in 1..n PROVE u[i] = t[s + i] /\ s + i \in 1..Len(t)
    OBVIOUS
  <2>1. i \in 1..((s + n) - (s + 1) + 1) /\ (s + 1) + i - 1 = s + i
    OBVIOUS
  <2> QED BY <1>1, <1>3, <2>1
<1>6. IsSpan(u, t, s, n)
  BY <1>4, <1>5 DEF IsSpan
<1> QED
  BY <1>6 DEF u

-----------------------------------------------------------------------------
(* Views. *)

\* Rows r1 of the metadata that rows r2 have numbered: those of a table mt, or a
\* renaming of the numbers M.
SameRows(r1, r2, mt, M) ==
  /\ \A m, k \in M : mt[m] = mt[k] => m = k
  /\ DOMAIN r1 = DOMAIN r2
  /\ \A f \in DOMAIN r1 : DOMAIN r1[f] = DOMAIN r2[f]
  /\ \A f \in DOMAIN r1 : \A i \in DOMAIN r1[f] : DOMAIN r1[f][i] = DOMAIN r2[f][i]
  /\ \A f \in DOMAIN r1 : \A i \in DOMAIN r1[f] : \A n \in DOMAIN r1[f][i] :
       r2[f][i][n] \in M /\ r1[f][i][n] = mt[r2[f][i][n]]

SameHeads(n1, h1, n2, h2, rows) ==
  \A f \in DOMAIN rows : n1[f] = n2[f] /\ \A i \in DOMAIN rows[f] : h1[f][i] = h2[f][i]

SameData(d1, d2, mt, M) == \A m \in M : d1[mt[m]] = d2[m]

\* They show the same sharing.
LEMMA SameShared ==
  ASSUME NEW r1, NEW r2, NEW mt, NEW M, SameRows(r1, r2, mt, M)
  PROVE  Shared(r1) = Shared(r2)
<1> USE DEF SameRows
<1>1. \A p : p \in Places(r1) <=>
        \E f \in DOMAIN r1 : \E i \in DOMAIN r1[f] : \E n \in DOMAIN r1[f][i] : p = <<f, i, n>>
  BY DEF Places
<1>2. \A p : p \in Places(r2) <=>
        \E f \in DOMAIN r2 : \E i \in DOMAIN r2[f] : \E n \in DOMAIN r2[f][i] : p = <<f, i, n>>
  BY DEF Places
<1>3. Places(r1) = Places(r2)
  <2>1. ASSUME NEW p PROVE p \in Places(r1) <=> p \in Places(r2)
    BY <1>1, <1>2
  <2> QED BY <2>1
<1>4. ASSUME NEW p \in Places(r1)
      PROVE  r2[p[1]][p[2]][p[3]] \in M /\ r1[p[1]][p[2]][p[3]] = mt[r2[p[1]][p[2]][p[3]]]
  <2>1. PICK f \in DOMAIN r1 : \E i \in DOMAIN r1[f] : \E n \in DOMAIN r1[f][i] : p = <<f, i, n>>
    BY <1>1
  <2>2. PICK i \in DOMAIN r1[f] : \E n \in DOMAIN r1[f][i] : p = <<f, i, n>>
    BY <2>1
  <2>3. PICK n \in DOMAIN r1[f][i] : p = <<f, i, n>>
    BY <2>2
  <2>4. p[1] = f /\ p[2] = i /\ p[3] = n
    BY <2>3
  <2> QED BY <2>4
<1>5. ASSUME NEW p \in Places(r1), NEW q \in Places(r1)
      PROVE  r1[p[1]][p[2]][p[3]] = r1[q[1]][q[2]][q[3]]
               <=> r2[p[1]][p[2]][p[3]] = r2[q[1]][q[2]][q[3]]
  BY <1>4
<1>6. ASSUME NEW s \in Places(r1) \X Places(r1)
      PROVE  r1[s[1][1]][s[1][2]][s[1][3]] = r1[s[2][1]][s[2][2]][s[2][3]]
               <=> r2[s[1][1]][s[1][2]][s[1][3]] = r2[s[2][1]][s[2][2]][s[2][3]]
  BY <1>5
<1> QED
  BY <1>3, <1>6 DEF Shared

LEMMA SameView ==
  ASSUME NEW n1, NEW h1, NEW r1, NEW d1, NEW n2, NEW h2, NEW r2, NEW d2, NEW mt, NEW M,
         SameRows(r1, r2, mt, M), SameHeads(n1, h1, n2, h2, r1), SameData(d1, d2, mt, M)
  PROVE  View(n1, h1, r1, d1) = View(n2, h2, r2, d2)
<1>1. Shared(r1) = Shared(r2)
  BY SameShared
<1> USE DEF SameRows, SameHeads, SameData
<1> DEFINE D1(f, i) == [n \in DOMAIN r1[f][i] |-> d1[r1[f][i][n]]]
           D2(f, i) == [n \in DOMAIN r2[f][i] |-> d2[r2[f][i][n]]]
           P1(f) == [i \in DOMAIN r1[f] |-> <<h1[f][i], D1(f, i)>>]
           P2(f) == [i \in DOMAIN r2[f] |-> <<h2[f][i], D2(f, i)>>]
           F1 == [f \in DOMAIN r1 |-> <<n1[f], P1(f)>>]
           F2 == [f \in DOMAIN r2 |-> <<n2[f], P2(f)>>]
<1>2. ASSUME NEW f \in DOMAIN r1, NEW i \in DOMAIN r1[f]
      PROVE  D1(f, i) = D2(f, i)
  <2>1. ASSUME NEW n \in DOMAIN r1[f][i] PROVE d1[r1[f][i][n]] = d2[r2[f][i][n]]
    OBVIOUS
  <2> QED BY <2>1
<1> HIDE DEF D1, D2
<1>3. ASSUME NEW f \in DOMAIN r1 PROVE P1(f) = P2(f)
  BY <1>2
<1> HIDE DEF P1, P2
<1>4. F1 = F2
  BY <1>3
<1> HIDE DEF F1, F2
<1>5. View(n1, h1, r1, d1) = [folders |-> F1, shared |-> Shared(r1)]
  BY DEF View, F1, P1, D1
<1>6. View(n2, h2, r2, d2) = [folders |-> F2, shared |-> Shared(r2)]
  BY DEF View, F2, P2, D2
<1> QED
  BY <1>1, <1>4, <1>5, <1>6

\* A record of a folder and of a path, made of the entries e and the cells of a
\* table, or the entries made of the records.
IsFolderOf(r, e, table) ==
  /\ r.name = e.name
  /\ IsSet(r.paths) /\ Len(r.paths.cells) = e.count
  /\ \A i \in 1..e.count :
       e.start + i \in 1..Len(table) /\ r.paths.cells[i] = table[e.start + i]

IsPathOf(r, e, table) ==
  /\ r.fullPath = e.fullPath /\ r.flags = e.flags
  /\ IsSet(r.links) /\ Len(r.links.cells) = LinkCount(e.flags)
  /\ \A n \in 1..LinkCount(e.flags) :
       e.link + n \in 1..Len(table) /\ r.links.cells[n] = table[e.link + n]

IsLinkOf(r, index, table) ==
  IsCell(r) /\ index + 1 \in 1..Len(table) /\ r.cell = table[index + 1]

\* Tables of cells and an image that say the same.
Mirrors(image, h, pt, lt, mt) ==
  /\ Len(h.table) = Len(image.folders)
  /\ Len(pt) = Len(image.paths) /\ Len(lt) = Len(image.links)
  /\ Len(mt) = Len(image.metadatas)
  /\ \A f \in 1..Len(h.table) : IsFolderOf(h.folder[h.table[f]], image.folders[f], pt)
  /\ \A i \in 1..Len(pt) : IsPathOf(h.path[pt[i]], image.paths[i], lt)
  /\ \A n \in 1..Len(lt) : IsLinkOf(h.link[lt[n]], image.links[n], mt)
  /\ \A m \in 1..Len(mt) : h.metadata[mt[m]] = image.metadatas[m]
  /\ NoRepetition(mt)

LEMMA MirrorShows ==
  ASSUME NEW image, NEW h, NEW pt, NEW lt, NEW mt, Mirrors(image, h, pt, lt, mt)
  PROVE  LiveView(h) = StoredView(image)
<1> DEFINE r1 == LiveRows(h)
           r2 == StoredRows(image)
           F == 1..Len(h.table)
           M == 1..Len(mt)
           I(f) == 1..image.folders[f].count
           N(f, i) == 1..LinkCount(StoredPath(image, f, i).flags)
<1>1. ASSUME NEW f \in F
      PROVE  /\ LiveFolder(h, f).name = image.folders[f].name
             /\ 1..Len(LiveFolder(h, f).paths.cells) = I(f)
  BY DEF Mirrors, IsFolderOf, LiveFolder
<1>2. ASSUME NEW f \in F, NEW i \in I(f)
      PROVE  IsPathOf(LivePath(h, f, i), StoredPath(image, f, i), lt)
  <2>1. IsFolderOf(LiveFolder(h, f), image.folders[f], pt)
    BY DEF Mirrors, LiveFolder
  <2>2. /\ image.folders[f].start + i \in 1..Len(pt)
        /\ LiveFolder(h, f).paths.cells[i] = pt[image.folders[f].start + i]
    BY <2>1 DEF IsFolderOf
  <2> QED BY <2>2 DEF Mirrors, LivePath, StoredPath
<1>3. ASSUME NEW f \in F, NEW i \in I(f), NEW n \in N(f, i)
      PROVE  IsLinkOf(LiveLink(h, f, i, n),
                      image.links[StoredPath(image, f, i).link + n], mt)
  <2>1. IsPathOf(LivePath(h, f, i), StoredPath(image, f, i), lt)
    BY <1>2
  <2>2. /\ StoredPath(image, f, i).link + n \in 1..Len(lt)
        /\ LivePath(h, f, i).links.cells[n] = lt[StoredPath(image, f, i).link + n]
    BY <2>1 DEF IsPathOf
  <2> QED BY <2>2 DEF Mirrors, LiveLink
<1>4. ASSUME NEW f \in F, NEW i \in I(f)
      PROVE  1..Len(LivePath(h, f, i).links.cells) = N(f, i)
  BY <1>2 DEF IsPathOf
<1> HIDE DEF I, N
<1>5. /\ DOMAIN r1 = F /\ DOMAIN r2 = F
      /\ \A f \in F : DOMAIN r1[f] = I(f) /\ DOMAIN r2[f] = I(f)
      /\ \A f \in F : \A i \in I(f) : DOMAIN r1[f][i] = N(f, i) /\ DOMAIN r2[f][i] = N(f, i)
      /\ \A f \in F : \A i \in I(f) : \A n \in N(f, i) :
           /\ r1[f][i][n] = LiveLink(h, f, i, n).cell
           /\ r2[f][i][n] = image.links[StoredPath(image, f, i).link + n] + 1
  <2>1. r1 = [f \in F |-> [i \in I(f) |-> [n \in N(f, i) |-> LiveLink(h, f, i, n).cell]]]
    <3>1. r1 = [f \in F |-> [i \in 1..Len(LiveFolder(h, f).paths.cells) |->
                  [n \in 1..Len(LivePath(h, f, i).links.cells) |-> LiveLink(h, f, i, n).cell]]]
      BY DEF LiveRows
    <3>2. ASSUME NEW f \in F, NEW i \in I(f)
          PROVE  [n \in 1..Len(LivePath(h, f, i).links.cells) |-> LiveLink(h, f, i, n).cell]
                   = [n \in N(f, i) |-> LiveLink(h, f, i, n).cell]
      BY <1>4
    <3>3. ASSUME NEW f \in F
          PROVE  [i \in 1..Len(LiveFolder(h, f).paths.cells) |->
                    [n \in 1..Len(LivePath(h, f, i).links.cells) |-> LiveLink(h, f, i, n).cell]]
                   = [i \in I(f) |-> [n \in N(f, i) |-> LiveLink(h, f, i, n).cell]]
      BY <1>1, <3>2
    <3> QED BY <3>1, <3>3
  <2>2. r2 = [f \in F |-> [i \in I(f) |-> [n \in N(f, i) |->
                image.links[StoredPath(image, f, i).link + n] + 1]]]
    <3>1. Len(h.table) = Len(image.folders)
      BY DEF Mirrors
    <3> QED BY <3>1 DEF StoredRows, I, N
  <2> QED BY <2>1, <2>2
<1>6. ASSUME NEW f \in F
      PROVE  LiveNames(h)[f] = StoredNames(image)[f]
  <2>1. Len(h.table) = Len(image.folders)
    BY DEF Mirrors
  <2> QED BY <1>1, <2>1 DEF LiveNames, StoredNames
<1>7. ASSUME NEW f \in F, NEW i \in I(f)
      PROVE  LiveHeads(h)[f][i] = StoredHeads(image)[f][i]
  <2>1. Len(h.table) = Len(image.folders)
    BY DEF Mirrors
  <2>2. LiveHeads(h)[f][i] = <<LivePath(h, f, i).fullPath, LivePath(h, f, i).flags>>
    BY <1>1 DEF LiveHeads
  <2>3. StoredHeads(image)[f][i] =
          <<StoredPath(image, f, i).fullPath, StoredPath(image, f, i).flags>>
    BY <2>1 DEF StoredHeads, I
  <2> QED BY <1>2, <2>2, <2>3 DEF IsPathOf
<1>8. ASSUME NEW f \in F, NEW i \in I(f), NEW n \in N(f, i)
      PROVE  r2[f][i][n] \in M /\ r1[f][i][n] = mt[r2[f][i][n]]
  BY <1>3, <1>5 DEF IsLinkOf
<1>9. /\ \A m, k \in M : mt[m] = mt[k] => m = k
      /\ \A m \in M : h.metadata[mt[m]] = image.metadatas[m]
  BY DEF Mirrors, NoRepetition
<1> HIDE DEF r1, r2, F, M
<1>9a. SameRows(r1, r2, mt, M)
  BY <1>5, <1>8, <1>9 DEF SameRows
<1>9b. SameHeads(LiveNames(h), LiveHeads(h), StoredNames(image), StoredHeads(image), r1)
  BY <1>5, <1>6, <1>7 DEF SameHeads
<1>9c. SameData(h.metadata, image.metadatas, mt, M)
  BY <1>9 DEF SameData
<1>10. View(LiveNames(h), LiveHeads(h), r1, h.metadata)
         = View(StoredNames(image), StoredHeads(image), r2, image.metadatas)
  BY <1>9a, <1>9b, <1>9c, SameView
<1> QED
  BY <1>10 DEF LiveView, StoredView, r1, r2

-----------------------------------------------------------------------------
(* Resolving a sound image. *)

LEMMA SmallIndex ==
  INVALID_INDEX \in Nat /\ \A i \in 0..INVALID_INDEX : HashKeyIndex(i) = i
<1>1. INVALID_INDEX \in Nat
  BY SMT DEF INVALID_INDEX
<1>2. ASSUME NEW n \in Nat, n <= INVALID_INDEX PROVE HashKeyIndex(n) = n
  BY <1>2, SMT DEF HashKeyIndex, INVALID_INDEX
<1> QED
  BY <1>1, <1>2

LEMMA ResolvedFolder ==
  ASSUME NEW S, NEW t \in Seq(S), NEW e, e.start \in Nat, e.count \in 0..INVALID_INDEX,
         e.start + e.count <= Len(t),
         NEW r, r = [ParseFolder(e) EXCEPT !.paths = ResolveSpan(@, t)]
  PROVE  IsFolderOf(r, e, t)
<1> DEFINE cells == SubSeq(t, e.start + 1, e.start + e.count)
<1>1. HashKeyIndex(e.count) = e.count
  BY SmallIndex
<1>2. ParseFolder(e) = [name |-> e.name, paths |-> Span(e.start, e.count)]
  BY <1>1 DEF ParseFolder
<1>3. ResolveSpan(Span(e.start, e.count), t) = Set(cells)
  BY DEF ResolveSpan, Span, IsSet
<1> HIDE DEF cells
<1>4. r = [name |-> e.name, paths |-> Set(cells)]
  BY <1>2, <1>3
<1>5. /\ Len(cells) = e.count
      /\ \A i \in 1..e.count : cells[i] = t[e.start + i] /\ e.start + i \in 1..Len(t)
  <2>1. e.count \in Nat
    BY SmallIndex
  <2>2. IsSpan(cells, t, e.start, e.count)
    BY <2>1, SpanOf DEF cells
  <2> QED BY <2>2 DEF IsSpan
<1> QED
  BY <1>4, <1>5 DEF IsFolderOf, Set, IsSet

LEMMA LinkCounts == \A flags : LinkCount(flags) \in Nat /\ LinkCount(flags) >= 1
BY CountsOK DEF LinkCount

LEMMA ResolvedPath ==
  ASSUME NEW S, NEW t \in Seq(S), NEW e, e.link \in 0..INVALID_INDEX,
         e.link + LinkCount(e.flags) <= Len(t),
         NEW r, r = [ParsePath(e) EXCEPT !.links = ResolveSpan(@, t)]
  PROVE  IsPathOf(r, e, t)
<1> DEFINE cells == SubSeq(t, e.link + 1, e.link + LinkCount(e.flags))
<1>1. HashKeyIndex(e.link) = e.link
  BY SmallIndex
<1>2. ParsePath(e) = [fullPath |-> e.fullPath, flags |-> e.flags,
                      links |-> Span(e.link, LinkCount(e.flags))]
  BY <1>1 DEF ParsePath
<1>3. ResolveSpan(Span(e.link, LinkCount(e.flags)), t) = Set(cells)
  BY DEF ResolveSpan, Span, IsSet
<1> HIDE DEF cells
<1>4. r = [fullPath |-> e.fullPath, flags |-> e.flags, links |-> Set(cells)]
  BY <1>2, <1>3
<1>5. /\ Len(cells) = LinkCount(e.flags)
      /\ \A n \in 1..LinkCount(e.flags) :
           cells[n] = t[e.link + n] /\ e.link + n \in 1..Len(t)
  <2>1. e.link \in Nat /\ LinkCount(e.flags) \in Nat
    BY LinkCounts, SmallIndex
  <2>2. IsSpan(cells, t, e.link, LinkCount(e.flags))
    BY <2>1, SpanOf DEF cells
  <2> QED BY <2>2 DEF IsSpan
<1> QED
  BY <1>4, <1>5 DEF IsPathOf, Set, IsSet

\* The numbers of a sound image.
LEMMA SoundNumbers ==
  ASSUME TypeOK, IsSound(disk)
  PROVE  /\ Len(disk.folders) \in Nat /\ Len(disk.paths) \in Nat
         /\ Len(disk.links) \in Nat /\ Len(disk.metadatas) \in Nat
         /\ \A f \in 1..Len(disk.folders) :
              /\ disk.folders[f].start \in Nat
              /\ disk.folders[f].count \in 0..INVALID_INDEX
              /\ disk.folders[f].start + disk.folders[f].count <= Len(disk.paths)
         /\ \A i \in 1..Len(disk.paths) :
              /\ disk.paths[i].link \in 0..INVALID_INDEX
              /\ disk.paths[i].link + LinkCount(disk.paths[i].flags) <= Len(disk.links)
         /\ \A n \in 1..Len(disk.links) : disk.links[n] + 1 \in 1..Len(disk.metadatas)
<1>1. /\ Len(disk.folders) \in Nat /\ Len(disk.paths) \in Nat
      /\ Len(disk.links) \in Nat /\ Len(disk.metadatas) \in Nat
      /\ \A n \in 1..Len(disk.links) : disk.links[n] \in Nat
  BY LenProperties, ElementOfSeq DEF TypeOK, IsImage
<1>2. ASSUME NEW f \in 1..Len(disk.folders)
      PROVE  /\ disk.folders[f].start \in Nat
             /\ disk.folders[f].count \in 0..INVALID_INDEX
             /\ disk.folders[f].start + disk.folders[f].count <= Len(disk.paths)
  <2>1. disk.folders[f].start \in Nat /\ disk.folders[f].count \in Nat
    BY DEF TypeOK, IsImage, Cells
  <2>2. /\ disk.folders[f].start + disk.folders[f].count <= Len(disk.paths)
        /\ Len(disk.paths) <= INVALID_INDEX
    BY DEF IsSound
  <2> QED BY <1>1, <2>1, <2>2, SmallIndex
<1>3. ASSUME NEW i \in 1..Len(disk.paths)
      PROVE  /\ disk.paths[i].link \in 0..INVALID_INDEX
             /\ disk.paths[i].link + LinkCount(disk.paths[i].flags) <= Len(disk.links)
  <2>1. disk.paths[i].link \in Nat
    BY DEF TypeOK, IsImage, Cells
  <2>2. /\ disk.paths[i].link + LinkCount(disk.paths[i].flags) <= Len(disk.links)
        /\ Len(disk.links) <= INVALID_INDEX
    BY DEF IsSound
  <2> QED BY <1>1, <2>1, <2>2, LinkCounts, SmallIndex
<1>4. ASSUME NEW n \in 1..Len(disk.links) PROVE disk.links[n] + 1 \in 1..Len(disk.metadatas)
  <2>1. disk.links[n] < Len(disk.metadatas)
    BY DEF IsSound
  <2> QED BY <1>1, <2>1
<1> QED
  BY <1>1, <1>2, <1>3, <1>4

\* An index that an engine has been read with is one of its tables.
LEMMA CarefulResolves ==
  ASSUME TypeOK, CarefulInvariant, IsCareful
  PROVE  ~ResolvePanics
<1> SUFFICES ASSUME pc = "idle" PROVE Resolvable
  BY DEF ResolvePanics
<1>1. IsSound(disk) /\ CarefulTree
  BY DEF CarefulInvariant, Open
<1>2. CASE Settled
  <2>1. \A l : IsCell(l) => ~IsUnresolved(l)
    BY DEF IsCell, IsUnresolved
  <2> QED BY <1>2, <2>1 DEF Settled, Resolvable, SpanFits
<1>3. CASE ~Settled
  <2>1. AsRead
    BY <1>1, <1>3 DEF CarefulTree
  <2>2. ASSUME NEW f \in 1..Len(disk.folders)
        PROVE  SpanFits(folder[engine.folders[f]].paths, engine.paths)
    <3>1. /\ disk.folders[f].count \in 0..INVALID_INDEX
          /\ disk.folders[f].start + disk.folders[f].count <= Len(engine.paths)
          /\ folder[engine.folders[f]] = ParseFolder(disk.folders[f])
      BY <1>1, <2>1, SoundNumbers DEF AsRead
    <3> QED BY <3>1, SmallIndex DEF ParseFolder, Span, SpanFits
  <2>3. ASSUME NEW i \in 1..Len(disk.paths)
        PROVE  SpanFits(path[engine.paths[i]].links, engine.links)
    <3>1. /\ disk.paths[i].link \in 0..INVALID_INDEX
          /\ disk.paths[i].link + LinkCount(disk.paths[i].flags) <= Len(engine.links)
          /\ path[engine.paths[i]] = ParsePath(disk.paths[i])
      BY <1>1, <2>1, SoundNumbers DEF AsRead
    <3> QED BY <3>1, SmallIndex DEF ParsePath, Span, SpanFits
  <2>4. ASSUME NEW n \in 1..Len(disk.links)
        PROVE  InBounds(engine.metadatas, link[engine.links[n]].index)
    <3>1. link[engine.links[n]] = Unresolved(disk.links[n])
      BY <2>1 DEF AsRead, ParseLink
    <3>2. disk.links[n] < Len(disk.metadatas)
      BY <1>1 DEF IsSound
    <3> QED BY <2>1, <3>1, <3>2 DEF AsRead, InBounds, Unresolved
  <2> QED BY <2>1, <2>2, <2>3, <2>4 DEF Resolvable, AsRead, Cells
<1> QED
  BY <1>2, <1>3

\* What resolving makes of an engine just read.
LEMMA ResolveMirrors ==
  ASSUME TypeOK, AsRead, IsSound(disk), ResolveAll,
         NEW h, h.table = engine.folders, h.folder = folder', h.path = path',
         h.link = link', h.metadata = metadata'
  PROVE  Mirrors(disk, h, engine.paths, engine.links, engine.metadatas)
<1>1. /\ engine.folders \in Seq(DOMAIN folder) /\ engine.paths \in Seq(DOMAIN path)
      /\ engine.links \in Seq(DOMAIN link) /\ engine.metadatas \in Seq(DOMAIN metadata)
  BY DEF TypeOK
<1>2. /\ Len(engine.folders) = Len(disk.folders) /\ Len(engine.paths) = Len(disk.paths)
      /\ Len(engine.links) = Len(disk.links)
      /\ Len(engine.metadatas) = Len(disk.metadatas)
      /\ NoRepetition(engine.metadatas)
  BY DEF AsRead
<1>3. ASSUME NEW f \in 1..Len(engine.folders)
      PROVE  IsFolderOf(folder'[engine.folders[f]], disk.folders[f], engine.paths)
  <2>1. /\ engine.folders[f] \in DOMAIN folder /\ engine.folders[f] \in Cells(engine.folders)
        /\ folder[engine.folders[f]] = ParseFolder(disk.folders[f])
    BY <1>1, <1>2, ElementOfSeq DEF AsRead, Cells
  <2>2. folder'[engine.folders[f]] =
          [ParseFolder(disk.folders[f]) EXCEPT !.paths = ResolveSpan(@, engine.paths)]
    BY <2>1 DEF ResolveAll
  <2>3. /\ disk.folders[f].start \in Nat /\ disk.folders[f].count \in 0..INVALID_INDEX
        /\ disk.folders[f].start + disk.folders[f].count <= Len(engine.paths)
    BY <1>2, SoundNumbers
  <2> QED BY <1>1, <2>2, <2>3, ResolvedFolder
<1>4. ASSUME NEW i \in 1..Len(engine.paths)
      PROVE  IsPathOf(path'[engine.paths[i]], disk.paths[i], engine.links)
  <2>1. /\ engine.paths[i] \in DOMAIN path /\ engine.paths[i] \in Cells(engine.paths)
        /\ path[engine.paths[i]] = ParsePath(disk.paths[i])
    BY <1>1, <1>2, ElementOfSeq DEF AsRead, Cells
  <2>2. path'[engine.paths[i]] =
          [ParsePath(disk.paths[i]) EXCEPT !.links = ResolveSpan(@, engine.links)]
    BY <2>1 DEF ResolveAll
  <2>3. /\ disk.paths[i].link \in 0..INVALID_INDEX
        /\ disk.paths[i].link + LinkCount(disk.paths[i].flags) <= Len(engine.links)
    BY <1>2, SoundNumbers
  <2> QED BY <1>1, <2>2, <2>3, ResolvedPath
<1>5. ASSUME NEW n \in 1..Len(engine.links)
      PROVE  IsLinkOf(link'[engine.links[n]], disk.links[n], engine.metadatas)
  <2>1. /\ engine.links[n] \in DOMAIN link /\ engine.links[n] \in Cells(engine.links)
        /\ link[engine.links[n]] = Unresolved(disk.links[n])
        /\ disk.links[n] + 1 \in 1..Len(engine.metadatas)
    BY <1>1, <1>2, ElementOfSeq, SoundNumbers DEF AsRead, Cells, ParseLink
  <2>2. link'[engine.links[n]] = Resolved(engine.metadatas[disk.links[n] + 1])
    BY <2>1 DEF ResolveAll, Resolve, Unresolved, IsUnresolved, CellAt
  <2> QED BY <2>1, <2>2 DEF IsLinkOf, Resolved, IsCell
<1>6. \A m \in 1..Len(engine.metadatas) :
        metadata'[engine.metadatas[m]] = disk.metadatas[m]
  BY <1>2 DEF ResolveAll, AsRead, ParseMetadata
<1> QED
  BY <1>2, <1>3, <1>4, <1>5, <1>6 DEF Mirrors

\* The engine's tree is one as far as references, names and flags tell.
LEMMA TreeKept ==
  ASSUME TypeOK, LookupNames, PathsPlaced, LinksPlaced, engine' = engine,
         \A f \in Cells(engine.folders) : folder'[f].paths.cells = folder[f].paths.cells,
         \A p \in Cells(engine.paths) :
           /\ path'[p].links.cells = path[p].links.cells
           /\ path'[p].flags = path[p].flags /\ path'[p].fullPath = path[p].fullPath
  PROVE  LookupNames' /\ PathsPlaced' /\ LinksPlaced'
<1>1. \A f \in 1..Len(engine.folders) :
        folder'[engine.folders[f]].paths.cells = folder[engine.folders[f]].paths.cells
  BY DEF Cells
<1>2. PathsPlaced'
  BY <1>1 DEF PathsPlaced
<1>3. LinksPlaced'
  BY DEF LinksPlaced
<1>4. LookupNames'
  BY DEF LookupNames
<1> QED
  BY <1>2, <1>3, <1>4

\* The spans of a sound image, as cells.
LEMMA MirrorPlaces ==
  ASSUME TypeOK, AsRead, IsSound(disk), ResolveAll
  PROVE  Settled' /\ PathsPlaced' /\ LinksPlaced' /\ (LookupNames => LookupNames')
<1> DEFINE h == [table |-> engine.folders, folder |-> folder', path |-> path',
                 link |-> link', metadata |-> metadata']
<1>1. Mirrors(disk, h, engine.paths, engine.links, engine.metadatas)
  <2>1. /\ h.table = engine.folders /\ h.folder = folder' /\ h.path = path'
        /\ h.link = link' /\ h.metadata = metadata'
    OBVIOUS
  <2> HIDE DEF h
  <2> QED BY <2>1, ResolveMirrors
<1>2. /\ Len(engine.folders) = Len(disk.folders) /\ Len(engine.paths) = Len(disk.paths)
      /\ Len(engine.links) = Len(disk.links)
      /\ NoRepetition(engine.paths) /\ NoRepetition(engine.links)
      /\ \A i \in 1..Len(disk.paths) : path[engine.paths[i]] = ParsePath(disk.paths[i])
  BY DEF AsRead
<1>3. /\ \A f \in 1..Len(engine.folders) :
           IsFolderOf(folder'[engine.folders[f]], disk.folders[f], engine.paths)
      /\ \A i \in 1..Len(engine.paths) :
           IsPathOf(path'[engine.paths[i]], disk.paths[i], engine.links)
      /\ \A n \in 1..Len(engine.links) :
           IsLinkOf(link'[engine.links[n]], disk.links[n], engine.metadatas)
  BY <1>1 DEF Mirrors
<1>4. engine' = engine
  BY DEF ResolveAll
<1>5. Settled'
  BY <1>3, <1>4 DEF Settled, Cells, IsFolderOf, IsPathOf, IsLinkOf
<1>6. PathsPlaced'
  <2> DEFINE F == 1..Len(engine.folders)
             cells(f) == folder'[engine.folders[f]].paths.cells
             start(f) == disk.folders[f].start
             count(f) == disk.folders[f].count
  <2>1. ASSUME NEW f \in F
        PROVE  /\ start(f) \in Nat /\ count(f) \in Nat /\ Len(cells(f)) = count(f)
               /\ \A i \in 1..count(f) : /\ start(f) + i \in 1..Len(engine.paths)
                                         /\ cells(f)[i] = engine.paths[start(f) + i]
    <3>1. disk.folders[f].start \in Nat /\ disk.folders[f].count \in 0..INVALID_INDEX
      BY <1>2, SoundNumbers
    <3> QED BY <1>3, <3>1, SmallIndex DEF IsFolderOf
  <2>2. /\ \A i \in 1..Len(engine.paths) : \E f \in F : InSpan(i, start(f), count(f))
        /\ \A i \in 1..Len(engine.paths) : \A f, g \in F :
             InSpan(i, start(f), count(f)) /\ InSpan(i, start(g), count(g)) => f = g
    BY <1>2 DEF IsSound
  <2>3. Len(engine.paths) \in Nat
    BY <1>2, SoundNumbers
  <2> HIDE DEF cells, start, count, F
  <2>4. ASSUME NEW f \in F, NEW p \in Cells(cells(f))
        PROVE  \E i \in 1..Len(engine.paths) :
                 p = engine.paths[i] /\ InSpan(i, start(f), count(f))
    <3>1. PICK i \in 1..count(f) : p = cells(f)[i]
      BY <2>1 DEF Cells
    <3>2. start(f) + i \in 1..Len(engine.paths) /\ p = engine.paths[start(f) + i]
      BY <2>1, <3>1
    <3>3. InSpan(start(f) + i, start(f), count(f))
      BY <2>1 DEF InSpan
    <3> QED BY <3>2, <3>3
  <2>5. \A f \in F : Cells(cells(f)) \subseteq Cells(engine.paths)
    BY <2>4 DEF Cells
  <2>6. ASSUME NEW p \in Cells(engine.paths) PROVE \E f \in F : p \in Cells(cells(f))
    <3>1. PICK j \in 1..Len(engine.paths) : p = engine.paths[j]
      BY DEF Cells
    <3>2. PICK f \in F : InSpan(j, start(f), count(f))
      BY <2>2
    <3>3. j - start(f) \in 1..count(f) /\ start(f) + (j - start(f)) = j
      BY <2>1, <2>3, <3>2 DEF InSpan
    <3>4. cells(f)[j - start(f)] = p /\ j - start(f) \in 1..Len(cells(f))
      BY <2>1, <3>1, <3>3
    <3> QED BY <3>4 DEF Cells
  <2>7. ASSUME NEW f \in F PROVE NoRepetition(cells(f))
    <3> SUFFICES ASSUME NEW i \in 1..count(f), NEW k \in 1..count(f), cells(f)[i] = cells(f)[k]
                 PROVE  i = k
      BY <2>1 DEF NoRepetition
    <3>1. PICK a, b : a = start(f) + i /\ b = start(f) + k
      OBVIOUS
    <3>2. /\ a \in 1..Len(engine.paths) /\ b \in 1..Len(engine.paths)
          /\ engine.paths[a] = engine.paths[b]
      BY <2>1, <3>1
    <3>3. a = b
      BY <1>2, <3>2 DEF NoRepetition
    <3> QED BY <2>1, <3>1, <3>3
  <2>8. ASSUME NEW f \in F, NEW g \in F, NEW p \in Cells(cells(f)), p \in Cells(cells(g))
        PROVE  f = g
    <3>1. PICK i \in 1..Len(engine.paths) :
            p = engine.paths[i] /\ InSpan(i, start(f), count(f))
      BY <2>4
    <3>2. PICK k \in 1..Len(engine.paths) :
            p = engine.paths[k] /\ InSpan(k, start(g), count(g))
      BY <2>4, <2>8
    <3>3. i = k
      BY <1>2, <3>1, <3>2 DEF NoRepetition
    <3> QED BY <2>2, <3>1, <3>2, <3>3
  <2> QED BY <1>4, <2>5, <2>6, <2>7, <2>8 DEF PathsPlaced, F, cells
<1>7. LinksPlaced'
  <2> DEFINE P == 1..Len(engine.paths)
             cells(i) == path'[engine.paths[i]].links.cells
             start(i) == disk.paths[i].link
             count(i) == LinkCount(disk.paths[i].flags)
  <2>1. ASSUME NEW i \in P
        PROVE  /\ start(i) \in Nat /\ count(i) \in Nat /\ Len(cells(i)) = count(i)
               /\ count(i) = LinkCount(path'[engine.paths[i]].flags)
               /\ \A n \in 1..count(i) : /\ start(i) + n \in 1..Len(engine.links)
                                         /\ cells(i)[n] = engine.links[start(i) + n]
    <3>1. disk.paths[i].link \in 0..INVALID_INDEX
      BY <1>2, SoundNumbers
    <3>2. IsPathOf(path'[engine.paths[i]], disk.paths[i], engine.links)
      BY <1>3
    <3> QED BY <3>1, <3>2, SmallIndex, LinkCounts DEF IsPathOf
  <2>2. \A n \in 1..Len(engine.links) : \A i, k \in P :
          InSpan(n, start(i), count(i)) /\ InSpan(n, start(k), count(k)) => i = k
    BY <1>2 DEF IsSound
  <2> HIDE DEF cells, start, count
  <2>3. ASSUME NEW i \in P, NEW l \in Cells(cells(i))
        PROVE  \E n \in 1..Len(engine.links) :
                 l = engine.links[n] /\ InSpan(n, start(i), count(i))
    <3>1. PICK n \in 1..count(i) : l = cells(i)[n]
      BY <2>1 DEF Cells
    <3>2. start(i) + n \in 1..Len(engine.links) /\ l = engine.links[start(i) + n]
      BY <2>1, <3>1
    <3>3. InSpan(start(i) + n, start(i), count(i))
      BY <2>1 DEF InSpan
    <3> QED BY <3>2, <3>3
  <2>4. ASSUME NEW i \in P
        PROVE  /\ Cells(cells(i)) \subseteq Cells(engine.links)
               /\ Len(cells(i)) = LinkCount(path'[engine.paths[i]].flags)
               /\ NoRepetition(cells(i))
    <3>1. Cells(cells(i)) \subseteq Cells(engine.links)
      BY <2>3 DEF Cells
    <3>2. ASSUME NEW m \in 1..count(i), NEW n \in 1..count(i), cells(i)[m] = cells(i)[n]
          PROVE  m = n
      <4>1. PICK a, b : a = start(i) + m /\ b = start(i) + n
        OBVIOUS
      <4>2. /\ a \in 1..Len(engine.links) /\ b \in 1..Len(engine.links)
            /\ engine.links[a] = engine.links[b]
        BY <2>1, <3>2, <4>1
      <4>3. a = b
        BY <1>2, <4>2 DEF NoRepetition
      <4> QED BY <2>1, <4>1, <4>3
    <3> QED BY <2>1, <3>1, <3>2 DEF NoRepetition
  <2>5. ASSUME NEW i \in P, NEW k \in P, NEW l \in Cells(cells(i)), l \in Cells(cells(k))
        PROVE  i = k
    <3>1. PICK m \in 1..Len(engine.links) :
            l = engine.links[m] /\ InSpan(m, start(i), count(i))
      BY <2>3
    <3>2. PICK n \in 1..Len(engine.links) :
            l = engine.links[n] /\ InSpan(n, start(k), count(k))
      BY <2>3, <2>5
    <3>3. m = n
      BY <1>2, <3>1, <3>2 DEF NoRepetition
    <3> QED BY <2>2, <3>1, <3>2, <3>3
  <2>6. \A p \in Cells(engine.paths) : \E i \in P : p = engine.paths[i]
    BY DEF Cells
  <2>7. ASSUME NEW p \in Cells(engine.paths)
        PROVE  /\ Cells(path'[p].links.cells) \subseteq Cells(engine.links)
               /\ Len(path'[p].links.cells) = LinkCount(path'[p].flags)
               /\ NoRepetition(path'[p].links.cells)
    <3>1. PICK i \in P : p = engine.paths[i]
      BY <2>6
    <3>2. path'[p].links.cells = cells(i)
      BY <3>1 DEF cells
    <3> QED BY <2>4, <3>1, <3>2
  <2>8. ASSUME NEW p \in Cells(engine.paths), NEW q \in Cells(engine.paths),
               NEW l \in Cells(path'[p].links.cells), l \in Cells(path'[q].links.cells)
        PROVE  p = q
    <3>1. PICK i \in P : p = engine.paths[i]
      BY <2>6
    <3>2. PICK k \in P : q = engine.paths[k]
      BY <2>6
    <3>3. path'[p].links.cells = cells(i) /\ path'[q].links.cells = cells(k)
      BY <3>1, <3>2 DEF cells
    <3>4. i = k
      BY <2>5, <2>8, <3>3
    <3> QED BY <3>1, <3>2, <3>4
  <2> QED BY <1>4, <2>7, <2>8 DEF LinksPlaced
<1>8. ASSUME LookupNames PROVE LookupNames'
  <2>1. ASSUME NEW p \in Cells(engine.paths) PROVE path'[p].fullPath = path[p].fullPath
    <3>1. PICK i \in 1..Len(engine.paths) : p = engine.paths[i]
      BY DEF Cells
    <3>2. path[p].fullPath = disk.paths[i].fullPath
      <4>1. \A e : ParsePath(e).fullPath = e.fullPath
        BY DEF ParsePath
      <4>2. path[p] = ParsePath(disk.paths[i])
        BY <1>2, <3>1
      <4> QED BY <4>1, <4>2, Zenon
    <3>3. path'[p].fullPath = disk.paths[i].fullPath
      BY <1>3, <3>1 DEF IsPathOf
    <3> QED BY <3>2, <3>3
  <2> QED BY <1>4, <1>8, <2>1 DEF LookupNames
<1> QED
  BY <1>5, <1>6, <1>7, <1>8

\* Resolving what is resolved changes nothing.
LEMMA ResolvedAlready ==
  ASSUME TypeOK, Settled, ResolveAll
  PROVE  /\ \A f \in DOMAIN folder : folder'[f] = folder[f]
         /\ \A p \in DOMAIN path : path'[p] = path[p]
         /\ \A l \in DOMAIN link : link'[l] = link[l]
<1>1. ASSUME NEW f \in DOMAIN folder PROVE folder'[f] = folder[f]
  <2>1. CASE f \in Cells(engine.folders)
    <3>1. folder'[f] = [folder[f] EXCEPT !.paths = folder[f].paths]
      BY <2>1 DEF ResolveAll, ResolveSpan, Settled
    <3>2. PICK n, s : folder[f] = [name |-> n, paths |-> s]
      BY DEF TypeOK, StreamFolder
    <3> QED BY <3>1, <3>2
  <2>2. CASE f \notin Cells(engine.folders)
    BY <2>2 DEF ResolveAll
  <2> QED BY <2>1, <2>2
<1>2. ASSUME NEW p \in DOMAIN path PROVE path'[p] = path[p]
  <2>1. CASE p \in Cells(engine.paths)
    <3>1. path'[p] = [path[p] EXCEPT !.links = path[p].links]
      BY <2>1 DEF ResolveAll, ResolveSpan, Settled
    <3>2. PICK n, g, s : path[p] = [fullPath |-> n, flags |-> g, links |-> s]
      BY DEF TypeOK, StreamPath
    <3> QED BY <3>1, <3>2
  <2>2. CASE p \notin Cells(engine.paths)
    BY <2>2 DEF ResolveAll
  <2> QED BY <2>1, <2>2
<1>3. ASSUME NEW l \in DOMAIN link PROVE link'[l] = link[l]
  BY DEF ResolveAll, Resolve, Settled, IsCell, IsUnresolved
<1> QED
  BY <1>1, <1>2, <1>3

LEMMA CarefulResolve ==
  TypeOK /\ CarefulInvariant /\ IsCareful /\ ResolveAll /\ UNCHANGED client
    => CarefulInvariant' /\ Settled'
<1> SUFFICES ASSUME TypeOK, CarefulInvariant, IsCareful, ResolveAll, UNCHANGED client
             PROVE  CarefulInvariant' /\ Settled'
  OBVIOUS
<1>1. /\ IsSound(disk) /\ CarefulTree
      /\ pc = "idle" /\ pc' = pc /\ disk' = disk /\ engine' = engine
  BY DEF CarefulInvariant, Open, ResolveAll
<1>2. Settled' /\ PathsPlaced' /\ LinksPlaced' /\ LookupNames'
  <2>1. CASE Settled
    <3>1. /\ \A f \in Cells(engine.folders) : folder'[f] = folder[f]
          /\ \A p \in Cells(engine.paths) : path'[p] = path[p]
          /\ \A l \in Cells(engine.links) : link'[l] = link[l]
      BY <2>1, ResolvedAlready, EngineCells
    <3>2. LookupNames /\ PathsPlaced /\ LinksPlaced
      BY <1>1, <2>1 DEF CarefulTree
    <3>3. LookupNames' /\ PathsPlaced' /\ LinksPlaced'
      BY <1>1, <3>1, <3>2, TreeKept
    <3>4. Settled'
      BY <1>1, <2>1, <3>1 DEF Settled
    <3> QED BY <3>3, <3>4
  <2>2. CASE ~Settled
    BY <1>1, <2>2, MirrorPlaces DEF CarefulTree
  <2> QED BY <2>1, <2>2
<1>3. NoRepetition(engine.folders)' /\ TablesFit'
  BY <1>1 DEF CarefulTree, NoRepetition, TablesFit
<1> QED
  BY <1>1, <1>2, <1>3 DEF CarefulInvariant, CarefulTree

-----------------------------------------------------------------------------
(* Edits. *)

\* What an edit of the records leaves of the invariant.
LEMMA CarefulKept ==
  ASSUME CarefulInvariant, IsCareful, pc = "idle", pc' = pc, client' = client,
         disk' = disk, engine' = engine,
         Settled', PathsPlaced', LinksPlaced', LookupNames'
  PROVE  CarefulInvariant'
<1>1. IsSound(disk) /\ NoRepetition(engine.folders) /\ TablesFit
  BY DEF CarefulInvariant, CarefulTree, Open
<1>2. NoRepetition(engine.folders)' /\ TablesFit'
  BY <1>1 DEF NoRepetition, TablesFit
<1>3. CarefulTree'
  BY <1>2 DEF CarefulTree
<1> QED
  BY <1>1, <1>3 DEF CarefulInvariant

LEMMA CarefulSettled ==
  ASSUME CarefulInvariant, IsCareful, pc = "idle", Settled
  PROVE  PathsPlaced /\ LinksPlaced /\ LookupNames
BY DEF CarefulInvariant, CarefulTree, Open

LEMMA CarefulLinks ==
  ASSUME TypeOK, CarefulInvariant, IsCareful, UNCHANGED client, pc = "idle",
         NEW l \in Cells(engine.links), NEW data,
         \/ \E m \in Cells(engine.metadatas) : SetMetadata(l, m)
         \/ SetNewMetadata(l, data)
         \/ ChangeMetadata(l, data)
  PROVE  CarefulInvariant' /\ Settled /\ Settled' /\ pc' = pc /\ disk' = disk
<1>1. /\ UNCHANGED <<folder, path, engine, disk, pc>> /\ Settled
  BY DEF SetMetadata, SetNewMetadata, ChangeMetadata, Careful, IsCareful
<1>2. /\ LookupNames' /\ PathsPlaced' /\ LinksPlaced'
  BY <1>1, CarefulSettled, TreeKept
<1>3. \A x \in Cells(engine.links) : IsCell(link'[x])
  <2>1. Cells(engine.links) \subseteq DOMAIN link
    BY EngineCells
  <2>2. \/ link' = link
        \/ \E m : link' = [link EXCEPT ![l] = Resolved(m)]
    BY DEF SetMetadata, SetNewMetadata, ChangeMetadata
  <2> QED BY <1>1, <2>1, <2>2 DEF Settled, Resolved, IsCell
<1>4. Settled'
  BY <1>1, <1>3 DEF Settled
<1> QED
  BY <1>1, <1>2, <1>4, CarefulKept

\* Relink keeps the first links, as many as the new flags say.
LEMMA CarefulRelink ==
  ASSUME TypeOK, CarefulInvariant, IsCareful, UNCHANGED client, pc = "idle",
         NEW p \in Cells(engine.paths), NEW n \in 0..Locales, NEW flags, Relink(p, n, flags)
  PROVE  CarefulInvariant' /\ Settled /\ Settled' /\ pc' = pc /\ disk' = disk
<1>1. /\ UNCHANGED <<folder, link, engine, disk, pc>> /\ Settled
      /\ n <= Len(path[p].links.cells) /\ n = LinkCount(flags)
      /\ path' = [path EXCEPT ![p].links = Set(SubSeq(@.cells, 1, n)), ![p].flags = flags]
  BY DEF Relink, Careful, IsCareful
<1>2. /\ p \in DOMAIN path /\ Cells(engine.paths) \subseteq DOMAIN path
      /\ path[p].links.cells \in Seq(DOMAIN link) /\ n \in Nat
  BY <1>1, EngineCells, SetCells, CountsOK DEF Settled
<1> DEFINE old == path[p].links.cells
           new == SubSeq(old, 1, n)
<1>3. IsSpan(new, old, 0, n)
  <2>0. PICK z : z = 0
    OBVIOUS
  <2>1. z \in Nat /\ z + n <= Len(old) /\ z + 1 = 1 /\ z + n = n
    BY <1>1, <1>2, <2>0
  <2> HIDE DEF old
  <2>2. old \in Seq(DOMAIN link)
    BY <1>2 DEF old
  <2>3. IsSpan(SubSeq(old, z + 1, z + n), old, z, n)
    BY <1>2, <2>1, <2>2, SpanOf
  <2> QED BY <2>0, <2>1, <2>3
<1>4. /\ Len(new) = n
      /\ \A i \in 1..n : i \in 1..Len(old) /\ new[i] = old[i]
  BY <1>2, <1>3 DEF IsSpan
<1> HIDE DEF old, new
<1>5. Cells(new) \subseteq Cells(old) /\ (NoRepetition(old) => NoRepetition(new))
  BY <1>4 DEF Cells, NoRepetition
<1>6. /\ path'[p].links = Set(new) /\ path'[p].flags = flags
      /\ path'[p].fullPath = path[p].fullPath
  <2>1. PICK r1, r2, r3 : path[p] = [fullPath |-> r1, flags |-> r2, links |-> r3]
    BY <1>2 DEF TypeOK, StreamPath
  <2>2. path'[p] = [[path[p] EXCEPT !.links = Set(new)] EXCEPT !.flags = flags]
    BY <1>1, <1>2 DEF new, old
  <2> QED BY <2>1, <2>2
<1>7. \A q \in DOMAIN path : q # p => path'[q] = path[q]
  BY <1>1
<1>8. PathsPlaced /\ LinksPlaced /\ LookupNames
  BY <1>1, CarefulSettled
<1>9. PathsPlaced'
  BY <1>1, <1>8 DEF PathsPlaced
<1>10. \A q \in Cells(engine.paths) : path'[q].fullPath = path[q].fullPath
  BY <1>2, <1>6, <1>7
<1>11. LookupNames'
  <2>1. engine' = engine
    BY <1>1
  <2> QED BY <1>8, <1>10, <2>1 DEF LookupNames
<1>12. path'[p].links.cells = new /\ Cells(new) \subseteq Cells(path[p].links.cells)
       /\ NoRepetition(new) /\ IsSet(path'[p].links)
  BY <1>5, <1>6, <1>8 DEF Set, IsSet, LinksPlaced, old
<1>13. \A q \in Cells(engine.paths) :
         Cells(path'[q].links.cells) \subseteq Cells(path[q].links.cells)
  BY <1>2, <1>7, <1>12
<1>14. LinksPlaced'
  <2>1. ASSUME NEW q \in Cells(engine.paths)
        PROVE  /\ Cells(path'[q].links.cells) \subseteq Cells(engine.links)
               /\ Len(path'[q].links.cells) = LinkCount(path'[q].flags)
               /\ NoRepetition(path'[q].links.cells)
    <3>1. CASE q = p
      BY <1>1, <1>4, <1>6, <1>8, <1>12, <3>1 DEF LinksPlaced
    <3>2. CASE q # p
      BY <1>2, <1>7, <1>8, <3>2 DEF LinksPlaced
    <3> QED BY <3>1, <3>2
  <2>2. \A q, r \in Cells(engine.paths) :
          \A x \in Cells(path'[q].links.cells) : x \in Cells(path'[r].links.cells) => q = r
    BY <1>8, <1>13 DEF LinksPlaced
  <2> QED BY <1>1, <2>1, <2>2 DEF LinksPlaced
<1>15. Settled'
  BY <1>1, <1>2, <1>7, <1>12 DEF Settled
<1> QED
  BY <1>1, <1>9, <1>11, <1>14, <1>15, CarefulKept

\* A vector without one of its cells, and with one more.
LEMMA RemovedCell ==
  ASSUME NEW S, NEW s \in Seq(S), NEW i \in 1..Len(s), NoRepetition(s),
         NEW u, u = RemoveAt(s, i)
  PROVE  NoRepetition(u) /\ Cells(u) = Cells(s) \ {s[i]}
<1>0. PICK z : z = Len(s)
  OBVIOUS
<1>1. z \in Nat /\ i \in 1..z /\ \A k \in 1..z : s[k] \in S
  BY <1>0, LenProperties, ElementOfSeq
<1> DEFINE a == SubSeq(s, 1, i - 1)
           b == SubSeq(s, i + 1, z)
<1>2. /\ a \in Seq(S) /\ Len(a) = i - 1
      /\ \A k \in 1..(i - 1) : a[k] = s[k]
  <2>1. \A k \in 1..(i - 1) : s[k] \in S
    BY <1>1
  <2>2. /\ a \in Seq(S)
        /\ Len(a) = IF 1 <= i - 1 THEN (i - 1) - 1 + 1 ELSE 0
        /\ \A k \in 1..((i - 1) - 1 + 1) : a[k] = s[1 + k - 1]
    BY <1>1, <2>1, SubSeqProperties
  <2> HIDE DEF a
  <2>3. \A k \in 1..(i - 1) : k \in 1..((i - 1) - 1 + 1) /\ 1 + k - 1 = k
    BY <1>1
  <2> QED BY <1>1, <2>2, <2>3
<1>3. /\ b \in Seq(S) /\ Len(b) = z - i
      /\ \A k \in 1..(z - i) : b[k] = s[i + k]
  <2>1. \A k \in (i + 1)..z : s[k] \in S
    BY <1>1
  <2>2. /\ b \in Seq(S)
        /\ Len(b) = IF i + 1 <= z THEN z - (i + 1) + 1 ELSE 0
        /\ \A k \in 1..(z - (i + 1) + 1) : b[k] = s[(i + 1) + k - 1]
    BY <1>1, <2>1, SubSeqProperties
  <2> HIDE DEF b
  <2>3. \A k \in 1..(z - i) : k \in 1..(z - (i + 1) + 1) /\ (i + 1) + k - 1 = i + k
    BY <1>1
  <2> QED BY <1>1, <2>2, <2>3
<1>4. u = a \o b
  BY <1>0 DEF RemoveAt
<1> HIDE DEF a, b
<1>5. /\ Len(u) = z - 1
      /\ \A k \in 1..(z - 1) : u[k] = s[IF k < i THEN k ELSE k + 1]
  <2>1. /\ Len(u) = Len(a) + Len(b)
        /\ \A k \in 1..(Len(a) + Len(b)) :
             u[k] = IF k <= Len(a) THEN a[k] ELSE b[k - Len(a)]
    BY <1>2, <1>3, <1>4, ConcatProperties
  <2>2. Len(a) + Len(b) = z - 1
    BY <1>1, <1>2, <1>3
  <2>3. ASSUME NEW k \in 1..(z - 1) PROVE u[k] = s[IF k < i THEN k ELSE k + 1]
    <3>1. CASE k < i
      <4>1. k <= Len(a) /\ k \in 1..(i - 1)
        BY <1>1, <1>2, <3>1
      <4> QED BY <1>2, <2>1, <2>2, <3>1, <4>1
    <3>2. CASE ~(k < i)
      <4>1. ~(k <= Len(a)) /\ k - Len(a) \in 1..(z - i) /\ i + (k - Len(a)) = k + 1
        BY <1>1, <1>2, <3>2
      <4> QED BY <1>3, <2>1, <2>2, <3>2, <4>1
    <3> QED BY <3>1, <3>2
  <2> QED BY <2>1, <2>2, <2>3
<1>6. \A k, h \in 1..z : s[k] = s[h] => k = h
  BY <1>0 DEF NoRepetition
<1>7. NoRepetition(u)
  <2> SUFFICES ASSUME NEW k \in 1..(z - 1), NEW h \in 1..(z - 1), u[k] = u[h] PROVE k = h
    BY <1>5 DEF NoRepetition
  <2>1. PICK k1, h1 : /\ k1 = (IF k < i THEN k ELSE k + 1)
                      /\ h1 = (IF h < i THEN h ELSE h + 1)
    OBVIOUS
  <2>2. k1 \in 1..z /\ h1 \in 1..z /\ s[k1] = s[h1]
    BY <1>1, <1>5, <2>1
  <2>3. k1 = h1
    BY <1>6, <2>2
  <2> QED BY <1>1, <2>1, <2>3
<1>8. ASSUME NEW c \in Cells(u) PROVE c \in Cells(s) /\ c # s[i]
  <2>1. PICK k \in 1..(z - 1) : c = u[k]
    BY <1>5 DEF Cells
  <2>2. PICK k1 : k1 = (IF k < i THEN k ELSE k + 1)
    OBVIOUS
  <2>3. k1 \in 1..z /\ k1 # i /\ c = s[k1]
    BY <1>1, <1>5, <2>1, <2>2
  <2> QED BY <1>0, <1>1, <1>6, <2>3 DEF Cells
<1>9. ASSUME NEW c \in Cells(s), c # s[i] PROVE c \in Cells(u)
  <2>1. PICK k \in 1..z : c = s[k]
    BY <1>0 DEF Cells
  <2>2. PICK k1 : k1 = (IF k < i THEN k ELSE k - 1)
    OBVIOUS
  <2>3. k1 \in 1..(z - 1) /\ k = (IF k1 < i THEN k1 ELSE k1 + 1)
    BY <1>1, <1>9, <2>1, <2>2
  <2>4. c = u[k1]
    BY <1>5, <2>1, <2>3
  <2> QED BY <1>5, <2>3, <2>4 DEF Cells
<1> QED
  BY <1>7, <1>8, <1>9

LEMMA AppendedCell ==
  ASSUME NEW S, NEW s \in Seq(S), NEW c \in S, NoRepetition(s), c \notin Cells(s),
         NEW u, u = Append(s, c)
  PROVE  NoRepetition(u) /\ Cells(u) = Cells(s) \cup {c}
<1>0. PICK z : z = Len(s)
  OBVIOUS
<1>1. /\ z \in Nat /\ Len(u) = z + 1 /\ u[z + 1] = c
      /\ \A k \in 1..z : u[k] = s[k]
  BY <1>0, LenProperties, AppendElement
<1>2. /\ \A k, h \in 1..z : s[k] = s[h] => k = h
      /\ \A k \in 1..z : s[k] \in Cells(s)
      /\ \A x \in Cells(s) : \E k \in 1..z : x = s[k]
  BY <1>0 DEF NoRepetition, Cells
<1>3. \A k \in 1..(z + 1) : k \in 1..z \/ k = z + 1
  BY <1>1
<1>4. \A k \in 1..z : k \in 1..(z + 1)
  BY <1>1
<1>5. z + 1 \in 1..(z + 1)
  BY <1>1
<1>6. NoRepetition(u)
  <2> SUFFICES ASSUME NEW k \in 1..(z + 1), NEW h \in 1..(z + 1), u[k] = u[h] PROVE k = h
    BY <1>1 DEF NoRepetition
  <2> QED BY <1>1, <1>2, <1>3
<1>7. Cells(u) = {u[k] : k \in 1..(z + 1)}
  BY <1>1 DEF Cells
<1> QED
  BY <1>1, <1>2, <1>3, <1>4, <1>5, <1>6, <1>7

LEMMA CarefulMove ==
  ASSUME TypeOK, CarefulInvariant, IsCareful, UNCHANGED client, pc = "idle",
         NEW f \in Cells(engine.folders), NEW g \in Cells(engine.folders), Move(f, g)
  PROVE  CarefulInvariant' /\ Settled /\ Settled' /\ pc' = pc /\ disk' = disk
<1>1. /\ UNCHANGED <<path, link, engine, disk, pc>> /\ Settled /\ f # g
      /\ \E i \in 1..Len(folder[f].paths.cells) :
           folder' = [folder EXCEPT
             ![f].paths = Set(RemoveAt(folder[f].paths.cells, i)),
             ![g].paths = Set(Append(@.cells, folder[f].paths.cells[i]))]
  BY DEF Move
<1>2. /\ f \in DOMAIN folder /\ g \in DOMAIN folder
      /\ Cells(engine.folders) \subseteq DOMAIN folder
      /\ folder[f].paths.cells \in Seq(DOMAIN path)
      /\ folder[g].paths.cells \in Seq(DOMAIN path)
  BY <1>1, EngineCells, SetCells DEF Settled
<1> DEFINE cells(x) == folder[x].paths.cells
           new(x) == folder'[x].paths.cells
<1>3. PICK i \in 1..Len(cells(f)) :
        folder' = [folder EXCEPT ![f].paths = Set(RemoveAt(cells(f), i)),
                                 ![g].paths = Set(Append(@.cells, cells(f)[i]))]
  BY <1>1
<1>4. PICK p, removed, appended : /\ p = cells(f)[i] /\ removed = RemoveAt(cells(f), i)
                                  /\ appended = Append(cells(g), p)
  OBVIOUS
<1>5. /\ folder'[f].paths = Set(removed)
      /\ folder'[g].paths = Set(appended)
      /\ \A x \in DOMAIN folder : x # f /\ x # g => folder'[x] = folder[x]
  <2>1. PICK n1, s1 : folder[f] = [name |-> n1, paths |-> s1]
    BY <1>2 DEF TypeOK, StreamFolder
  <2>2. PICK n2, s2 : folder[g] = [name |-> n2, paths |-> s2]
    BY <1>2 DEF TypeOK, StreamFolder
  <2>3. folder'[f] = [folder[f] EXCEPT !.paths = Set(removed)]
    BY <1>1, <1>2, <1>3, <1>4
  <2>4. folder'[g] = [folder[g] EXCEPT !.paths = Set(appended)]
    BY <1>1, <1>2, <1>3, <1>4
  <2>5. \A x \in DOMAIN folder : x # f /\ x # g => folder'[x] = folder[x]
    BY <1>3
  <2> QED BY <2>1, <2>2, <2>3, <2>4, <2>5
<1>6. new(f) = removed /\ new(g) = appended /\ IsSet(folder'[f].paths) /\ IsSet(folder'[g].paths)
      /\ \A x \in DOMAIN folder : x # f /\ x # g => new(x) = cells(x)
  BY <1>5 DEF Set, IsSet
<1>7. PathsPlaced /\ LinksPlaced /\ LookupNames /\ NoRepetition(engine.folders)
  BY <1>1, CarefulSettled DEF CarefulInvariant, CarefulTree, Open
<1>8. /\ \A x \in Cells(engine.folders) :
           Cells(cells(x)) \subseteq Cells(engine.paths) /\ NoRepetition(cells(x))
      /\ \A q \in Cells(engine.paths) : \E x \in Cells(engine.folders) : q \in Cells(cells(x))
      /\ \A x, y \in Cells(engine.folders) : \A q \in Cells(cells(x)) : q \in Cells(cells(y)) => x = y
  <2>1. \A x \in Cells(engine.folders) : \E a \in 1..Len(engine.folders) : x = engine.folders[a]
    BY DEF Cells
  <2>2. \A a \in 1..Len(engine.folders) : engine.folders[a] \in Cells(engine.folders)
    BY DEF Cells
  <2>3. /\ \A a \in 1..Len(engine.folders) :
             /\ Cells(cells(engine.folders[a])) \subseteq Cells(engine.paths)
             /\ NoRepetition(cells(engine.folders[a]))
        /\ \A q \in Cells(engine.paths) :
             \E a \in 1..Len(engine.folders) : q \in Cells(cells(engine.folders[a]))
        /\ \A a, b \in 1..Len(engine.folders) :
             \A q \in Cells(cells(engine.folders[a])) :
               q \in Cells(cells(engine.folders[b])) => a = b
    BY <1>7 DEF PathsPlaced
  <2> HIDE DEF cells
  <2>4. ASSUME NEW x \in Cells(engine.folders)
        PROVE  Cells(cells(x)) \subseteq Cells(engine.paths) /\ NoRepetition(cells(x))
    BY <2>1, <2>3
  <2>5. ASSUME NEW q \in Cells(engine.paths)
        PROVE  \E x \in Cells(engine.folders) : q \in Cells(cells(x))
    BY <2>2, <2>3
  <2>6. ASSUME NEW x \in Cells(engine.folders), NEW y \in Cells(engine.folders),
               NEW q \in Cells(cells(x)), q \in Cells(cells(y))
        PROVE  x = y
    BY <2>1, <2>3, <2>6
  <2> QED BY <2>4, <2>5, <2>6
<1> HIDE DEF cells, new
<1>9. p \in Cells(cells(f)) /\ p \in DOMAIN path /\ p \in Cells(engine.paths)
  <2>1. p \in Cells(cells(f))
    BY <1>3, <1>4 DEF Cells
  <2> QED BY <1>8, <2>1, EngineCells
<1>10. p \notin Cells(cells(g))
  BY <1>1, <1>8, <1>9
<1>11. NoRepetition(removed) /\ Cells(removed) = Cells(cells(f)) \ {p}
  BY <1>2, <1>3, <1>4, <1>8, RemovedCell DEF cells
<1>12. NoRepetition(appended) /\ Cells(appended) = Cells(cells(g)) \cup {p}
  <2>1. cells(g) \in Seq(DOMAIN path) /\ NoRepetition(cells(g)) /\ p \in DOMAIN path
    BY <1>2, <1>8, <1>9 DEF cells
  <2>2. PICK s, G : s = cells(g) /\ G = DOMAIN path
    OBVIOUS
  <2>3. /\ s \in Seq(G) /\ p \in G /\ NoRepetition(s) /\ p \notin Cells(s)
        /\ appended = Append(s, p)
    BY <1>4, <1>10, <2>1, <2>2
  <2>4. NoRepetition(appended) /\ Cells(appended) = Cells(s) \cup {p}
    BY <2>3, AppendedCell
  <2> QED BY <2>2, <2>4
<1>13. ASSUME NEW x \in Cells(engine.folders)
       PROVE  /\ NoRepetition(new(x))
              /\ \A q : q \in Cells(new(x)) <=> IF q = p THEN x = g ELSE q \in Cells(cells(x))
  <2>1. CASE x = f
    BY <1>1, <1>6, <1>11, <2>1
  <2>2. CASE x = g
    BY <1>1, <1>6, <1>12, <2>2
  <2>3. CASE x # f /\ x # g
    <3>1. new(x) = cells(x) /\ p \notin Cells(cells(x))
      BY <1>2, <1>6, <1>8, <1>9, <2>3
    <3> QED BY <1>8, <2>3, <3>1
  <2> QED BY <2>1, <2>2, <2>3
<1>14. /\ \A x \in Cells(engine.folders) :
            Cells(new(x)) \subseteq Cells(engine.paths) /\ NoRepetition(new(x))
       /\ \A q \in Cells(engine.paths) : \E x \in Cells(engine.folders) : q \in Cells(new(x))
       /\ \A x, y \in Cells(engine.folders) : \A q \in Cells(new(x)) : q \in Cells(new(y)) => x = y
  BY SMTT(60), <1>8, <1>9, <1>13
<1>15. PathsPlaced'
  <2>1. /\ \A a \in 1..Len(engine.folders) : engine.folders[a] \in Cells(engine.folders)
        /\ \A x \in Cells(engine.folders) : \E a \in 1..Len(engine.folders) : x = engine.folders[a]
        /\ \A a, b \in 1..Len(engine.folders) : engine.folders[a] = engine.folders[b] => a = b
    BY <1>7 DEF Cells, NoRepetition
  <2>2. /\ \A a \in 1..Len(engine.folders) :
             /\ Cells(new(engine.folders[a])) \subseteq Cells(engine.paths)
             /\ NoRepetition(new(engine.folders[a]))
        /\ \A q \in Cells(engine.paths) :
             \E a \in 1..Len(engine.folders) : q \in Cells(new(engine.folders[a]))
        /\ \A a, b \in 1..Len(engine.folders) :
             \A q \in Cells(new(engine.folders[a])) : q \in Cells(new(engine.folders[b])) => a = b
    <3>1. ASSUME NEW a \in 1..Len(engine.folders)
          PROVE  /\ Cells(new(engine.folders[a])) \subseteq Cells(engine.paths)
                 /\ NoRepetition(new(engine.folders[a]))
      BY <1>14, <2>1
    <3>2. ASSUME NEW q \in Cells(engine.paths)
          PROVE  \E a \in 1..Len(engine.folders) : q \in Cells(new(engine.folders[a]))
      BY ZenonT(60), <1>14, <2>1
    <3>3. ASSUME NEW a \in 1..Len(engine.folders), NEW b \in 1..Len(engine.folders),
                 NEW q \in Cells(new(engine.folders[a])), q \in Cells(new(engine.folders[b]))
          PROVE  a = b
      BY <1>14, <2>1, <3>3
    <3> QED BY <3>1, <3>2, <3>3
  <2> QED BY <1>1, <2>2 DEF PathsPlaced, new
<1>16. LinksPlaced' /\ LookupNames'
  BY <1>1, <1>7 DEF LinksPlaced, LookupNames
<1>17. Settled'
  BY <1>1, <1>2, <1>5, <1>6 DEF Settled
<1> QED
  BY <1>1, <1>15, <1>16, <1>17, CarefulKept

LEMMA CarefulEdit ==
  ASSUME TypeOK, CarefulInvariant, IsCareful, UNCHANGED client, Edit
  PROVE  CarefulInvariant' /\ Settled /\ Settled' /\ pc' = pc /\ disk' = disk
<1>1. pc = "idle"
  BY DEF Edit
<1>2. ASSUME NEW l \in Cells(engine.links),
             \/ \E m \in Cells(engine.metadatas) : SetMetadata(l, m)
             \/ \E data \in NewData : SetNewMetadata(l, data) \/ ChangeMetadata(l, data)
      PROVE  CarefulInvariant' /\ Settled /\ Settled' /\ pc' = pc /\ disk' = disk
  BY <1>1, <1>2, CarefulLinks
<1>3. ASSUME NEW p \in Cells(engine.paths),
             \E n \in 0..Locales, flags \in 0..2 : Relink(p, n, flags)
      PROVE  CarefulInvariant' /\ Settled /\ Settled' /\ pc' = pc /\ disk' = disk
  BY <1>1, <1>3, CarefulRelink
<1>4. \A p, q : ~Borrow(p, q)
  BY DEF Borrow, IsCareful
<1>5. \A f : ~Drop(f)
  BY DEF Drop, IsCareful
<1> QED
  BY <1>1, <1>2, <1>3, <1>4, <1>5, CarefulMove DEF Edit

-----------------------------------------------------------------------------
(* The writer of a careful client. *)

\* What a step of the writer leaves of the invariant.
LEMMA CarefulPushed ==
  ASSUME CarefulInvariant, IsCareful, Open, Settled, pc' = "push", client' = client,
         folder' = folder, path' = path, link' = link, engine' = engine, disk' = disk,
         PushedInOrder'
  PROVE  CarefulInvariant' /\ Settled'
<1>1. /\ IsSound(disk) /\ NoRepetition(engine.folders) /\ LookupNames /\ TablesFit
      /\ PathsPlaced /\ LinksPlaced
  BY DEF CarefulInvariant, CarefulTree
<1>2. NoRepetition(engine.folders)' /\ TablesFit' /\ LookupNames' /\ Settled'
  BY <1>1 DEF NoRepetition, TablesFit, LookupNames, Settled
<1>3. PathsPlaced' /\ LinksPlaced'
  BY <1>1 DEF PathsPlaced, LinksPlaced
<1>4. CarefulTree'
  BY <1>2, <1>3 DEF CarefulTree
<1> QED
  BY <1>1, <1>2, <1>4 DEF CarefulInvariant

\* What is known while it pushes.
LEMMA CarefulPush ==
  ASSUME CarefulInvariant, IsCareful, pc = "push"
  PROVE  /\ Open /\ Settled /\ PushedInOrder
         /\ NoRepetition(engine.folders) /\ LookupNames /\ TablesFit
         /\ PathsPlaced /\ LinksPlaced
BY DEF CarefulInvariant, CarefulTree, Open

LEMMA CarefulFromEngine ==
  ASSUME CarefulInvariant, IsCareful, UNCHANGED client, NEW t, FromEngine(t)
  PROVE  CarefulInvariant' /\ Settled /\ Settled'
<1>1. /\ folder' = folder /\ path' = path /\ link' = link /\ engine' = engine /\ disk' = disk
      /\ writer' = NoWriter /\ pc' = "push" /\ Open /\ Settled
      /\ at' = [folder |-> 1, path |-> 0, link |-> 0]
  BY DEF FromEngine, heapVars, NoTurn, Careful, IsCareful, Open
<1>2. /\ writer'.folders.table = <<>> /\ Len(<<>>) = 0
      /\ writer'.paths = NewMaker
      /\ \A c : ~HasCell(NewMaker, c)
  BY <1>1, NoWriterTables DEF HasCell, NewMaker, EmptyMap
<1>3. PushedInOrder'
  BY <1>1, <1>2 DEF PushedInOrder
<1> QED
  BY <1>1, <1>3, CarefulPushed

LEMMA CarefulPushFolder ==
  ASSUME TypeOK, TurnOK, CarefulInvariant, IsCareful, UNCHANGED client, PushFolder
  PROVE  CarefulInvariant' /\ Settled /\ Settled' /\ pc' = pc /\ disk' = disk
<1>1. pc = "push" /\ at.path = 0 /\ at.folder <= Len(engine.folders)
  BY DEF PushFolder, Pushing
<1>2. /\ Open /\ Settled /\ PushedInOrder /\ NoRepetition(engine.folders)
      /\ FolderTurn /\ at.folder \in Nat /\ Len(engine.folders) \in Nat
      /\ IsMaker(writer.folders, DOMAIN folder) /\ MakerOK(writer.folders)
  BY <1>1, CarefulPush, TurnTypes
<1>3. at.folder \in 1..Len(engine.folders)
  BY <1>1, <1>2 DEF FolderTurn
<1>4. PICK f : f = engine.folders[at.folder] /\ f \in DOMAIN folder /\ f \in Cells(engine.folders)
  BY <1>3, EngineCells DEF Cells
<1>5. ~HasCell(writer.folders, f)
  <2> SUFFICES ASSUME f \in Cells(writer.folders.table) PROVE FALSE
    BY <1>2 DEF HasCell, MakerOK
  <2>1. PICK i \in 1..Len(engine.folders) : f = engine.folders[i] /\ i < at.folder
    BY <1>1, <1>2 DEF FolderTurn
  <2>2. i = at.folder
    BY <1>2, <1>3, <1>4, <2>1 DEF NoRepetition
  <2> QED BY <1>2, <2>1, <2>2
<1>6. IsSet(folder[f].paths)
  BY <1>2, <1>4 DEF Settled
<1>7. /\ writer' = [writer EXCEPT !.folders = PushCell(@, f)]
      /\ at' = [at EXCEPT !.path = 1]
      /\ folder' = folder /\ path' = path /\ link' = link /\ engine' = engine /\ disk' = disk
      /\ pc' = pc
  BY <1>4, <1>5, <1>6 DEF PushFolder, heapVars
<1>8. /\ writer'.folders = PushCell(writer.folders, f) /\ writer'.paths = writer.paths
      /\ writer'.links = writer.links
      /\ at'.path = 1 /\ at'.folder = at.folder /\ at'.link = at.link
  <2>1. at \in [folder : Nat, path : Nat, link : Nat]
    BY DEF TypeOK
  <2>2. writer = [t \in {"folders", "paths", "links", "metadatas"} |-> writer[t]]
    BY DEF TypeOK
  <2> QED BY <1>7, <2>1, <2>2
<1>9. at.link = 0
  BY <1>1, <1>2, TurnTypes DEF FolderTurn
<1>10. PICK t, n : t = writer.folders.table /\ n = Len(t)
  OBVIOUS
<1>11. /\ t \in Seq(DOMAIN folder) /\ n \in Nat /\ n = at.folder - 1
       /\ \A i \in 1..n : t[i] = engine.folders[i]
  BY <1>1, <1>2, <1>10, LenProperties DEF IsMaker, PushedInOrder
<1>12. PICK u : u = writer'.folders.table /\ u = Append(t, f)
  BY <1>8, <1>10 DEF PushCell
<1>13. Len(u) = n + 1 /\ u[n + 1] = f /\ \A i \in 1..n : u[i] = t[i]
  <2>1. PICK G : G = DOMAIN folder
    OBVIOUS
  <2>2. t \in Seq(G) /\ f \in G
    BY <1>4, <1>11, <2>1
  <2> QED BY <1>10, <1>12, <2>2, AppendElement
<1>14. Len(u) = at.folder /\ \A i \in 1..at.folder : u[i] = engine.folders[i]
  <2>1. \A i \in 1..at.folder : i \in 1..n \/ i = at.folder
    BY <1>2, <1>11
  <2>2. n + 1 = at.folder
    BY <1>2, <1>11
  <2> QED BY <1>4, <1>11, <1>13, <2>1, <2>2
<1>15. \A h \in 1..Len(engine.folders) :
         \A i \in 1..Len(folder[engine.folders[h]].paths.cells) :
           HasCell(writer.paths, folder[engine.folders[h]].paths.cells[i]) => h < at.folder
  BY <1>1, <1>2, <1>9 DEF PushedInOrder
<1>16. PushedInOrder'
  BY <1>7, <1>8, <1>9, <1>12, <1>14, <1>15 DEF PushedInOrder
<1> QED
  BY <1>1, <1>2, <1>7, <1>16, CarefulPushed

\* The path of the turn, in the folder of the turn, is in no other place.
LEMMA CarefulPathHere ==
  ASSUME TypeOK, TurnOK, CarefulInvariant, IsCareful, AtPath
  PROVE  /\ at.folder \in 1..Len(engine.folders) /\ at.path \in 1..Len(PathsHere)
         /\ PathsHere[at.path] \in Cells(engine.paths)
         /\ PathsHere[at.path] \in DOMAIN path
         /\ \A f \in 1..Len(engine.folders) :
              \A i \in 1..Len(folder[engine.folders[f]].paths.cells) :
                folder[engine.folders[f]].paths.cells[i] = PathsHere[at.path] =>
                  f = at.folder /\ i = at.path
<1>1. pc = "push" /\ at.path >= 1 /\ at.path <= Len(PathsHere)
  BY DEF AtPath, Pushing
<1>2. /\ at.folder \in 1..Len(engine.folders) /\ Len(PathsHere) \in Nat /\ at.path \in Nat
  BY <1>1, FolderHere, TurnTypes
<1>3. at.path \in 1..Len(PathsHere)
  BY <1>1, <1>2
<1>4. PathsPlaced
  BY <1>1, CarefulPush
<1>5. PICK p, a : /\ p = PathsHere[at.path] /\ a = at.folder
                  /\ p \in Cells(folder[engine.folders[a]].paths.cells)
  BY <1>3 DEF Cells, PathsHere
<1>6. p \in Cells(engine.paths)
  BY <1>2, <1>4, <1>5 DEF PathsPlaced
<1>7. ASSUME NEW f \in 1..Len(engine.folders),
             NEW i \in 1..Len(folder[engine.folders[f]].paths.cells),
             folder[engine.folders[f]].paths.cells[i] = p
      PROVE  f = a /\ i = at.path
  <2>1. p \in Cells(folder[engine.folders[f]].paths.cells)
    BY <1>7 DEF Cells
  <2>2. f = a
    BY ZenonT(60), <1>2, <1>4, <1>5, <2>1 DEF PathsPlaced
  <2>3. NoRepetition(folder[engine.folders[f]].paths.cells)
    BY <1>4 DEF PathsPlaced
  <2>4. i = at.path
    BY ZenonT(60), <1>3, <1>5, <1>7, <2>2, <2>3 DEF NoRepetition, PathsHere
  <2> QED BY <2>2, <2>4
<1> QED
  BY <1>2, <1>3, <1>5, <1>6, <1>7, EngineCells

\* A path the writer has is one of the engine's.
LEMMA CarefulPathsPushed ==
  ASSUME TypeOK, TurnOK, CarefulInvariant, IsCareful, pc = "push"
  PROVE  Cells(writer.paths.table) \subseteq Cells(engine.paths)
<1>1. PathsPlaced /\ PathTurn
  BY CarefulPush, TurnTypes
<1> QED
  BY <1>1 DEF PathsPlaced, PathTurn

LEMMA CarefulPushPath ==
  ASSUME TypeOK, TurnOK, CarefulInvariant, IsCareful, UNCHANGED client, PushPath
  PROVE  CarefulInvariant' /\ Settled /\ Settled' /\ pc' = pc /\ disk' = disk
<1>1. pc = "push" /\ AtPath /\ at.link = 0
  BY DEF PushPath, AtPath, Pushing
<1>2. /\ Open /\ Settled /\ PushedInOrder /\ PathsPlaced /\ LinksPlaced
      /\ LinkTurn
      /\ IsMaker(writer.paths, DOMAIN path) /\ MakerOK(writer.paths)
      /\ MakerOK(writer.links)
      /\ at.folder \in Nat /\ at.path \in Nat
  BY <1>1, CarefulPush, TurnTypes
<1>3. PICK p : /\ p = PathsHere[at.path] /\ p \in Cells(engine.paths) /\ p \in DOMAIN path
               /\ at.folder \in 1..Len(engine.folders) /\ at.path \in 1..Len(PathsHere)
  BY <1>1, CarefulPathHere
<1>4. \A f \in 1..Len(engine.folders) :
        \A i \in 1..Len(folder[engine.folders[f]].paths.cells) :
          folder[engine.folders[f]].paths.cells[i] = p => f = at.folder /\ i = at.path
  BY <1>1, <1>3, CarefulPathHere
<1>5. ~HasCell(writer.paths, p)
  <2>1. \A i \in 1..Len(PathsHere) : HasCell(writer.paths, PathsHere[i]) =>
           \/ at.folder < at.folder
           \/ i < at.path \/ (i = at.path /\ at.link >= 1)
    BY <1>2, <1>3 DEF PushedInOrder, PathsHere
  <2> QED BY SMTT(60), <1>1, <1>2, <1>3, <2>1
<1>6. IsSet(path[p].links)
  BY <1>2, <1>3 DEF Settled
<1>7. /\ writer' = [writer EXCEPT !.paths = PushCell(@, p)]
      /\ at' = [at EXCEPT !.link = 1]
      /\ folder' = folder /\ path' = path /\ link' = link /\ engine' = engine /\ disk' = disk
      /\ pc' = pc
  BY <1>3, <1>5, <1>6 DEF PushPath, heapVars
<1>8. /\ writer'.paths = PushCell(writer.paths, p) /\ writer'.folders = writer.folders
      /\ writer'.links = writer.links
      /\ at'.path = at.path /\ at'.folder = at.folder /\ at'.link = 1
  <2>1. at \in [folder : Nat, path : Nat, link : Nat]
    BY DEF TypeOK
  <2>2. writer = [t \in {"folders", "paths", "links", "metadatas"} |-> writer[t]]
    BY DEF TypeOK
  <2> QED BY <1>7, <2>1, <2>2
<1>9. \A c : HasCell(writer'.paths, c) <=> HasCell(writer.paths, c) \/ c = p
  BY <1>8 DEF HasCell, PushCell, Insert
<1>10. ASSUME NEW f \in 1..Len(engine.folders),
              NEW i \in 1..Len(folder[engine.folders[f]].paths.cells),
              HasCell(writer'.paths, folder[engine.folders[f]].paths.cells[i])
       PROVE  f < at.folder \/ (f = at.folder /\ (i < at.path \/ i = at.path))
  <2>1. CASE HasCell(writer.paths, folder[engine.folders[f]].paths.cells[i])
    BY <1>2, <2>1 DEF PushedInOrder
  <2>2. CASE folder[engine.folders[f]].paths.cells[i] = p
    BY <1>4, <2>2
  <2> QED BY <1>9, <1>10, <2>1, <2>2
<1>11. ASSUME NEW i \in 1..Len(path[p].links.cells), HasCell(writer.links, path[p].links.cells[i])
       PROVE  FALSE
  <2>1. PICK l : /\ l = path[p].links.cells[i] /\ l \in Cells(path[p].links.cells)
                 /\ l \in Cells(writer.links.table)
    BY <1>2, <1>11 DEF Cells, HasCell, MakerOK
  <2>2. PICK q \in Cells(writer.paths.table) : l \in Cells(path[q].links.cells)
    BY <1>2, <2>1 DEF LinkTurn
  <2>3. q \in Cells(engine.paths)
    BY <1>1, <2>2, CarefulPathsPushed
  <2>4. p = q
    BY <1>2, <1>3, <2>1, <2>2, <2>3 DEF LinksPlaced
  <2> QED BY <1>2, <1>5, <2>2, <2>4 DEF HasCell, MakerOK
<1>12. LinksHere' = path[p].links.cells
  BY <1>3, <1>7, <1>8 DEF LinksHere, PathsHere
<1>13. \A f \in 1..Len(engine.folders) :
         \A i \in 1..Len(folder[engine.folders[f]].paths.cells) :
           HasCell(writer'.paths, folder[engine.folders[f]].paths.cells[i]) =>
             f < at.folder \/ (f = at.folder /\ (i < at.path \/ i = at.path))
  BY <1>10
<1>14. /\ Len(writer.folders.table) = IF at.path >= 1 THEN at.folder ELSE at.folder - 1
       /\ \A i \in 1..Len(writer.folders.table) : writer.folders.table[i] = engine.folders[i]
  BY <1>2 DEF PushedInOrder
<1>15. PushedInOrder'
  BY <1>7, <1>8, <1>11, <1>12, <1>13, <1>14 DEF PushedInOrder
<1> QED
  BY <1>1, <1>2, <1>7, <1>15, CarefulPushed

LEMMA CarefulPushLink ==
  ASSUME TypeOK, TurnOK, CarefulInvariant, IsCareful, UNCHANGED client, PushLink
  PROVE  CarefulInvariant' /\ Settled /\ Settled' /\ pc' = pc /\ disk' = disk
<1>1. pc = "push" /\ AtPath /\ at.link >= 1 /\ at.link <= Len(LinksHere)
  BY DEF PushLink, AtPath, Pushing
<1>2. /\ Open /\ Settled /\ PushedInOrder /\ LinksPlaced
      /\ at.link \in Nat /\ Len(LinksHere) \in Nat
  BY <1>1, CarefulPush, TurnTypes, PathHere
<1>3. PICK p : p = PathsHere[at.path] /\ p \in Cells(engine.paths) /\ LinksHere = path[p].links.cells
  BY <1>1, CarefulPathHere DEF LinksHere
<1>4. at.link \in 1..Len(LinksHere)
  BY <1>1, <1>2
<1>5. PICK l : l = LinksHere[at.link] /\ l \in Cells(engine.links)
  BY <1>2, <1>3, <1>4 DEF LinksPlaced, Cells
<1>6. ~HasCell(writer.links, l) /\ IsCell(link[l])
  BY <1>1, <1>2, <1>4, <1>5 DEF PushedInOrder, Settled
<1>7. /\ writer' = [writer EXCEPT !.links = PushCell(@, l),
                                  !.metadatas = PushIfNew(@, link[l].cell)]
      /\ at' = [at EXCEPT !.link = @ + 1]
      /\ folder' = folder /\ path' = path /\ link' = link /\ engine' = engine /\ disk' = disk
      /\ pc' = pc
  BY <1>5, <1>6 DEF PushLink, CanPushLink, heapVars
<1>8. /\ writer'.links = PushCell(writer.links, l) /\ writer'.folders = writer.folders
      /\ writer'.paths = writer.paths
      /\ at'.path = at.path /\ at'.folder = at.folder /\ at'.link = at.link + 1
  <2>1. at \in [folder : Nat, path : Nat, link : Nat]
    BY DEF TypeOK
  <2>2. writer = [t \in {"folders", "paths", "links", "metadatas"} |-> writer[t]]
    BY DEF TypeOK
  <2>3. /\ writer'.links = PushCell(writer.links, l) /\ writer'.folders = writer.folders
        /\ writer'.paths = writer.paths
    BY <1>7, <2>2
  <2> QED BY <1>7, <2>1, <2>3
<1>9. \A c : HasCell(writer'.links, c) <=> HasCell(writer.links, c) \/ c = l
  BY <1>8 DEF HasCell, PushCell, Insert
<1>10. LinksHere' = LinksHere
  BY <1>7, <1>8 DEF LinksHere, PathsHere
<1>11. NoRepetition(LinksHere)
  BY <1>2, <1>3 DEF LinksPlaced
<1>12. ASSUME NEW i \in 1..Len(LinksHere), HasCell(writer'.links, LinksHere[i])
       PROVE  i < at.link + 1
  <2>1. CASE HasCell(writer.links, LinksHere[i])
    <3>1. i < at.link
      BY <1>1, <1>2, <2>1 DEF PushedInOrder
    <3> QED BY <1>2, <3>1
  <2>2. CASE LinksHere[i] = l
    <3>1. i = at.link
      BY <1>4, <1>5, <1>11, <2>2 DEF NoRepetition
    <3> QED BY <1>2, <3>1
  <2> QED BY <1>9, <1>12, <2>1, <2>2
<1>13. at.link + 1 >= 1
  BY <1>2
<1>14. /\ Len(writer.folders.table) = IF at.path >= 1 THEN at.folder ELSE at.folder - 1
       /\ \A i \in 1..Len(writer.folders.table) : writer.folders.table[i] = engine.folders[i]
       /\ \A f \in 1..Len(engine.folders) :
            \A i \in 1..Len(folder[engine.folders[f]].paths.cells) :
              HasCell(writer.paths, folder[engine.folders[f]].paths.cells[i]) =>
                \/ f < at.folder
                \/ f = at.folder /\ (i < at.path \/ i = at.path)
  BY <1>2 DEF PushedInOrder
<1>15. PushedInOrder'
  BY <1>7, <1>8, <1>10, <1>12, <1>13, <1>14 DEF PushedInOrder
<1> QED
  BY <1>1, <1>2, <1>7, <1>15, CarefulPushed

LEMMA CarefulNextPath ==
  ASSUME TypeOK, TurnOK, CarefulInvariant, IsCareful, UNCHANGED client, PushNextPath
  PROVE  CarefulInvariant' /\ Settled /\ Settled' /\ pc' = pc /\ disk' = disk
<1>1. /\ pc = "push" /\ at.path >= 1
      /\ folder' = folder /\ path' = path /\ link' = link /\ engine' = engine /\ disk' = disk
      /\ writer' = writer /\ pc' = pc
  BY DEF PushNextPath, AtPath, Pushing, heapVars
<1>2. Open /\ Settled /\ PushedInOrder /\ at.path \in Nat
  BY <1>1, CarefulPush, TurnTypes
<1>3. at'.path = at.path + 1 /\ at'.folder = at.folder /\ at'.link = 0
  <2>1. at \in [folder : Nat, path : Nat, link : Nat]
    BY DEF TypeOK
  <2> QED BY <2>1 DEF PushNextPath
<1>4. ASSUME NEW f \in 1..Len(engine.folders),
             NEW i \in 1..Len(folder[engine.folders[f]].paths.cells),
             HasCell(writer.paths, folder[engine.folders[f]].paths.cells[i])
      PROVE  f < at.folder \/ (f = at.folder /\ i < at.path + 1)
  <2>1. f < at.folder \/ (f = at.folder /\ (i < at.path \/ i = at.path))
    BY <1>2, <1>4 DEF PushedInOrder
  <2>2. i < at.path \/ i = at.path => i < at.path + 1
    BY <1>2
  <2> QED BY <2>1, <2>2
<1>5. at.path + 1 >= 1
  BY <1>2
<1>6. /\ Len(writer.folders.table) = at.folder
      /\ \A i \in 1..Len(writer.folders.table) : writer.folders.table[i] = engine.folders[i]
  BY <1>1, <1>2 DEF PushedInOrder
<1>7. PushedInOrder'
  BY <1>1, <1>3, <1>4, <1>5, <1>6 DEF PushedInOrder
<1> QED
  BY <1>1, <1>2, <1>7, CarefulPushed

LEMMA CarefulNextFolder ==
  ASSUME TypeOK, TurnOK, CarefulInvariant, IsCareful, UNCHANGED client, PushNextFolder
  PROVE  CarefulInvariant' /\ Settled /\ Settled' /\ pc' = pc /\ disk' = disk
<1>1. /\ pc = "push" /\ at.path >= 1
      /\ folder' = folder /\ path' = path /\ link' = link /\ engine' = engine /\ disk' = disk
      /\ writer' = writer /\ pc' = pc
      /\ at'.path = 0 /\ at'.folder = at.folder + 1 /\ at'.link = 0
  BY DEF PushNextFolder, Pushing, heapVars, NoTurn
<1>2. Open /\ Settled /\ PushedInOrder /\ at.folder \in Nat
  BY <1>1, CarefulPush, TurnTypes
<1>3. ASSUME NEW f \in 1..Len(engine.folders),
             NEW i \in 1..Len(folder[engine.folders[f]].paths.cells),
             HasCell(writer.paths, folder[engine.folders[f]].paths.cells[i])
      PROVE  f < at.folder + 1
  <2>1. f < at.folder \/ f = at.folder
    BY <1>2, <1>3 DEF PushedInOrder
  <2> QED BY <1>2, <2>1
<1>4. /\ Len(writer.folders.table) = (at.folder + 1) - 1
      /\ \A i \in 1..Len(writer.folders.table) : writer.folders.table[i] = engine.folders[i]
  <2>1. /\ Len(writer.folders.table) = at.folder
        /\ \A i \in 1..Len(writer.folders.table) : writer.folders.table[i] = engine.folders[i]
    BY <1>1, <1>2 DEF PushedInOrder
  <2> QED BY <1>2, <2>1
<1>5. PushedInOrder'
  <2>1. ~(at'.path >= 1) /\ ~(at'.link >= 1)
    BY <1>1
  <2>2. \A f \in 1..Len(engine.folders) :
          \A i \in 1..Len(folder[engine.folders[f]].paths.cells) :
            HasCell(writer.paths, folder[engine.folders[f]].paths.cells[i]) => f < at'.folder
    BY <1>1, <1>3
  <2>3. Len(writer.folders.table) = at'.folder - 1
    BY <1>1, <1>4, Zenon
  <2> QED BY <1>1, <1>4, <2>1, <2>2, <2>3 DEF PushedInOrder
<1> QED
  BY <1>1, <1>2, <1>5, CarefulPushed

\* What the writer of a careful client has once it is done: the folders of the
\* engine in their order, the paths of the engine, and of its links no more.
LEMMA CarefulDone ==
  ASSUME TypeOK, TurnOK, CarefulInvariant, IsCareful, Done
  PROVE  /\ Len(writer.folders.table) = Len(engine.folders)
         /\ \A i \in 1..Len(engine.folders) : writer.folders.table[i] = engine.folders[i]
         /\ Cells(writer.paths.table) = Cells(engine.paths)
         /\ Cells(writer.links.table) \subseteq Cells(engine.links)
         /\ \A p \in Cells(engine.paths) :
              Cells(path[p].links.cells) \subseteq Cells(writer.links.table)
         /\ Len(writer.paths.table) <= INVALID_INDEX
         /\ Len(writer.links.table) <= INVALID_INDEX
<1>1. pc = "push" /\ at.folder > Len(engine.folders)
  BY DEF Done
<1>2. /\ PushedInOrder /\ TablesFit /\ PathsPlaced /\ LinksPlaced
      /\ FolderTurn /\ at.folder \in Nat /\ at.path \in Nat /\ Len(engine.folders) \in Nat
      /\ IsMaker(writer.paths, DOMAIN path) /\ MakerOK(writer.paths)
      /\ IsMaker(writer.links, DOMAIN link) /\ MakerOK(writer.links)
  BY <1>1, CarefulPush, TurnTypes
<1>3. TablesAreReachable
  BY DoneReachable
<1>4. /\ Cells(writer.paths.table) =
           UNION {Cells(folder[f].paths.cells) : f \in Cells(engine.folders)}
      /\ Cells(writer.links.table) =
           UNION {Cells(path[p].links.cells) : p \in Cells(writer.paths.table)}
  BY <1>3 DEF TablesAreReachable
<1>5. /\ Len(writer.folders.table) = Len(engine.folders)
      /\ \A i \in 1..Len(engine.folders) : writer.folders.table[i] = engine.folders[i]
  <2>1. at.folder = Len(engine.folders) + 1 /\ ~(at.path >= 1)
    BY <1>1, <1>2 DEF FolderTurn
  <2>2. Len(writer.folders.table) = at.folder - 1
    BY <1>2, <2>1 DEF PushedInOrder
  <2>3. Len(writer.folders.table) = Len(engine.folders)
    BY <1>2, <2>1, <2>2
  <2> QED BY <1>2, <2>3 DEF PushedInOrder
<1>6. Cells(writer.paths.table) = Cells(engine.paths)
  <2>1. ASSUME NEW p \in Cells(writer.paths.table) PROVE p \in Cells(engine.paths)
    <3>1. PICK f \in Cells(engine.folders) : p \in Cells(folder[f].paths.cells)
      BY <1>4, <2>1
    <3>2. PICK i \in 1..Len(engine.folders) : f = engine.folders[i]
      BY DEF Cells
    <3> QED BY <1>2, <3>1, <3>2 DEF PathsPlaced
  <2>2. ASSUME NEW p \in Cells(engine.paths) PROVE p \in Cells(writer.paths.table)
    <3>1. PICK i \in 1..Len(engine.folders) : p \in Cells(folder[engine.folders[i]].paths.cells)
      BY <1>2 DEF PathsPlaced
    <3>2. engine.folders[i] \in Cells(engine.folders)
      BY DEF Cells
    <3> QED BY <1>4, <3>1, <3>2
  <2> QED BY <2>1, <2>2
<1>7. \A p \in Cells(engine.paths) :
        Cells(path[p].links.cells) \subseteq Cells(writer.links.table)
  BY <1>4, <1>6
<1>8. Cells(writer.links.table) \subseteq Cells(engine.links)
  <2>1. ASSUME NEW l \in Cells(writer.links.table) PROVE l \in Cells(engine.links)
    <3>1. PICK p \in Cells(engine.paths) : l \in Cells(path[p].links.cells)
      BY <1>4, <1>6
    <3> QED BY <1>2, <3>1 DEF LinksPlaced
  <2> QED BY <2>1
<1>9. Len(writer.paths.table) <= INVALID_INDEX
  <2>1. PICK s, t : s = writer.paths.table /\ t = engine.paths
    OBVIOUS
  <2>2. /\ Len(s) \in Nat /\ Len(t) \in Nat /\ Cells(s) \subseteq Cells(t)
        /\ Len(t) <= INVALID_INDEX
    BY <1>2, <1>6, <2>1, LenProperties DEF IsMaker, TypeOK, TablesFit
  <2>3. \A i, h \in 1..Len(s) : s[i] = s[h] => i = h
    BY <1>2, <2>1, MakerInjective
  <2>4. Len(s) <= Len(t)
    BY <2>2, <2>3, NoLonger
  <2> QED BY <2>1, <2>2, <2>4, SmallIndex
<1>10. Len(writer.links.table) <= INVALID_INDEX
  <2>1. PICK s, t : s = writer.links.table /\ t = engine.links
    OBVIOUS
  <2>2. /\ Len(s) \in Nat /\ Len(t) \in Nat /\ Cells(s) \subseteq Cells(t)
        /\ Len(t) <= INVALID_INDEX
    BY <1>2, <1>8, <2>1, LenProperties DEF IsMaker, TypeOK, TablesFit
  <2>3. \A i, h \in 1..Len(s) : s[i] = s[h] => i = h
    BY <1>2, <2>1, MakerInjective
  <2>4. Len(s) <= Len(t)
    BY <2>2, <2>3, NoLonger
  <2> QED BY <2>1, <2>2, <2>4, SmallIndex
<1> QED
  BY <1>5, <1>6, <1>7, <1>8, <1>9, <1>10

LEMMA CarefulReorganize ==
  ASSUME TypeOK, TurnOK, CarefulInvariant, IsCareful, UNCHANGED client, Reorganize
  PROVE  /\ CarefulInvariant' /\ Settled /\ Settled' /\ disk' = disk
         /\ Len(engine'.folders) = Len(engine.folders)
         /\ \A i \in 1..Len(engine.folders) : engine'.folders[i] = engine.folders[i]
<1>1. /\ Done /\ pc = "push" /\ pc' = "idle"
      /\ folder' = folder /\ path' = path /\ link' = link /\ disk' = disk
      /\ engine'.folders = writer.folders.table /\ engine'.paths = writer.paths.table
      /\ engine'.links = writer.links.table /\ engine'.pathLookup = engine.pathLookup
  BY DEF Reorganize, Done, heapVars
<1>2. /\ IsSound(disk) /\ Settled /\ NoRepetition(engine.folders) /\ LookupNames
      /\ PathsPlaced /\ LinksPlaced
  BY <1>1, CarefulPush DEF CarefulInvariant
<1>3. /\ Len(engine'.folders) = Len(engine.folders)
      /\ \A i \in 1..Len(engine.folders) : engine'.folders[i] = engine.folders[i]
      /\ Cells(engine'.paths) = Cells(engine.paths)
      /\ Cells(engine'.links) \subseteq Cells(engine.links)
      /\ \A p \in Cells(engine.paths) : Cells(path[p].links.cells) \subseteq Cells(engine'.links)
      /\ Len(engine'.paths) <= INVALID_INDEX /\ Len(engine'.links) <= INVALID_INDEX
  BY <1>1, CarefulDone
<1>4. NoRepetition(engine'.folders)
  BY <1>2, <1>3 DEF NoRepetition
<1>5. Settled'
  <2>1. Cells(engine'.folders) = Cells(engine.folders)
    BY <1>3 DEF Cells
  <2> QED BY <1>1, <1>2, <1>3, <2>1 DEF Settled
<1>6. PathsPlaced'
  BY ZenonT(60), <1>1, <1>2, <1>3 DEF PathsPlaced
<1>7. LinksPlaced'
  BY <1>1, <1>2, <1>3 DEF LinksPlaced
<1>8. LookupNames'
  BY <1>1, <1>2, <1>3 DEF LookupNames
<1>9. TablesFit'
  BY <1>3 DEF TablesFit
<1>10. CarefulTree'
  BY <1>1, <1>4, <1>5, <1>6, <1>7, <1>8, <1>9 DEF CarefulTree
<1> QED
  BY <1>1, <1>2, <1>3, <1>5, <1>10 DEF CarefulInvariant

-----------------------------------------------------------------------------
(* Writing. *)

\* A consecutive set is found again by the index of its first cell.
LEMMA ConsecutiveSpan ==
  ASSUME NEW G, NEW maker, IsMaker(maker, G), MakerOK(maker),
         NEW cells, Len(cells) \in Nat, Len(cells) # 0, Consecutive(cells, maker),
         NEW start, start = GetIndex(maker, cells[1])
  PROVE  /\ start \in Nat /\ start + Len(cells) <= Len(maker.table)
         /\ \A i \in 1..Len(cells) :
              start + i \in 1..Len(maker.table) /\ cells[i] = maker.table[start + i]
<1>0. PICK t, n, z : t = maker.table /\ n = Len(cells) /\ z = Len(t)
  OBVIOUS
<1>1. /\ z \in Nat /\ n \in Nat /\ n # 0
      /\ DOMAIN maker.index = Cells(t)
      /\ \A i \in 1..z : maker.index[t[i]] = i - 1
  BY <1>0, LenProperties DEF IsMaker, MakerOK
<1>2. /\ start = maker.index[cells[1]]
      /\ \A i \in 1..n : /\ cells[i] \in Cells(t)
                         /\ maker.index[cells[i]] = start + i - 1
  BY <1>0, <1>1 DEF Consecutive, HasCell, GetIndex
<1>3. start \in Nat
  <2>1. 1 \in 1..n
    BY <1>1
  <2>2. PICK k \in 1..z : cells[1] = t[k]
    BY <1>0, <1>2, <2>1 DEF Cells
  <2>3. start = k - 1
    BY <1>1, <1>2, <2>2
  <2> QED BY <1>1, <2>3
<1>4. ASSUME NEW i \in 1..n
      PROVE  start + i \in 1..z /\ cells[i] = t[start + i]
  <2>1. PICK k \in 1..z : cells[i] = t[k]
    BY <1>0, <1>2 DEF Cells
  <2>2. k - 1 = start + i - 1
    BY <1>1, <1>2, <2>1
  <2>3. k = start + i
    BY <1>1, <1>3, <2>2
  <2> QED BY <2>1, <2>3
<1>5. start + n <= z
  <2>1. start + n \in 1..z
    BY <1>1, <1>4
  <2> QED BY <1>1, <2>1
<1> QED
  BY <1>0, <1>3, <1>4, <1>5

\* Each path has a link, and the lookup leads to a path of the writer.
LEMMA CarefulWrites ==
  ASSUME TypeOK, TurnOK, CarefulInvariant, IsCareful, Done
  PROVE  Serialisable
<1>1. pc = "push" /\ LinksPlaced /\ LookupNames /\ MakerOK(writer.paths)
  BY CarefulPush, TurnTypes DEF Done
<1>2. Cells(writer.paths.table) = Cells(engine.paths)
  BY CarefulDone
<1>3. ASSUME NEW p \in Cells(engine.paths) PROVE path[p].links.cells # <<>>
  <2>1. Len(path[p].links.cells) = LinkCount(path[p].flags)
    BY <1>1 DEF LinksPlaced
  <2>2. Len(path[p].links.cells) # 0
    BY <2>1, LinkCounts
  <2> QED BY <2>2, EmptySeq
<1>4. ASSUME NEW name \in DOMAIN engine.pathLookup
      PROVE  HasCell(writer.paths, engine.pathLookup[name])
  <2>1. PICK p \in Cells(engine.paths) : name = path[p].fullPath
    BY <1>1 DEF LookupNames
  <2>2. engine.pathLookup[name] = p
    BY <1>1, <2>1 DEF LookupNames
  <2> QED BY <1>1, <1>2, <2>2 DEF HasCell, MakerOK
<1> QED
  BY <1>2, <1>3, <1>4 DEF Serialisable

\* What is written says the same as the heap.
LEMMA WrittenMirrors ==
  ASSUME TypeOK, TurnOK, CarefulInvariant, IsCareful, Done,
         NEW h, h = Heap, NEW image, image = WrittenImage
  PROVE  /\ Mirrors(image, h, writer.paths.table, writer.links.table, writer.metadatas.table)
         /\ \A f \in 1..Len(image.folders) :
              /\ image.folders[f].start \in Nat
              /\ image.folders[f].start + image.folders[f].count <= Len(image.paths)
         /\ \A i \in 1..Len(image.paths) :
              /\ image.paths[i].link \in Nat
              /\ image.paths[i].link + LinkCount(image.paths[i].flags) <= Len(image.links)
<1>0. PICK ft, pt, lt, mt :
        /\ ft = writer.folders.table /\ pt = writer.paths.table
        /\ lt = writer.links.table /\ mt = writer.metadatas.table
  OBVIOUS
<1>1. /\ pc = "push" /\ Settled /\ LinksPlaced /\ PathsPlaced
      /\ IsMaker(writer.folders, DOMAIN folder)
      /\ IsMaker(writer.paths, DOMAIN path) /\ MakerOK(writer.paths)
      /\ IsMaker(writer.links, DOMAIN link) /\ MakerOK(writer.links)
      /\ IsMaker(writer.metadatas, DOMAIN metadata) /\ MakerOK(writer.metadatas)
  BY CarefulPush, TurnTypes DEF Done
<1>2. /\ Len(ft) = Len(engine.folders)
      /\ \A i \in 1..Len(engine.folders) : ft[i] = engine.folders[i]
      /\ Cells(pt) = Cells(engine.paths) /\ Cells(lt) \subseteq Cells(engine.links)
      /\ Len(engine.folders) \in Nat
  BY <1>0, CarefulDone, EngineCells
<1>3. PICK nf, np, nl, nm : nf = Len(ft) /\ np = Len(pt) /\ nl = Len(lt) /\ nm = Len(mt)
  OBVIOUS
<1>4. nf \in Nat /\ np \in Nat /\ nl \in Nat /\ nm \in Nat
  BY <1>0, <1>1, <1>3, LenProperties DEF IsMaker
<1>5. /\ image.folders = [i \in 1..nf |-> WriteFolder(folder[ft[i]])]
      /\ image.paths = [i \in 1..np |-> WritePath(path[pt[i]])]
      /\ image.links = [i \in 1..nl |-> WriteLink(link[lt[i]])]
      /\ image.metadatas = [i \in 1..nm |-> metadata[mt[i]]]
  BY <1>0, <1>3 DEF WrittenImage
<1>6. /\ Len(image.folders) = nf /\ \A i \in 1..nf : image.folders[i] = WriteFolder(folder[ft[i]])
      /\ Len(image.paths) = np /\ \A i \in 1..np : image.paths[i] = WritePath(path[pt[i]])
      /\ Len(image.links) = nl /\ \A i \in 1..nl : image.links[i] = WriteLink(link[lt[i]])
      /\ Len(image.metadatas) = nm /\ \A i \in 1..nm : image.metadatas[i] = metadata[mt[i]]
  BY <1>4, <1>5
<1>7. /\ h.table = engine.folders /\ h.folder = folder /\ h.path = path
      /\ h.link = link /\ h.metadata = metadata
  BY DEF Heap
<1>8. SetsAreConsecutive /\ TablesAreReachable
  BY DoneConsecutive, DoneReachable
<1>9. /\ \A f \in Cells(ft) : Consecutive(folder[f].paths.cells, writer.paths)
      /\ \A p \in Cells(pt) : Consecutive(path[p].links.cells, writer.links)
      /\ Cells(mt) = {link[l].cell : l \in Cells(lt)}
      /\ Cells(ft) = Cells(engine.folders)
  BY <1>0, <1>8 DEF SetsAreConsecutive, TablesAreReachable
<1>10. ASSUME NEW i \in 1..nf
       PROVE  /\ IsFolderOf(folder[ft[i]], image.folders[i], pt)
              /\ image.folders[i].start \in Nat
              /\ image.folders[i].start + image.folders[i].count <= np
  <2>1. PICK f : f = ft[i] /\ f \in Cells(ft) /\ f \in Cells(engine.folders)
    BY <1>3, <1>9 DEF Cells
  <2>2. PICK cells, n : cells = folder[f].paths.cells /\ n = Len(cells)
    OBVIOUS
  <2>3. /\ f \in DOMAIN folder /\ IsSet(folder[f].paths) /\ n \in Nat
        /\ Consecutive(cells, writer.paths)
    BY <1>1, <1>9, <2>1, <2>2, EngineCells, SetCells, LenProperties DEF Settled
  <2>4. image.folders[i] =
          [name |-> folder[f].name, count |-> n,
           start |-> IF cells = <<>> THEN 0 ELSE GetIndex(writer.paths, cells[1])]
    BY <1>6, <2>1, <2>2 DEF WriteFolder
  <2>5. CASE n = 0
    <3>1. cells = <<>>
      BY <2>1, <2>2, <2>3, <2>5, SetCells, EmptySeq
    <3>2. image.folders[i].start = 0 /\ image.folders[i].count = 0
      BY <2>4, <2>5, <3>1
    <3> QED BY <1>4, <2>1, <2>2, <2>3, <2>4, <2>5, <3>2 DEF IsFolderOf
  <2>6. CASE n # 0
    <3>1. cells # <<>>
      BY <2>2, <2>6, EmptySeq
    <3>2. PICK start : start = GetIndex(writer.paths, cells[1])
      OBVIOUS
    <3>3. /\ start \in Nat /\ start + n <= np
          /\ \A k \in 1..n : start + k \in 1..Len(pt) /\ cells[k] = pt[start + k]
      <4>1. PICK G, maker : G = DOMAIN path /\ maker = writer.paths
        OBVIOUS
      <4>2. /\ IsMaker(maker, G) /\ MakerOK(maker) /\ Consecutive(cells, maker)
            /\ start = GetIndex(maker, cells[1]) /\ Len(cells) \in Nat /\ Len(cells) # 0
        BY <1>1, <2>2, <2>3, <2>6, <3>2, <4>1
      <4>3. /\ start \in Nat /\ start + Len(cells) <= Len(maker.table)
            /\ \A k \in 1..Len(cells) :
                 start + k \in 1..Len(maker.table) /\ cells[k] = maker.table[start + k]
        BY SMTT(60), <4>2, ConsecutiveSpan
      <4> QED BY <1>0, <1>3, <2>2, <4>1, <4>3
    <3>4. image.folders[i].start = start /\ image.folders[i].count = n
          /\ image.folders[i].name = folder[f].name
      BY <2>4, <3>1, <3>2
    <3> QED BY <2>1, <2>2, <2>3, <3>3, <3>4 DEF IsFolderOf
  <2> QED BY <2>5, <2>6
<1>11. ASSUME NEW i \in 1..np
       PROVE  /\ IsPathOf(path[pt[i]], image.paths[i], lt)
              /\ image.paths[i].link \in Nat
              /\ image.paths[i].link + LinkCount(image.paths[i].flags) <= nl
  <2>1. PICK p : p = pt[i] /\ p \in Cells(pt) /\ p \in Cells(engine.paths)
    BY <1>2, <1>3 DEF Cells
  <2>2. PICK cells, n, start : /\ cells = path[p].links.cells /\ n = Len(cells)
                               /\ start = GetIndex(writer.links, cells[1])
    OBVIOUS
  <2>3. /\ IsSet(path[p].links) /\ Consecutive(cells, writer.links)
        /\ n = LinkCount(path[p].flags) /\ n \in Nat /\ n # 0
    BY <1>1, <1>9, <2>1, <2>2, LinkCounts DEF Settled, LinksPlaced
  <2>4. /\ image.paths[i].fullPath = path[p].fullPath
        /\ image.paths[i].flags = path[p].flags
        /\ image.paths[i].link = start
    <3>1. image.paths[i] = WritePath(path[p])
      BY <1>6, <2>1
    <3>2. WritePath(path[p]) =
            [fullPath |-> path[p].fullPath, flags |-> path[p].flags, link |-> start]
      BY <2>2 DEF WritePath
    <3> QED BY <3>1, <3>2
  <2>5. /\ start \in Nat /\ start + n <= nl
        /\ \A k \in 1..n : start + k \in 1..Len(lt) /\ cells[k] = lt[start + k]
    <3>1. PICK G, maker : G = DOMAIN link /\ maker = writer.links
      OBVIOUS
    <3>2. /\ IsMaker(maker, G) /\ MakerOK(maker) /\ Consecutive(cells, maker)
          /\ start = GetIndex(maker, cells[1]) /\ Len(cells) \in Nat /\ Len(cells) # 0
      BY <1>1, <2>2, <2>3, <3>1
    <3>3. /\ start \in Nat /\ start + Len(cells) <= Len(maker.table)
          /\ \A k \in 1..Len(cells) :
               start + k \in 1..Len(maker.table) /\ cells[k] = maker.table[start + k]
      BY <3>2, ConsecutiveSpan
    <3> QED BY <1>0, <1>3, <2>2, <3>1, <3>3
  <2> QED BY <2>1, <2>2, <2>3, <2>4, <2>5 DEF IsPathOf
<1>12. ASSUME NEW i \in 1..nl
       PROVE  IsLinkOf(link[lt[i]], image.links[i], mt)
  <2>1. PICK l : l = lt[i] /\ l \in Cells(lt) /\ l \in Cells(engine.links)
    BY <1>2, <1>3 DEF Cells
  <2>2. IsCell(link[l]) /\ link[l].cell \in Cells(mt)
    BY <1>1, <1>9, <2>1 DEF Settled
  <2>3. PICK m \in 1..nm : link[l].cell = mt[m]
    BY <1>3, <2>2 DEF Cells
  <2>4. image.links[i] = m - 1
    <3>1. image.links[i] = writer.metadatas.index[link[l].cell]
      BY <1>6, <2>1 DEF WriteLink, GetIndex
    <3>2. writer.metadatas.index[mt[m]] = m - 1
      BY <1>0, <1>1, <1>3 DEF MakerOK
    <3> QED BY <2>3, <3>1, <3>2
  <2>5. image.links[i] + 1 = m
    BY <1>4, <2>4
  <2> QED BY <1>3, <2>1, <2>2, <2>3, <2>5 DEF IsLinkOf
<1>13. NoRepetition(mt)
  BY <1>0, <1>1, MakerInjective DEF NoRepetition
<1>14. \A f \in 1..nf : h.table[f] = ft[f]
  BY <1>2, <1>3, <1>7
<1>15. Mirrors(image, h, pt, lt, mt)
  BY <1>2, <1>3, <1>6, <1>7, <1>10, <1>11, <1>12, <1>13, <1>14 DEF Mirrors
<1> QED
  BY <1>0, <1>6, <1>10, <1>11, <1>15

\* The lookup has a name for each path.
LEMMA LookupCounts ==
  ASSUME LookupNames, NEW pt, NoRepetition(pt), Cells(pt) = Cells(engine.paths),
         Len(pt) \in Nat
  PROVE  Cardinality(DOMAIN engine.pathLookup) = Len(pt)
<1>1. PICK T, n, s : /\ T = DOMAIN engine.pathLookup /\ n = Len(pt)
                     /\ s = [i \in 1..n |-> path[pt[i]].fullPath]
  OBVIOUS
<1>2. /\ \A i, k \in 1..n : pt[i] = pt[k] => i = k
      /\ \A i \in 1..n : pt[i] \in Cells(engine.paths)
      /\ \A p \in Cells(engine.paths) : \E i \in 1..n : p = pt[i]
  BY <1>1 DEF NoRepetition, Cells
<1>3. /\ \A p \in Cells(engine.paths) : engine.pathLookup[path[p].fullPath] = p
      /\ \A p \in Cells(engine.paths) : path[p].fullPath \in T
      /\ \A t \in T : \E p \in Cells(engine.paths) : t = path[p].fullPath
  BY <1>1 DEF LookupNames
<1>4. \A i \in 1..n : s[i] \in T
  BY <1>1, <1>2, <1>3
<1>5. ASSUME NEW t \in T PROVE \E i \in 1..n : t = s[i]
  BY <1>1, <1>2, <1>3
<1>6. ASSUME NEW i \in 1..n, NEW k \in 1..n, s[i] = s[k] PROVE i = k
  <2>1. pt[i] = pt[k]
    BY <1>1, <1>2, <1>3, <1>6
  <2> QED BY <1>2, <2>1
<1>7. n \in Nat
  BY <1>1
<1>8. Cardinality(T) = n
  BY <1>4, <1>5, <1>6, <1>7, Counted
<1> QED
  BY <1>1, <1>8

\* An image that mirrors a careful client's engine, in tables without repetition,
\* is sound.
LEMMA MirrorIsSound ==
  ASSUME TypeOK, PathsPlaced, LinksPlaced, LookupNames,
         NEW h, h = Heap, NEW image, NEW pt, NEW lt, NEW mt,
         Mirrors(image, h, pt, lt, mt),
         \A f \in 1..Len(image.folders) :
           /\ image.folders[f].start \in Nat
           /\ image.folders[f].start + image.folders[f].count <= Len(image.paths),
         \A i \in 1..Len(image.paths) :
           /\ image.paths[i].link \in Nat
           /\ image.paths[i].link + LinkCount(image.paths[i].flags) <= Len(image.links),
         Len(image.folders) \in Nat, Len(image.paths) \in Nat, Len(image.links) \in Nat,
         Len(image.metadatas) \in Nat,
         \A n \in 1..Len(image.links) : image.links[n] \in Nat,
         \A f \in 1..Len(image.folders) : image.folders[f].count \in Nat,
         NoRepetition(pt), NoRepetition(lt), Cells(pt) = Cells(engine.paths),
         image.keys = Cardinality(DOMAIN engine.pathLookup),
         Len(image.paths) <= INVALID_INDEX, Len(image.links) <= INVALID_INDEX
  PROVE  IsSound(image)
<1> DEFINE F == 1..Len(image.folders)
           P == 1..Len(image.paths)
           L == 1..Len(image.links)
           start(f) == image.folders[f].start
           count(f) == image.folders[f].count
           first(i) == image.paths[i].link
           links(i) == LinkCount(image.paths[i].flags)
           cells(f) == folder[engine.folders[f]].paths.cells
<1>1. /\ 1..Len(engine.folders) = F /\ 1..Len(pt) = P /\ 1..Len(lt) = L
      /\ Len(pt) = Len(image.paths)
      /\ h.table = engine.folders /\ h.folder = folder /\ h.path = path /\ h.link = link
  BY DEF Mirrors, Heap
<1>2. /\ \A f \in F : IsFolderOf(folder[engine.folders[f]], image.folders[f], pt)
      /\ \A i \in P : IsPathOf(path[pt[i]], image.paths[i], lt)
      /\ \A n \in L : IsLinkOf(link[lt[n]], image.links[n], mt)
      /\ Len(mt) = Len(image.metadatas)
  BY <1>1 DEF Mirrors
<1>3. /\ \A i, k \in P : pt[i] = pt[k] => i = k
      /\ \A m, n \in L : lt[m] = lt[n] => m = n
      /\ \A i \in P : pt[i] \in Cells(engine.paths)
      /\ \A p \in Cells(engine.paths) : \E i \in P : p = pt[i]
  BY <1>1 DEF NoRepetition, Cells
<1>4. ASSUME NEW f \in F, NEW k \in 1..count(f)
      PROVE  start(f) + k \in P /\ cells(f)[k] = pt[start(f) + k]
  BY <1>1, <1>2 DEF IsFolderOf
<1>5. \A f \in F : Len(cells(f)) = count(f) /\ start(f) \in Nat /\ count(f) \in Nat
  BY <1>2 DEF IsFolderOf
<1>6. ASSUME NEW f \in F, NEW i \in P
      PROVE  InSpan(i, start(f), count(f)) <=> pt[i] \in Cells(cells(f))
  <2>1. ASSUME InSpan(i, start(f), count(f)) PROVE pt[i] \in Cells(cells(f))
    <3>1. i - start(f) \in 1..count(f) /\ start(f) + (i - start(f)) = i
      BY <1>5, <2>1 DEF InSpan
    <3>2. cells(f)[i - start(f)] = pt[i] /\ i - start(f) \in 1..Len(cells(f))
      BY <1>4, <1>5, <3>1
    <3> QED BY ZenonT(60), <3>2 DEF Cells
  <2>2. ASSUME pt[i] \in Cells(cells(f)) PROVE InSpan(i, start(f), count(f))
    <3>1. PICK k \in 1..count(f) : pt[i] = cells(f)[k]
      BY <1>5, <2>2 DEF Cells
    <3>2. start(f) + k \in P /\ pt[start(f) + k] = pt[i]
      BY <1>4, <3>1
    <3>3. i = start(f) + k
      BY <1>3, <3>2
    <3> QED BY <1>5, <3>3 DEF InSpan
  <2> QED BY SMTT(60), <2>1, <2>2
<1>7. ASSUME NEW i \in P PROVE \E f \in F : InSpan(i, start(f), count(f))
  <2>1. PICK f \in F : pt[i] \in Cells(cells(f))
    BY <1>1, <1>3 DEF PathsPlaced
  <2> QED BY <1>6, <2>1
<1>8. ASSUME NEW i \in P, NEW f \in F, NEW g \in F,
             InSpan(i, start(f), count(f)), InSpan(i, start(g), count(g))
      PROVE  f = g
  <2>1. pt[i] \in Cells(cells(f)) /\ pt[i] \in Cells(cells(g))
    BY <1>6, <1>8
  <2> QED BY <1>1, <2>1 DEF PathsPlaced
<1>9. ASSUME NEW i \in P
      PROVE  /\ image.paths[i].flags \in {0, 1, 2}
             /\ image.paths[i].fullPath = path[pt[i]].fullPath
  <2>1. IsPathOf(path[pt[i]], image.paths[i], lt) /\ pt[i] \in DOMAIN path
    BY <1>2, <1>3, EngineCells
  <2>2. path[pt[i]].flags \in 0..2
    BY <2>1 DEF TypeOK, StreamPath
  <2> QED BY <2>1, <2>2 DEF IsPathOf
<1>10. ASSUME NEW i \in P, NEW k \in P, path[pt[i]].fullPath = path[pt[k]].fullPath
       PROVE  i = k
  <2>1. \A p \in Cells(engine.paths) : engine.pathLookup[path[p].fullPath] = p
    BY DEF LookupNames
  <2>2. /\ engine.pathLookup[path[pt[i]].fullPath] = pt[i]
        /\ engine.pathLookup[path[pt[k]].fullPath] = pt[k]
    BY <1>3, <2>1
  <2>3. pt[i] = pt[k]
    BY <1>10, <2>2
  <2> QED BY <1>3, <2>3
<1>11. Cardinality(DOMAIN engine.pathLookup) = Len(image.paths)
  BY <1>1, LookupCounts
<1>12. ASSUME NEW n \in L PROVE image.links[n] < Len(image.metadatas)
  <2>1. image.links[n] + 1 \in 1..Len(mt)
    BY <1>2 DEF IsLinkOf
  <2> QED BY <1>2, <2>1
<1>13. ASSUME NEW n \in L, NEW i \in P, NEW k \in P,
              InSpan(n, first(i), links(i)), InSpan(n, first(k), links(k))
       PROVE  i = k
  <2>1. ASSUME NEW j \in P, InSpan(n, first(j), links(j))
        PROVE  lt[n] \in Cells(path[pt[j]].links.cells)
    <3>1. IsPathOf(path[pt[j]], image.paths[j], lt)
      BY <1>2
    <3>2. links(j) \in Nat /\ first(j) \in Nat
      BY LinkCounts
    <3>3. n - first(j) \in 1..links(j) /\ first(j) + (n - first(j)) = n
      BY <2>1, <3>2 DEF InSpan
    <3>4. /\ path[pt[j]].links.cells[n - first(j)] = lt[n]
          /\ n - first(j) \in 1..Len(path[pt[j]].links.cells)
      BY <3>1, <3>3 DEF IsPathOf
    <3> QED BY <3>4 DEF Cells
  <2>2. pt[i] = pt[k]
    BY <1>3, <1>13, <2>1 DEF LinksPlaced
  <2> QED BY <1>3, <2>2
<1>14. \A i, k \in P : image.paths[i].fullPath = image.paths[k].fullPath => i = k
  BY <1>9, <1>10
<1> QED
  BY <1>7, <1>8, <1>9, <1>11, <1>12, <1>13, <1>14 DEF IsSound

LEMMA CarefulWrite ==
  ASSUME TypeOK, TurnOK, CarefulInvariant, IsCareful, UNCHANGED client, Write
  PROVE  /\ CarefulInvariant' /\ Settled
         /\ StoredView(disk') = LiveView(Heap)
<1>1. Done /\ pc = "push" /\ disk' = WrittenImage /\ pc' = "closed"
  BY DEF Write, Done
<1>2. /\ Settled /\ PathsPlaced /\ LinksPlaced /\ LookupNames
      /\ IsMaker(writer.paths, DOMAIN path) /\ MakerOK(writer.paths)
      /\ IsMaker(writer.links, DOMAIN link) /\ MakerOK(writer.links)
  BY <1>1, CarefulPush, TurnTypes
<1>3. PICK h, image, pt, lt, mt :
        /\ h = Heap /\ image = WrittenImage
        /\ pt = writer.paths.table /\ lt = writer.links.table /\ mt = writer.metadatas.table
  OBVIOUS
<1>4. /\ Mirrors(image, h, pt, lt, mt)
      /\ \A f \in 1..Len(image.folders) :
           /\ image.folders[f].start \in Nat
           /\ image.folders[f].start + image.folders[f].count <= Len(image.paths)
      /\ \A i \in 1..Len(image.paths) :
           /\ image.paths[i].link \in Nat
           /\ image.paths[i].link + LinkCount(image.paths[i].flags) <= Len(image.links)
  BY <1>1, <1>3, WrittenMirrors
<1>5. IsImage(image)
  BY <1>3, WrittenIsImage
<1>6. /\ Len(image.folders) \in Nat /\ Len(image.paths) \in Nat /\ Len(image.links) \in Nat
      /\ Len(image.metadatas) \in Nat
      /\ \A n \in 1..Len(image.links) : image.links[n] \in Nat
      /\ \A f \in 1..Len(image.folders) : image.folders[f].count \in Nat
  BY <1>5, LenProperties, ElementOfSeq DEF IsImage, Cells
<1>7. NoRepetition(pt) /\ NoRepetition(lt)
  BY <1>2, <1>3, MakerInjective DEF NoRepetition
<1>8. /\ Cells(pt) = Cells(engine.paths)
      /\ Len(image.paths) <= INVALID_INDEX /\ Len(image.links) <= INVALID_INDEX
  <2>1. Len(pt) = Len(image.paths) /\ Len(lt) = Len(image.links)
    BY <1>4 DEF Mirrors
  <2> QED BY <1>1, <1>3, <2>1, CarefulDone
<1>9. image.keys = Cardinality(DOMAIN engine.pathLookup)
  BY <1>3 DEF WrittenImage
<1>10. IsSound(image)
  BY <1>2, <1>3, <1>4, <1>6, <1>7, <1>8, <1>9, MirrorIsSound
<1>11. LiveView(h) = StoredView(image)
  BY <1>4, MirrorShows
<1> QED
  BY <1>1, <1>2, <1>3, <1>10, <1>11 DEF CarefulInvariant, Open

-----------------------------------------------------------------------------
(* Every step of a careful client's program. *)

LEMMA CarefulKinds ==
  ASSUME TypeOK, TurnOK, CarefulInvariant, IsCareful, Next
  PROVE  \/ Read \/ ResolveAll \/ Edit \/ (\E t : FromEngine(t))
         \/ PushStep \/ Reorganize \/ Write
<1>1. ~ReadGarbled /\ ~ReadPanics
  BY CarefulReads
<1>2. ~ResolvePanics
  BY CarefulResolves
<1>3. ~WritePanics
  BY CarefulWrites DEF WritePanics
<1> QED
  BY <1>1, <1>2, <1>3 DEF Next, Step, CallStep

LEMMA CarefulPushStep ==
  ASSUME TypeOK, TurnOK, CarefulInvariant, IsCareful, UNCHANGED client, PushStep
  PROVE  /\ CarefulInvariant' /\ Settled /\ Settled' /\ pc = "push" /\ pc' = pc
         /\ disk' = disk
<1>1. pc = "push"
  BY DEF PushStep, PushFolder, PushPath, PushLink, PushNextPath, PushNextFolder,
         AtPath, Pushing
<1> QED
  BY <1>1, CarefulPushFolder, CarefulPushPath, CarefulPushLink, CarefulNextPath,
     CarefulNextFolder DEF PushStep

LEMMA CarefulStep ==
  TypeOK /\ TurnOK /\ CarefulInvariant /\ [Next]_vars => CarefulInvariant'
<1> SUFFICES ASSUME TypeOK, TurnOK, CarefulInvariant, [Next]_vars PROVE CarefulInvariant'
  OBVIOUS
<1>1. CASE UNCHANGED vars
  <2>1. UNCHANGED <<folder, path, link, metadata, guid, engine, writer, at, disk, client, pc>>
    BY <1>1 DEF vars, heapVars, writerVars
  <2>2. /\ (IsCareful' <=> IsCareful) /\ (Open' <=> Open) /\ (Settled' <=> Settled)
    BY <2>1 DEF IsCareful, Open, Settled
  <2>3. CarefulTree => CarefulTree'
    <3>1. PushedInOrder => PushedInOrder'
      BY ZenonT(60), <2>1 DEF PushedInOrder, LinksHere, PathsHere
    <3>2. (PathsPlaced => PathsPlaced') /\ (LinksPlaced => LinksPlaced')
      BY <2>1 DEF PathsPlaced, LinksPlaced
    <3>3. (AsRead => AsRead') /\ (LookupNames => LookupNames')
      BY <2>1 DEF AsRead, LookupNames
    <3>4. /\ NoRepetition(engine.folders) => NoRepetition(engine.folders)'
          /\ TablesFit => TablesFit'
      BY <2>1 DEF NoRepetition, TablesFit
    <3> QED BY SMTT(60), <2>1, <2>2, <3>1, <3>2, <3>3, <3>4 DEF CarefulTree
  <2> QED BY <2>1, <2>2, <2>3 DEF CarefulInvariant
<1>2. CASE Next
  <2>1. UNCHANGED client
    BY <1>2 DEF Next
  <2>2. CASE ~IsCareful
    BY <2>1, <2>2 DEF CarefulInvariant, IsCareful
  <2>3. CASE IsCareful
    <3>1. CASE Read
      BY <2>1, <2>3, <3>1, CarefulRead
    <3>2. CASE ResolveAll
      BY <2>1, <2>3, <3>2, CarefulResolve
    <3>3. CASE Edit
      BY <2>1, <2>3, <3>3, CarefulEdit
    <3>4. CASE \E t : FromEngine(t)
      BY <2>1, <2>3, <3>4, CarefulFromEngine
    <3>5. CASE PushStep
      BY <2>1, <2>3, <3>5, CarefulPushStep
    <3>6. CASE Reorganize
      BY <2>1, <2>3, <3>6, CarefulReorganize
    <3>7. CASE Write
      BY <2>1, <2>3, <3>7, CarefulWrite
    <3> QED BY <1>2, <2>3, <3>1, <3>2, <3>3, <3>4, <3>5, <3>6, <3>7, CarefulKinds
  <2> QED BY <2>2, <2>3
<1> QED
  BY <1>1, <1>2

-----------------------------------------------------------------------------
(* Every step of it as a step of a document. *)

\* Two heaps that agree on what the folders reach show the same.
LEMMA SameLive ==
  ASSUME NEW h, NEW k, k.table = h.table, k.metadata = h.metadata,
         \A f \in 1..Len(h.table) : LiveFolder(k, f) = LiveFolder(h, f),
         \A f \in 1..Len(h.table) : \A i \in 1..Len(LiveFolder(h, f).paths.cells) :
           LivePath(k, f, i) = LivePath(h, f, i),
         \A f \in 1..Len(h.table) : \A i \in 1..Len(LiveFolder(h, f).paths.cells) :
           \A n \in 1..Len(LivePath(h, f, i).links.cells) :
             LiveLink(k, f, i, n) = LiveLink(h, f, i, n)
  PROVE  LiveView(k) = LiveView(h)
<1>1. LiveNames(k) = LiveNames(h)
  BY DEF LiveNames
<1>2. LiveHeads(k) = LiveHeads(h)
  <2> DEFINE H(x, f) == [i \in 1..Len(LiveFolder(x, f).paths.cells) |->
                          <<LivePath(x, f, i).fullPath, LivePath(x, f, i).flags>>]
  <2>1. ASSUME NEW f \in 1..Len(h.table) PROVE H(k, f) = H(h, f)
    OBVIOUS
  <2>2. LiveHeads(k) = [f \in 1..Len(k.table) |-> H(k, f)]
        /\ LiveHeads(h) = [f \in 1..Len(h.table) |-> H(h, f)]
    BY DEF LiveHeads
  <2> HIDE DEF H
  <2> QED BY <2>1, <2>2
<1>3. LiveRows(k) = LiveRows(h)
  <2> DEFINE N(x, f, i) == [n \in 1..Len(LivePath(x, f, i).links.cells) |->
                              LiveLink(x, f, i, n).cell]
             H(x, f) == [i \in 1..Len(LiveFolder(x, f).paths.cells) |-> N(x, f, i)]
  <2>1. ASSUME NEW f \in 1..Len(h.table), NEW i \in 1..Len(LiveFolder(h, f).paths.cells)
        PROVE  N(k, f, i) = N(h, f, i)
    OBVIOUS
  <2>2. LiveRows(k) = [f \in 1..Len(k.table) |-> H(k, f)]
        /\ LiveRows(h) = [f \in 1..Len(h.table) |-> H(h, f)]
    BY DEF LiveRows
  <2> HIDE DEF N
  <2>3. ASSUME NEW f \in 1..Len(h.table) PROVE H(k, f) = H(h, f)
    BY <2>1
  <2> HIDE DEF H
  <2> QED BY <2>2, <2>3
<1> QED
  BY <1>1, <1>2, <1>3 DEF LiveView

LEMMA RefineInit == Init => Archive!Init
<1> SUFFICES ASSUME Init PROVE Archive!Init
  OBVIOUS
<1>1. client \in Clients /\ disk \in client.images /\ pc = "closed"
  BY DEF Init
<1>2. IsOpen = FALSE /\ IsWorking = FALSE
  BY <1>1 DEF IsOpen, IsWorking, Open
<1>3. Shown = Stored
  BY <1>2 DEF Shown
<1>4. Stored \in {StoredView(image) : image \in CarefulImages} \cup {<<>>}
  <2>1. IsCareful => disk \in CarefulImages
    BY <1>1 DEF IsCareful, CarefulImages
  <2> QED BY <2>1 DEF Stored
<1> QED
  BY <1>2, <1>3, <1>4 DEF Archive!Init

LEMMA RefineRead ==
  ASSUME TypeOK, CarefulInvariant, IsCareful, UNCHANGED client, Read
  PROVE  Archive!Open
<1>1. pc = "closed" /\ pc' = "idle" /\ disk' = disk /\ IsCareful'
  BY DEF Read, IsCareful
<1>2. ~IsOpen /\ IsOpen' = TRUE /\ IsWorking' \in BOOLEAN
  BY <1>1 DEF IsOpen, IsWorking, Open
<1>3. Stored' = Stored /\ Shown = Stored
  BY <1>1, <1>2 DEF Stored, Shown
<1>4. ASSUME Settled' PROVE LiveView(Heap)' = StoredView(disk)
  <2>1. /\ AsRead' /\ Len(engine'.folders) = 0 /\ Len(engine'.paths) = 0
        /\ Len(engine'.links) = 0
    BY <1>4, ReadEngine, ReadIsUnresolved
  <2>2. /\ Len(disk.folders) = 0 /\ Len(disk.paths) = 0 /\ Len(disk.links) = 0
        /\ Len(engine'.metadatas) = Len(disk.metadatas) /\ NoRepetition(engine'.metadatas)
        /\ \A m \in 1..Len(engine'.metadatas) :
             metadata'[engine'.metadatas[m]] = disk.metadatas[m]
    BY <1>1, <1>4, <2>1, ReadIsUnresolved DEF AsRead, ParseMetadata, NoRepetition
  <2>3. PICK h : h = Heap'
    OBVIOUS
  <2>4. h.table = engine'.folders /\ h.metadata = metadata'
    BY <2>3 DEF Heap
  <2>5. Mirrors(disk, h, engine'.paths, engine'.links, engine'.metadatas)
    BY <2>1, <2>2, <2>4 DEF Mirrors
  <2>6. LiveView(h) = StoredView(disk)
    BY <2>5, MirrorShows
  <2> QED BY <2>3, <2>6
<1>5. Shown' = Shown
  <2>1. Stored' = StoredView(disk)
    BY <1>1 DEF Stored
  <2>2. Shown' = IF IsOpen' /\ Settled' THEN LiveView(Heap)' ELSE Stored'
    BY DEF Shown
  <2> QED BY <1>3, <1>4, <2>1, <2>2
<1> QED
  BY <1>2, <1>3, <1>5 DEF Archive!Open

\* The steps between two engines.
LEMMA WorkingEngine ==
  ASSUME IsCareful, UNCHANGED client, pc \in {"idle", "push"}, pc' \in {"idle", "push"},
         disk' = disk
  PROVE  /\ IsOpen = TRUE /\ IsOpen' = TRUE /\ Stored' = Stored
         /\ IsWorking = (pc = "push" \/ ~Settled)
         /\ IsWorking' = (pc' = "push" \/ ~Settled')
         /\ Shown = (IF Settled THEN LiveView(Heap) ELSE StoredView(disk))
         /\ Shown' = (IF Settled' THEN LiveView(Heap)' ELSE StoredView(disk))
<1>1. IsCareful' /\ Open /\ Open'
  BY DEF IsCareful, Open
<1>2. IsOpen = TRUE /\ IsOpen' = TRUE
  BY <1>1 DEF IsOpen
<1>3. Stored = StoredView(disk) /\ Stored' = StoredView(disk)
  BY <1>1 DEF Stored
<1>4. /\ IsWorking = (pc = "push" \/ ~Settled)
      /\ IsWorking' = (pc' = "push" \/ ~Settled')
  BY <1>2 DEF IsWorking
<1> QED
  BY <1>2, <1>3, <1>4 DEF Shown

\* Resolving what is resolved shows in nothing.
LEMMA ResolvedShows ==
  ASSUME TypeOK, Settled, PathsPlaced, LinksPlaced, ResolveAll
  PROVE  LiveView(Heap)' = LiveView(Heap)
<1>1. PICK h, k : h = Heap /\ k = Heap'
  OBVIOUS
<1>2. /\ h.table = engine.folders /\ h.folder = folder /\ h.path = path /\ h.link = link
      /\ h.metadata = metadata
      /\ k.table = engine.folders /\ k.folder = folder' /\ k.path = path'
      /\ k.link = link' /\ k.metadata = metadata
  BY <1>1 DEF Heap, ResolveAll
<1>3. /\ \A f \in DOMAIN folder : folder'[f] = folder[f]
      /\ \A p \in DOMAIN path : path'[p] = path[p]
      /\ \A l \in DOMAIN link : link'[l] = link[l]
  BY ResolvedAlready
<1>4. /\ \A f \in 1..Len(engine.folders) : engine.folders[f] \in DOMAIN folder
      /\ Cells(engine.paths) \subseteq DOMAIN path
      /\ Cells(engine.links) \subseteq DOMAIN link
  BY EngineCells
<1>5. ASSUME NEW f \in 1..Len(h.table)
      PROVE  LiveFolder(k, f) = LiveFolder(h, f)
  BY <1>2, <1>3, <1>4 DEF LiveFolder
<1>6. ASSUME NEW f \in 1..Len(h.table), NEW i \in 1..Len(LiveFolder(h, f).paths.cells)
      PROVE  /\ LivePath(k, f, i) = LivePath(h, f, i)
             /\ LiveFolder(h, f).paths.cells[i] \in Cells(engine.paths)
  <2>1. LiveFolder(h, f) = folder[engine.folders[f]]
    BY <1>2 DEF LiveFolder
  <2>2. Cells(LiveFolder(h, f).paths.cells) \subseteq Cells(engine.paths)
    <3>1. f \in 1..Len(engine.folders)
      BY <1>2
    <3> QED BY <2>1, <3>1 DEF PathsPlaced
  <2>3. LiveFolder(h, f).paths.cells[i] \in Cells(LiveFolder(h, f).paths.cells)
    BY DEF Cells
  <2>4. LiveFolder(h, f).paths.cells[i] \in Cells(engine.paths)
    BY <2>2, <2>3
  <2> QED BY <1>2, <1>3, <1>4, <1>5, <2>4 DEF LivePath
<1>7. ASSUME NEW f \in 1..Len(h.table), NEW i \in 1..Len(LiveFolder(h, f).paths.cells),
             NEW n \in 1..Len(LivePath(h, f, i).links.cells)
      PROVE  LiveLink(k, f, i, n) = LiveLink(h, f, i, n)
  <2>1. PICK p : p = LiveFolder(h, f).paths.cells[i] /\ p \in Cells(engine.paths)
    BY <1>6
  <2>2. LivePath(h, f, i) = path[p]
    BY <1>2, <2>1 DEF LivePath
  <2>3. PICK l : l = LivePath(h, f, i).links.cells[n] /\ l \in Cells(engine.links)
    BY <2>1, <2>2 DEF LinksPlaced, Cells
  <2> QED BY <1>2, <1>3, <1>4, <1>6, <2>3 DEF LiveLink
<1>8. LiveView(k) = LiveView(h)
  BY <1>2, <1>5, <1>6, <1>7, SameLive
<1> QED
  BY <1>1, <1>8

LEMMA RefineResolve ==
  ASSUME TypeOK, CarefulInvariant, IsCareful, UNCHANGED client, ResolveAll
  PROVE  Archive!Work \/ UNCHANGED Archive!vars
<1>1. pc = "idle" /\ pc' = pc /\ disk' = disk
  BY DEF ResolveAll
<1>2. Settled' /\ IsSound(disk) /\ (~Settled => AsRead)
      /\ (Settled => PathsPlaced /\ LinksPlaced)
  BY <1>1, CarefulResolve DEF CarefulInvariant, CarefulTree, Open
<1>3. /\ IsOpen = TRUE /\ IsOpen' = TRUE /\ Stored' = Stored
      /\ IsWorking = (pc = "push" \/ ~Settled)
      /\ IsWorking' = (pc' = "push" \/ ~Settled')
      /\ Shown = (IF Settled THEN LiveView(Heap) ELSE StoredView(disk))
      /\ Shown' = (IF Settled' THEN LiveView(Heap)' ELSE StoredView(disk))
  BY <1>1, WorkingEngine
<1>4. CASE Settled
  <2>1. Shown' = Shown
    BY <1>2, <1>3, <1>4, ResolvedShows
  <2> QED BY <1>1, <1>2, <1>3, <1>4, <2>1 DEF Archive!vars
<1>5. CASE ~Settled
  <2>1. PICK h : h = Heap'
    OBVIOUS
  <2>2. h.table = engine.folders /\ h.folder = folder' /\ h.path = path' /\ h.link = link'
        /\ h.metadata = metadata'
    BY <2>1 DEF Heap, ResolveAll
  <2>3. Mirrors(disk, h, engine.paths, engine.links, engine.metadatas)
    BY <1>2, <1>5, <2>2, ResolveMirrors
  <2>4. LiveView(h) = StoredView(disk)
    BY <2>3, MirrorShows
  <2>5. Shown' = Shown
    BY <1>2, <1>3, <1>5, <2>1, <2>4
  <2> QED BY <1>1, <1>2, <1>3, <1>5, <2>5 DEF Archive!Work
<1> QED
  BY <1>4, <1>5

\* What an edit changes is what is shown, if anything.
LEMMA RefineEdit ==
  ASSUME TypeOK, CarefulInvariant, IsCareful, UNCHANGED client, Edit
  PROVE  Archive!Edit \/ UNCHANGED Archive!vars
<1>1. pc = "idle" /\ pc' = pc /\ disk' = disk /\ Settled /\ Settled'
  BY CarefulEdit DEF Edit
<1>2. /\ IsOpen = TRUE /\ IsOpen' = TRUE /\ Stored' = Stored
      /\ IsWorking = (pc = "push" \/ ~Settled)
      /\ IsWorking' = (pc' = "push" \/ ~Settled')
  BY <1>1, WorkingEngine
<1> QED
  BY <1>1, <1>2 DEF Archive!Edit, Archive!vars

\* The writer's steps keep the records and the order of the folders.
LEMMA RefineWriter ==
  ASSUME TypeOK, TurnOK, CarefulInvariant, IsCareful, UNCHANGED client,
         (\E t : FromEngine(t)) \/ PushStep \/ Reorganize
  PROVE  Archive!Work \/ UNCHANGED Archive!vars
<1>1. /\ Settled /\ Settled' /\ disk' = disk
      /\ pc \in {"idle", "push"} /\ pc' \in {"idle", "push"}
      /\ PushStep => pc' = pc
      /\ ~PushStep => (pc' = "push" <=> pc = "idle")
  <2>1. CASE \E t : FromEngine(t)
    BY <2>1, CarefulFromEngine DEF FromEngine, PushStep, PushFolder, PushPath, PushLink,
          PushNextPath, PushNextFolder, AtPath, Pushing
  <2>2. CASE PushStep
    BY <2>2, CarefulPushStep
  <2>3. CASE ~PushStep /\ Reorganize
    BY <2>3, CarefulReorganize DEF Reorganize, Done
  <2> QED BY <2>1, <2>2, <2>3
<1>2. Heap' = Heap
  <2>1. CASE \E t : FromEngine(t)
    BY <2>1 DEF FromEngine, heapVars, Heap
  <2>2. CASE PushStep
    BY <2>2 DEF PushStep, PushFolder, PushPath, PushLink, PushNextPath, PushNextFolder,
          Panic, heapVars, Heap
  <2>3. CASE Reorganize
    <3>1. /\ Len(engine'.folders) = Len(engine.folders)
          /\ \A i \in 1..Len(engine.folders) : engine'.folders[i] = engine.folders[i]
      BY <2>3, CarefulReorganize
    <3>2. engine.folders \in Seq(DOMAIN folder) /\ engine'.folders \in Seq(DOMAIN folder)
      <4>1. TypeOK' /\ folder' = folder
        BY <2>3, TurnReorganize DEF Reorganize, heapVars
      <4> QED BY <4>1 DEF TypeOK
    <3>3. engine'.folders = engine.folders
      BY <3>1, <3>2, SeqEqual
    <3> QED BY <2>3, <3>3 DEF Reorganize, heapVars, Heap
  <2> QED BY <2>1, <2>2, <2>3
<1>3. /\ IsOpen = TRUE /\ IsOpen' = TRUE /\ Stored' = Stored
      /\ IsWorking = (pc = "push" \/ ~Settled)
      /\ IsWorking' = (pc' = "push" \/ ~Settled')
      /\ Shown = (IF Settled THEN LiveView(Heap) ELSE StoredView(disk))
      /\ Shown' = (IF Settled' THEN LiveView(Heap)' ELSE StoredView(disk))
  BY <1>1, WorkingEngine
<1>4. Shown' = Shown
  BY <1>1, <1>2, <1>3
<1>5. CASE PushStep
  BY <1>1, <1>3, <1>4, <1>5 DEF Archive!vars
<1>6. CASE ~PushStep
  <2>1. IsWorking' = ~IsWorking
    BY <1>1, <1>3, <1>6
  <2> QED BY <1>3, <1>4, <2>1 DEF Archive!Work
<1> QED
  BY <1>5, <1>6

LEMMA RefineWrite ==
  ASSUME TypeOK, TurnOK, CarefulInvariant, IsCareful, UNCHANGED client, Write
  PROVE  Archive!Save
<1>1. /\ pc = "push" /\ pc' = "closed" /\ Settled
      /\ StoredView(disk') = LiveView(Heap) /\ IsCareful'
  BY CarefulWrite DEF Write, Done, IsCareful
<1>2. IsOpen /\ IsWorking /\ Shown = LiveView(Heap)
  BY <1>1 DEF IsOpen, IsWorking, Open, Shown
<1>3. IsOpen' = FALSE /\ IsWorking' = FALSE
  BY <1>1 DEF IsOpen, IsWorking, Open
<1>4. Stored' = StoredView(disk') /\ Shown' = Stored'
  BY <1>1, <1>3 DEF Stored, Shown
<1> QED
  BY <1>1, <1>2, <1>3, <1>4 DEF Archive!Save

LEMMA RefineStep ==
  TypeOK /\ TurnOK /\ CarefulInvariant /\ [Next]_vars => [Archive!Next]_(Archive!vars)
<1> SUFFICES ASSUME TypeOK, TurnOK, CarefulInvariant, [Next]_vars
             PROVE  Archive!Next \/ UNCHANGED Archive!vars
  OBVIOUS
<1>1. CASE UNCHANGED vars
  <2>1. UNCHANGED <<folder, path, link, metadata, engine, disk, client, pc>>
    BY <1>1 DEF vars, heapVars
  <2>2. IsCareful' = IsCareful /\ Open' = Open /\ Settled' = Settled /\ Heap' = Heap
    BY <2>1 DEF IsCareful, Open, Settled, Heap
  <2> QED BY <2>1, <2>2 DEF Archive!vars, Stored, IsOpen, IsWorking, Shown
<1>2. CASE Next
  <2>1. UNCHANGED client
    BY <1>2 DEF Next
  <2>2. CASE ~IsCareful
    <3>1. ~IsCareful'
      BY <2>1, <2>2 DEF IsCareful
    <3> QED BY <2>2, <3>1 DEF Archive!vars, Stored, IsOpen, IsWorking, Shown
  <2>3. CASE IsCareful
    BY <1>2, <2>1, <2>3, CarefulKinds, RefineRead, RefineResolve, RefineEdit,
       RefineWriter, RefineWrite DEF Archive!Next
  <2> QED BY <2>2, <2>3
<1> QED
  BY <1>1, <1>2

-----------------------------------------------------------------------------
(* Theorems. *)

\* CarefulInvariant: each path of a careful client's engine is in one place of
\* one folder and each link in one of one path, from the sound image it is read
\* from to the sound image it is written to.
THEOREM CarefulInvariantHolds == CarefulClients /\ Spec => []CarefulInvariant
<1> SUFFICES ASSUME CarefulClients PROVE Spec => []CarefulInvariant
  OBVIOUS
<1>1. Init => CarefulInvariant
  BY CarefulInit
<1>2. TypeOK /\ TurnOK /\ CarefulInvariant /\ [Next]_vars => CarefulInvariant'
  BY CarefulStep
<1>3. Spec => []TypeOK /\ []TurnOK
  BY TypeCorrect, TurnsAreKept, PTL
<1> QED
  BY <1>1, <1>2, <1>3, PTL DEF Spec

\* NoPanic: a careful client's program finds every index of its image in range,
\* pushes no cell twice, and looks up no cell that the writer has not, whatever
\* it does to metadata, links and folders and however often it saves and reads.
THEOREM CarefulNeverPanics == CarefulClients /\ Spec => []NoPanic
<1> SUFFICES ASSUME CarefulClients PROVE Spec => []NoPanic
  OBVIOUS
<1>1. CarefulInvariant => NoPanic
  BY DEF CarefulInvariant, IsCareful, NoPanic
<1>2. Spec => []CarefulInvariant
  <2>1. CarefulClients
    OBVIOUS
  <2> QED BY <2>1, CarefulInvariantHolds, PTL
<1> QED
  BY <1>1, <1>2, PTL

\* ImplementsDocument: a careful client's stream filesystem is a Document.
\* Resolving, reorganizing, writing and reading keep what is shown - names,
\* flags, each link's data and which links share it - though every index and
\* every GUID is another.
THEOREM CarefulImplementsDocument == CarefulClients /\ Spec => ImplementsDocument
<1> SUFFICES ASSUME CarefulClients PROVE Spec => ImplementsDocument
  OBVIOUS
<1>1. Init => Archive!Init
  BY RefineInit
<1>2. TypeOK /\ TurnOK /\ CarefulInvariant /\ [Next]_vars => [Archive!Next]_(Archive!vars)
  BY RefineStep
<1>3. Spec => []TypeOK /\ []TurnOK
  BY TypeCorrect, TurnsAreKept, PTL
<1>4. Spec => []CarefulInvariant
  <2>1. CarefulClients
    OBVIOUS
  <2> QED BY <2>1, CarefulInvariantHolds, PTL
<1> QED
  BY <1>1, <1>2, <1>3, <1>4, PTL DEF Spec, ImplementsDocument, Archive!Spec
=============================================================================
