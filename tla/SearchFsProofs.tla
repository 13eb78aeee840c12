--------------------------- MODULE SearchFsProofs ---------------------------
(***************************************************************************)
(* Theorems of SearchFs, for every set of names, files and images and every *)
(* bound.                                                                  *)
(*                                                                         *)
(* For every client: type correctness and Invariant, from which OneOwner,   *)
(* ChildrenAreLinked, NoOverlappingGuids and DiskIsForest follow.          *)
(*                                                                         *)
(* For a careful client of images that are trees: CarefulInvariant, from   *)
(* which LookupIsTree, FolderRefsAgree and NoPanic follow, and step by step *)
(* that SearchTree is implemented: what is saved is what was edited, what  *)
(* is read is what was saved.                                              *)
(***************************************************************************)
EXTENDS SearchRefinement, TablesProofs

-----------------------------------------------------------------------------
(* Type correctness. *)

\* A record of the image, once parsed, is a record of the engine.
LEMMA ParsedType ==
  ASSUME NEW F, NEW P
  PROVE  /\ \A e \in FolderEntry : ParseFolder(e) \in SearchFolder(P)
         /\ \A e \in PathEntry : ParsePath(e) \in SearchPath(F, P)
BY DEF FolderEntry, PathEntry, ParseFolder, ParsePath, SearchFolder, SearchPath,
       Start, None, Unresolved, ReferenceTo, ReferenceSetOf, INVALID_INDEX

LEMMA ParentType == \A p \in FullPaths : Parent(p) \in FullPaths
<1>1. SUFFICES ASSUME NEW p \in FullPaths PROVE Parent(p) \in FullPaths
  OBVIOUS
<1> DEFINE C == Names \cup {Slash}
<1>2. p \in Seq(C) /\ Len(p) \in Nat /\ \A i \in 1..Len(p) : p[i] \in C
  BY <1>1, LenProperties, ElementOfSeq DEF FullPaths
<1>3. \A i \in 1..(Len(p) - 1) : p[i] \in C
  BY <1>2
<1> HIDE DEF C
<1>4. SubSeq(p, 1, Len(p) - 1) \in Seq(C)
  BY <1>2, <1>3, SubSeqProperties
<1> QED
  BY <1>4 DEF Parent, FullPaths, C

LEMMA PrefixType ==
  ASSUME NEW p \in FullPaths, NEW n \in 1..Len(p)
  PROVE  SubSeq(p, 1, n) \in FullPaths
<1> DEFINE C == Names \cup {Slash}
<1>2. p \in Seq(C) /\ Len(p) \in Nat /\ \A i \in 1..Len(p) : p[i] \in C
  BY LenProperties, ElementOfSeq DEF FullPaths
<1>3. \A i \in 1..n : p[i] \in C
  BY <1>2
<1> HIDE DEF C
<1>4. SubSeq(p, 1, n) \in Seq(C)
  BY <1>2, <1>3, SubSeqProperties
<1> QED
  BY <1>4 DEF FullPaths, C

LEMMA TypeInit == Init => TypeOK
<1> SUFFICES ASSUME Init PROVE TypeOK
  OBVIOUS
<1> USE DEF Init
<1>1. disk \in Image
  BY ConstantsOK
<1>2. IsMap(EmptyMap, {}, {}) /\ DOMAIN EmptyMap = {} /\ \A K, V : IsMap(EmptyMap, K, V)
  BY DEF EmptyMap, IsMap
<1>3. IsMaker(folderMaker, DOMAIN folder) /\ IsMaker(pathMaker, DOMAIN path)
  BY NewMakerOK
<1>4. \A S : <<>> \in Seq(S)
  BY EmptySeq
<1> QED
  BY <1>1, <1>2, <1>3, <1>4 DEF TypeOK, FullPaths

LEMMA TypeRead == TypeOK /\ Read => TypeOK'
<1> SUFFICES ASSUME TypeOK, Read PROVE TypeOK'
  OBVIOUS
<1> DEFINE nf == Len(disk.folders)
           np == Len(disk.paths)
           F == guid..(guid + nf - 1)
           P == (guid + nf)..(guid + nf + np - 1)
<1>1. /\ disk.folders \in Seq(FolderEntry) /\ disk.paths \in Seq(PathEntry)
      /\ guid \in Nat
  BY DEF TypeOK, Image
<1>2. /\ nf \in Nat /\ np \in Nat
      /\ \A i \in 1..nf : disk.folders[i] \in FolderEntry
      /\ \A i \in 1..np : disk.paths[i] \in PathEntry
  BY <1>1, LenProperties, ElementOfSeq
<1>3. /\ folder' = [g \in F |-> ParseFolder(disk.folders[g - guid + 1])]
      /\ path' = [g \in P |-> ParsePath(disk.paths[g - guid - nf + 1])]
      /\ DOMAIN folder' = F /\ DOMAIN path' = P
      /\ guid' = guid + nf + np
  BY DEF Read
<1>3a. guid \in Nat /\ nf \in Nat /\ np \in Nat
  BY <1>1, <1>2
<1>3b. /\ folders' = [i \in 1..nf |-> guid + i - 1]
       /\ paths' = [i \in 1..np |-> guid + nf + i - 1]
  BY DEF Read
<1> HIDE DEF nf, np
<1>4. \A g \in F : g - guid + 1 \in 1..nf
  BY <1>3a
<1>5. \A g \in P : g - guid - nf + 1 \in 1..np
  BY <1>3a
<1>6. \A g \in F : folder'[g] \in SearchFolder(P)
  BY <1>2, <1>3, <1>4, ParsedType
<1>7. \A g \in P : path'[g] \in SearchPath(F, P)
  BY <1>2, <1>3, <1>5, ParsedType
<1>8. F \subseteq 0..(guid' - 1) /\ P \subseteq 0..(guid' - 1) /\ guid' \in Nat
  <2>1. guid' = guid + nf + np
    BY <1>3
  <2> QED BY <1>3a, <2>1
<1>9. IsMap(folder', 0..(guid' - 1), SearchFolder(DOMAIN path'))
  BY <1>3, <1>6, <1>8 DEF IsMap
<1>10. IsMap(path', 0..(guid' - 1), SearchPath(DOMAIN folder', DOMAIN path'))
  BY <1>3, <1>7, <1>8 DEF IsMap
<1>11. folders' \in Seq(F) /\ paths' \in Seq(P)
  <2>1. /\ \A i \in 1..nf : guid + i - 1 \in F
        /\ \A i \in 1..np : guid + nf + i - 1 \in P
    BY <1>3a
  <2> HIDE DEF F, P
  <2>2. folders' \in [1..nf -> F] /\ paths' \in [1..np -> P]
    BY <1>3b, <2>1
  <2> QED BY <1>3a, <2>2, SeqDef
<1>12. IsMap(folderLookup', FullPaths, F) /\ IsMap(pathLookup', FullPaths, P)
  <2>1. /\ folderLookup' = LookupOf(disk.folders, guid, {})
        /\ pathLookup' = LookupOf(disk.paths, guid + nf, {Blank})
    BY DEF Read, nf
  <2>2. /\ \A e \in FolderEntry : e.fullPath \in FullPaths
        /\ \A e \in PathEntry : e.fullPath \in FullPaths
    BY DEF FolderEntry, PathEntry
  <2>3. guid + nf \in Nat
    BY <1>3a
  <2>4. IsMap(LookupOf(disk.folders, guid, {}), FullPaths, F)
    BY <1>1, <2>2, LookupIsMap DEF nf
  <2>5. IsMap(LookupOf(disk.paths, guid + nf, {Blank}), FullPaths, P)
    BY <1>1, <2>2, <2>3, LookupIsMap DEF np
  <2> QED BY <2>1, <2>4, <2>5
<1>13. /\ IsMaker(folderMaker', DOMAIN folder') /\ IsMaker(pathMaker', DOMAIN path')
       /\ folderMaker' = NewMaker /\ pathMaker' = NewMaker
  BY NewMakerOK DEF TypeOK, Read, makerVars
<1>14. walked' \in Seq(P) /\ walked' = <<>>
  BY EmptySeq DEF TypeOK, Read, walkVars
<1>15. /\ disk' \in Image /\ pc' = "idle"
       /\ file' \in FullPaths /\ depth' \in Nat /\ current' \in Nat
       /\ k' \in Nat /\ j' \in Nat /\ target' \in {"engine", "memory", "directory"}
  BY DEF TypeOK, Read, addVars, walkVars, makerVars
<1> HIDE DEF F, P
<1> QED
  BY <1>3, <1>8, <1>9, <1>10, <1>11, <1>12, <1>13, <1>14, <1>15 DEF TypeOK

\* A panic keeps everything but the program counter.
LEMMA TypePanic == TypeOK /\ Panic => TypeOK'
BY DEF TypeOK, Panic, heapVars, tableVars, lookupVars, addVars, walkVars,
       makerVars, DiskIsForest

LEMMA TypeGarbled == TypeOK /\ ReadGarbled => TypeOK'
BY DEF TypeOK, ReadGarbled, heapVars, tableVars, lookupVars, addVars, walkVars,
       makerVars

\* A cell of the tables is a cell of the heap.
LEMMA TableCells ==
  ASSUME TypeOK
  PROVE  /\ Cells(folders) \subseteq DOMAIN folder
         /\ Cells(paths) \subseteq DOMAIN path
         /\ Len(folders) \in Nat /\ Len(paths) \in Nat /\ Len(walked) \in Nat
         /\ \A i \in 1..Len(folders) : folders[i] \in DOMAIN folder
         /\ \A i \in 1..Len(paths) : paths[i] \in DOMAIN path
         /\ \A i \in 1..Len(walked) : walked[i] \in DOMAIN path
         /\ \A f \in DOMAIN folder : folder[f] \in SearchFolder(DOMAIN path)
         /\ \A c \in DOMAIN path : path[c] \in SearchPath(DOMAIN folder, DOMAIN path)
         /\ guid \notin DOMAIN path /\ guid + 1 \notin DOMAIN path
         /\ guid \notin DOMAIN folder /\ guid \in Nat
<1>1. folders \in Seq(DOMAIN folder) /\ paths \in Seq(DOMAIN path)
      /\ walked \in Seq(DOMAIN path)
  BY DEF TypeOK
<1>2. /\ Len(folders) \in Nat /\ Len(paths) \in Nat /\ Len(walked) \in Nat
      /\ \A i \in 1..Len(folders) : folders[i] \in DOMAIN folder
      /\ \A i \in 1..Len(paths) : paths[i] \in DOMAIN path
      /\ \A i \in 1..Len(walked) : walked[i] \in DOMAIN path
  BY <1>1, LenProperties, ElementOfSeq
<1>3. /\ DOMAIN folder \subseteq 0..(guid - 1) /\ DOMAIN path \subseteq 0..(guid - 1)
      /\ guid \in Nat
      /\ folder \in [DOMAIN folder -> SearchFolder(DOMAIN path)]
      /\ path \in [DOMAIN path -> SearchPath(DOMAIN folder, DOMAIN path)]
  BY DEF TypeOK, IsMap
<1> QED
  BY <1>2, <1>3 DEF Cells

LEMMA TypeResolve ==
  TypeOK /\ (ResolvePaths \/ WalkSkip \/ WalkStart \/ WalkHop \/ WalkStop
             \/ ResolveReturns) => TypeOK'
<1> SUFFICES ASSUME TypeOK,
                    ResolvePaths \/ WalkSkip \/ WalkStart \/ WalkHop \/ WalkStop
                      \/ ResolveReturns
             PROVE  TypeOK'
  OBVIOUS
<1> USE TableCells
<1>1. CASE ResolvePaths
  <2> DEFINE F == DOMAIN folder
             P == DOMAIN path
  <2>1. ASSUME NEW c \in Cells(paths) PROVE ResolvePath(path[c]) \in SearchPath(F, P)
    <3>1. Resolvable(path[c]) /\ path[c] \in SearchPath(F, P)
      BY <1>1, <2>1 DEF ResolvePaths
    <3>2. IsUnresolved(path[c].folder) =>
            folderLookup[path[c].fullPath] \in F
      BY <3>1 DEF Resolvable, TypeOK, IsMap
    <3>3. IsUnresolved(path[c].next) =>
            path[c].next.index \in Nat /\ path[c].next.index + 1 \in 1..Len(paths)
      BY <3>1 DEF Resolvable, SearchPath, ReferenceTo, IsUnresolved, InBounds, None
    <3>4. Resolve(path[c].next, paths) \in ReferenceTo(P)
      BY <3>1, <3>3 DEF Resolve, Resolved, CellAt, ReferenceTo, SearchPath
    <3>5. (IF IsUnresolved(path[c].folder) THEN Resolved(folderLookup[path[c].fullPath])
                                           ELSE path[c].folder) \in ReferenceTo(F)
      BY <3>1, <3>2 DEF Resolved, ReferenceTo, SearchPath
    <3> QED BY <3>1, <3>4, <3>5 DEF ResolvePath, SearchPath
  <2>2. path' \in [P -> SearchPath(F, P)]
    BY <1>1, <2>1 DEF ResolvePaths
  <2>3. DOMAIN path' = P /\ UNCHANGED <<folder, guid>>
    BY <1>1, <2>2 DEF ResolvePaths
  <2>4. IsMap(path', 0..(guid' - 1), SearchPath(DOMAIN folder', DOMAIN path'))
    BY <2>2, <2>3 DEF TypeOK, IsMap
  <2>5. IsMap(folder', 0..(guid' - 1), SearchFolder(DOMAIN path'))
    BY <2>3 DEF TypeOK
  <2> QED
    BY <1>1, <2>3, <2>4, <2>5
    DEF TypeOK, ResolvePaths, tableVars, lookupVars, addVars, makerVars
<1>2. CASE WalkSkip
  BY <1>2 DEF TypeOK, WalkSkip, Walking, heapVars, tableVars, lookupVars, addVars, makerVars
<1>3. CASE WalkStart
  <2>1. CASE Panic
    BY <2>1, TypePanic
  <2>2. CASE ~Panic
    <3>1. folders[k] \in DOMAIN folder
      BY <1>3 DEF WalkStart, Walking, TypeOK
    <3>2. folder[folders[k]].children.index \in Nat
      BY <1>3, <3>1 DEF WalkStart, SearchFolder, ReferenceSetOf, IsSet
    <3>3. CellAt(paths, folder[folders[k]].children.index) \in DOMAIN path
      BY <1>3, <2>2, <3>2 DEF WalkStart, InBounds, CellAt
    <3>4. walked' \in Seq(DOMAIN path)
      BY ZenonT(30), <1>3, <2>2, <3>3, OneElement DEF WalkStart
    <3> QED
      BY <1>3, <2>2, <3>4
      DEF TypeOK, WalkStart, Walking, heapVars, tableVars, lookupVars, addVars, makerVars
  <2> QED BY <2>1, <2>2
<1>4. CASE WalkHop
  <2>1. CASE Panic
    BY <2>1, TypePanic
  <2>2. CASE ~Panic
    <3>1. LastOf(walked) \in DOMAIN path
      BY <1>4, CellsOfSeq DEF WalkHop, LastOf, TypeOK
    <3>2. path[LastOf(walked)].next.cell \in DOMAIN path
      BY <1>4, <2>2, <3>1 DEF WalkHop, SearchPath, ReferenceTo, IsCell, None
    <3>3. walked' \in Seq(DOMAIN path)
      <4>1. walked \in Seq(DOMAIN path)
        BY DEF TypeOK
      <4>2. walked' = Append(walked, path[LastOf(walked)].next.cell)
        BY <1>4, <2>2 DEF WalkHop
      <4> QED BY <3>2, <4>1, <4>2, AppendElement
    <3> QED
      BY <1>4, <2>2, <3>3
      DEF TypeOK, WalkHop, Walking, heapVars, tableVars, lookupVars, addVars, makerVars
  <2> QED BY <2>1, <2>2
<1>5. CASE WalkStop
  <2>1. folders[k] \in DOMAIN folder
    BY <1>5 DEF WalkStop, Walking, TypeOK
  <2>2. Set(walked) \in ReferenceSetOf(DOMAIN path)
    BY DEF TypeOK, Set, ReferenceSetOf
  <2>3. folder' \in [DOMAIN folder -> SearchFolder(DOMAIN path)]
    BY <1>5, <2>1, <2>2 DEF WalkStop, SearchFolder, TypeOK, IsMap
  <2>4. IsMap(folder', 0..(guid' - 1), SearchFolder(DOMAIN path')) /\ DOMAIN folder' = DOMAIN folder
    BY <1>5, <2>3 DEF WalkStop, TypeOK, IsMap
  <2> QED
    BY <1>5, <2>4, EmptySeq
    DEF TypeOK, WalkStop, Walking, tableVars, lookupVars, addVars, makerVars
<1>6. CASE ResolveReturns
  BY <1>6 DEF TypeOK, ResolveReturns, heapVars, tableVars, lookupVars, addVars, makerVars
<1> QED
  BY <1>1, <1>2, <1>3, <1>4, <1>5, <1>6

\* push_child puts a new cell behind the others: the heap stays well typed.
LEMMA PushChildType ==
  ASSUME NEW F, NEW P, NEW heap, NEW child \in P, NEW Q, Q \subseteq P,
         NEW f \in F, folder[f].children \in ReferenceSetOf(Q),
         IsSet(folder[f].children),
         heap \in [F -> SearchFolder(P)]
  PROVE  PushChild(heap, f, child) \in [F -> SearchFolder(P)]
<1> DEFINE cells == folder[f].children.cells
<1>1. cells \in Seq(Q)
  BY DEF ReferenceSetOf, IsSet
<1>2. cells \in Seq(P)
  BY <1>1, SeqMonotonic
<1>3. Append(cells, child) \in Seq(P)
  BY <1>2, AppendElement
<1>4. Set(Append(cells, child)) \in ReferenceSetOf(P)
  BY <1>3 DEF Set, ReferenceSetOf
<1> QED
  BY <1>4 DEF PushChild, SearchFolder

LEMMA LinkLastType ==
  ASSUME NEW F, NEW P, NEW heap, NEW child \in P, NEW Q, Q \subseteq P,
         NEW f, folder[f].children \in ReferenceSetOf(Q),
         IsSet(folder[f].children),
         heap \in [P -> SearchPath(F, P)]
  PROVE  LinkLast(heap, f, child) \in [P -> SearchPath(F, P)]
<1> DEFINE cells == folder[f].children.cells
<1>1. cells \in Seq(Q)
  BY DEF ReferenceSetOf, IsSet
<1>2. CASE cells = <<>>
  BY <1>2 DEF LinkLast
<1>3. CASE cells # <<>>
  <2>1. LastOf(cells) \in P
    BY <1>1, <1>3, CellsOfSeq DEF LastOf
  <2>2. Resolved(child) \in ReferenceTo(P)
    BY DEF Resolved, ReferenceTo
  <2>3. LinkLast(heap, f, child) = [heap EXCEPT ![LastOf(cells)].next = Resolved(child)]
    BY <1>3 DEF LinkLast
  <2> QED BY <2>1, <2>2, <2>3 DEF SearchPath
<1> QED
  BY <1>2, <1>3

\* More cells do not make a reference dangle.
LEMMA MoreCells ==
  ASSUME NEW F, NEW P, NEW F2, NEW P2, F \subseteq F2, P \subseteq P2
  PROVE  /\ SearchFolder(P) \subseteq SearchFolder(P2)
         /\ SearchPath(F, P) \subseteq SearchPath(F2, P2)
<1>1. Seq(P) \subseteq Seq(P2)
  BY SeqMonotonic
<1>2. ReferenceSetOf(P) \subseteq ReferenceSetOf(P2)
  BY <1>1 DEF ReferenceSetOf
<1>3. ReferenceTo(F) \subseteq ReferenceTo(F2) /\ ReferenceTo(P) \subseteq ReferenceTo(P2)
  BY DEF ReferenceTo, None
<1> QED
  BY <1>2, <1>3 DEF SearchFolder, SearchPath

LEMMA TypeAddFile ==
  ASSUME TypeOK, NEW f \in Files, AddFile(f)
  PROVE  TypeOK'
<1>1. f \in FullPaths /\ f # Blank
  BY ConstantsOK
<1>2. Len(f) \in Nat /\ Len(f) # 0
  BY <1>1, LenProperties, EmptySeq, Zenon DEF FullPaths, Blank
<1>3. CASE Panic
  BY <1>3, TypePanic
<1>4. CASE ~Panic
  <2>1. folderLookup[Root] \in DOMAIN folder
    BY <1>4 DEF AddFile, TypeOK, IsMap
  <2>2. current' \in DOMAIN folder /\ current' \in Nat
    BY <1>4, <2>1 DEF AddFile, TypeOK, IsMap
  <2> QED
    BY <1>1, <1>2, <1>4, <2>2
    DEF AddFile, TypeOK, heapVars, tableVars, lookupVars, walkVars, makerVars
<1> QED
  BY <1>3, <1>4

LEMMA TypeDescend == TypeOK /\ Descend => TypeOK'
<1> SUFFICES ASSUME TypeOK, Descend PROVE TypeOK'
  OBVIOUS
<1> USE TableCells
<1>1. PICK child \in ChildrenNamed(current, file[depth]) :
        IF IsCell(path[child].folder)
          THEN /\ current' = path[child].folder.cell
               /\ depth' = depth + 1
               /\ UNCHANGED <<heapVars, tableVars, lookupVars, disk, pc, file,
                              walkVars, makerVars>>
          ELSE Panic
  BY DEF Descend
<1>2. CASE Panic
  BY <1>2, TypePanic
<1>3. CASE ~Panic
  <2>1. current \in DOMAIN folder /\ depth < Len(file) /\ pc = "add"
    BY DEF Descend, Descending, TypeOK
  <2>2. folder[current].children.cells \in Seq(DOMAIN path)
    BY <2>1 DEF Descend, IsSet, SearchFolder, ReferenceSetOf
  <2>3. child \in DOMAIN path
    BY <2>2, ElementOfSeq DEF ChildrenNamed
  <2>4. path[child].folder.cell \in DOMAIN folder
    BY <1>1, <1>3, <2>3 DEF IsCell, SearchPath, ReferenceTo, None
  <2>5. current' \in DOMAIN folder /\ current' \in Nat
    BY SMTT(20), <1>1, <1>3, <2>4 DEF TypeOK, IsMap
  <2>6. depth' \in 1..Len(file) /\ Len(file) \in Nat
    BY <1>1, <1>3, <2>1, LenProperties DEF TypeOK, FullPaths
  <2> QED
    BY <1>1, <1>3, <2>1, <2>5, <2>6
    DEF TypeOK, heapVars, tableVars, lookupVars, walkVars, makerVars
<1> QED
  BY <1>2, <1>3

LEMMA TypeMakeFolder == TypeOK /\ MakeFolder => TypeOK'
<1> SUFFICES ASSUME TypeOK, MakeFolder PROVE TypeOK'
  OBVIOUS
<1> USE TableCells
<1>1. CASE Panic
  BY <1>1, TypePanic
<1>2. CASE ~Panic
  <2> DEFINE prefix == SubSeq(file, 1, depth)
             F == DOMAIN folder
             P == DOMAIN path
             F2 == F \cup {guid}
             P2 == P \cup {guid + 1}
             heap1 == Insert(folder, guid, NewFolder(prefix))
             heap2 == Insert(path, guid + 1, NewPath(prefix, Resolved(guid)))
  <2>1. /\ current \in F /\ depth \in 1..Len(file) /\ depth < Len(file) /\ pc = "add"
        /\ IsSet(folder[current].children)
        /\ folder[current].children \in ReferenceSetOf(P)
        /\ Len(file) \in Nat
    BY LenProperties DEF MakeFolder, Descending, TypeOK, SearchFolder, FullPaths
  <2>2. prefix \in FullPaths /\ Parent(prefix) \in FullPaths
    BY <2>1, PrefixType, ParentType DEF TypeOK
  <2>3. /\ folder' = PushChild(heap1, current, guid + 1)
        /\ path' = LinkLast(heap2, current, guid + 1)
        /\ guid' = guid + 2
        /\ pathLookup' = Insert(pathLookup, prefix, guid + 1)
        /\ folderLookup' = Insert(folderLookup, prefix, guid)
        /\ current' = guid
        /\ depth' = depth + 1
        /\ UNCHANGED <<tableVars, disk, pc, file, walkVars, makerVars>>
    BY <1>2 DEF MakeFolder
  <2>4. heap1 \in [F2 -> SearchFolder(P2)]
    <3>1. NewFolder(prefix) \in SearchFolder(P2)
      BY <2>2, EmptySeq DEF NewFolder, SearchFolder, Set, ReferenceSetOf
    <3>2. \A f \in F : folder[f] \in SearchFolder(P2)
      BY ZenonT(30), MoreCells
    <3> QED BY <3>1, <3>2 DEF Insert
  <2>5. heap2 \in [P2 -> SearchPath(F2, P2)]
    <3>1. NewPath(prefix, Resolved(guid)) \in SearchPath(F2, P2)
      BY <2>2 DEF NewPath, SearchPath, Resolved, ReferenceTo
    <3>2. \A c \in P : path[c] \in SearchPath(F2, P2)
      BY MoreCells
    <3> QED BY <3>1, <3>2 DEF Insert
  <2>6. folder' \in [F2 -> SearchFolder(P2)]
    BY <2>1, <2>3, <2>4, PushChildType
  <2>7. path' \in [P2 -> SearchPath(F2, P2)]
    BY <2>1, <2>3, <2>5, LinkLastType
  <2>8. F2 \subseteq 0..(guid' - 1) /\ P2 \subseteq 0..(guid' - 1) /\ guid' \in Nat
    <3>1. guid \in Nat /\ F \subseteq 0..(guid - 1) /\ P \subseteq 0..(guid - 1)
      BY DEF TypeOK, IsMap
    <3>2. guid' = guid + 2
      BY <2>3
    <3> QED BY <3>1, <3>2
  <2>9. DOMAIN folder' = F2 /\ DOMAIN path' = P2
    BY <2>6, <2>7
  <2>10. /\ IsMap(folder', 0..(guid' - 1), SearchFolder(DOMAIN path'))
         /\ IsMap(path', 0..(guid' - 1), SearchPath(DOMAIN folder', DOMAIN path'))
    BY <2>6, <2>7, <2>8, <2>9 DEF IsMap
  <2>11. IsMap(folderLookup', FullPaths, F2) /\ IsMap(pathLookup', FullPaths, P2)
    BY <2>2, <2>3 DEF TypeOK, IsMap, Insert
  <2>12. folders' \in Seq(F2) /\ paths' \in Seq(P2) /\ walked' \in Seq(P2) /\ walked' = <<>>
    <3>1. folders \in Seq(F2) /\ paths \in Seq(P2) /\ walked \in Seq(P2)
      BY SeqMonotonic DEF TypeOK
    <3> QED BY <2>1, <2>3, <3>1 DEF TypeOK, tableVars, walkVars
  <2>13. /\ IsMaker(folderMaker', F2) /\ IsMaker(pathMaker', P2)
         /\ folderMaker' = NewMaker /\ pathMaker' = NewMaker
    BY <2>1, <2>3, NewMakerOK DEF TypeOK, makerVars
  <2>14. current' \in F2 /\ depth' \in 1..Len(file)
    BY <2>1, <2>3
  <2> HIDE DEF F2, P2, prefix, heap1, heap2
  <2> QED
    BY <2>1, <2>3, <2>8, <2>9, <2>10, <2>11, <2>12, <2>13, <2>14
    DEF TypeOK, walkVars, makerVars
<1> QED
  BY <1>1, <1>2

LEMMA TypeMakeFile == TypeOK /\ MakeFile => TypeOK'
<1> SUFFICES ASSUME TypeOK, MakeFile PROVE TypeOK'
  OBVIOUS
<1> USE TableCells
<1> DEFINE F == DOMAIN folder
           P == DOMAIN path
           P2 == P \cup {guid}
           heap == Insert(path, guid, NewPath(file, None))
<1>1. /\ current \in F /\ pc = "add" /\ file \in FullPaths
      /\ IsSet(folder[current].children)
      /\ folder[current].children \in ReferenceSetOf(P)
  BY DEF MakeFile, Landing, TypeOK, SearchFolder
<1>2. heap \in [P2 -> SearchPath(F, P2)]
  <2>1. NewPath(file, None) \in SearchPath(F, P2)
    BY <1>1, ParentType DEF NewPath, SearchPath, None, ReferenceTo
  <2>2. \A c \in P : path[c] \in SearchPath(F, P2)
    BY MoreCells
  <2> QED BY <2>1, <2>2 DEF Insert
<1>3. folder \in [F -> SearchFolder(P2)]
  BY MoreCells DEF TypeOK, IsMap
<1>4. path' \in [P2 -> SearchPath(F, P2)]
  BY <1>1, <1>2, LinkLastType DEF MakeFile
<1>5. folder' \in [F -> SearchFolder(P2)]
  BY <1>1, <1>3, PushChildType DEF MakeFile
<1>6. F \subseteq 0..(guid' - 1) /\ P2 \subseteq 0..(guid' - 1) /\ guid' \in Nat
  BY SMTT(20) DEF MakeFile, TypeOK, IsMap
<1>7. DOMAIN folder' = F /\ DOMAIN path' = P2
  BY <1>4, <1>5
<1>8. /\ IsMap(folder', 0..(guid' - 1), SearchFolder(DOMAIN path'))
      /\ IsMap(path', 0..(guid' - 1), SearchPath(DOMAIN folder', DOMAIN path'))
  BY <1>4, <1>5, <1>6, <1>7 DEF IsMap
<1>9. IsMap(folderLookup', FullPaths, F) /\ IsMap(pathLookup', FullPaths, P2)
  BY <1>1 DEF MakeFile, TypeOK, IsMap, Insert
<1>10. folders' \in Seq(F) /\ paths' \in Seq(P2) /\ walked' \in Seq(P2) /\ walked' = <<>>
  <2>1. paths \in Seq(P2) /\ walked \in Seq(P2)
    BY SeqMonotonic DEF TypeOK
  <2> QED BY <1>1, <2>1 DEF MakeFile, TypeOK, tableVars, walkVars
<1>11. /\ IsMaker(folderMaker', F) /\ IsMaker(pathMaker', P2)
       /\ folderMaker' = NewMaker /\ pathMaker' = NewMaker
  BY <1>1, NewMakerOK DEF MakeFile, TypeOK, makerVars
<1>12. /\ disk' \in Image /\ pc' = "idle"
       /\ file' \in FullPaths /\ depth' \in Nat /\ current' \in Nat
       /\ k' \in Nat /\ j' \in Nat /\ target' \in {"engine", "memory", "directory"}
  BY EmptySeq DEF TypeOK, MakeFile, addVars, walkVars, makerVars, FullPaths
<1> HIDE DEF P2, heap
<1> QED
  BY <1>6, <1>7, <1>8, <1>9, <1>10, <1>11, <1>12 DEF TypeOK

LEMMA TypeListFolder ==
  ASSUME TypeOK, NEW p \in DOMAIN folderLookup, ListFolder(folderLookup[p])
  PROVE  TypeOK'
<1>1. folderLookup[p] \in DOMAIN folder
  BY DEF TypeOK, IsMap
<1>2. folders' \in Seq(DOMAIN folder)
  <2>1. folders \in Seq(DOMAIN folder) /\ folders' = Append(folders, folderLookup[p])
    BY DEF ListFolder, TypeOK
  <2> QED BY <1>1, <2>1, AppendElement
<1> QED
  BY <1>2 DEF ListFolder, TypeOK, heapVars, lookupVars, addVars, walkVars, makerVars

\* The writer's tables take up cells of the heap and nothing else.
LEMMA TypePush ==
  TypeOK /\ (PushFolder \/ PushPath \/ PushNext) => TypeOK'
<1> SUFFICES ASSUME TypeOK, PushFolder \/ PushPath \/ PushNext PROVE TypeOK'
  OBVIOUS
<1> USE TableCells
<1>1. CASE Panic
  BY <1>1, TypePanic
<1>2. CASE ~Panic /\ PushFolder
  <2>1. folders[k] \in DOMAIN folder
    BY <1>2 DEF PushFolder, Pushing, TypeOK
  <2>2. IsMaker(folderMaker', DOMAIN folder)
    BY <1>2, <2>1, PushIsMaker DEF PushFolder, TypeOK
  <2> QED
    BY SMTT(20), <1>2, <2>2
    DEF TypeOK, PushFolder, Pushing, heapVars, tableVars, lookupVars, addVars, walkVars
<1>3. CASE ~Panic /\ PushPath
  <2> DEFINE cells == folder[folders[k]].children.cells
  <2>1. folders[k] \in DOMAIN folder
    BY <1>3 DEF PushPath, Pushing, TypeOK
  <2>2. cells[j] \in DOMAIN path
    <3>1. IsSet(folder[folders[k]].children)
      BY <1>3 DEF PushPath, Pushing, TypeOK
    <3>2. cells \in Seq(DOMAIN path)
      BY <2>1, <3>1 DEF IsSet, SearchFolder, ReferenceSetOf
    <3> QED BY <1>3, <3>2, ElementOfSeq, LenProperties DEF PushPath, TypeOK
  <2>3. IsMaker(pathMaker', DOMAIN path)
    BY <1>3, <2>2, PushIsMaker DEF PushPath, TypeOK
  <2>4. /\ j' = j + 1 /\ pc = "push" /\ k <= Len(folders)
        /\ UNCHANGED <<heapVars, tableVars, lookupVars, disk, pc, addVars,
                       walkVars, folderMaker, target>>
    BY <1>3 DEF PushPath, Pushing
  <2>5. j' \in Nat /\ (pc' = "push" /\ j' >= 1 =>
                         k' <= Len(folders') /\ IsSet(folder'[folders'[k']].children))
    <3>1. j \in Nat /\ IsSet(folder[folders[k]].children)
      BY <1>3 DEF TypeOK, PushPath, Pushing
    <3> QED BY <2>4, <3>1 DEF heapVars, tableVars, walkVars
  <2> HIDE DEF cells
  <2> QED
    BY <2>3, <2>4, <2>5
    DEF TypeOK, heapVars, tableVars, lookupVars, addVars, walkVars
<1>4. CASE PushNext
  BY <1>4 DEF TypeOK, PushNext, Pushing, heapVars, tableVars, lookupVars, addVars
<1> QED
  BY <1>1, <1>2, <1>3, <1>4

\* What the writer writes is an image: every index it asks for is a number.
LEMMA WrittenIsImage ==
  ASSUME TypeOK, Serialisable, target # "engine"
  PROVE  WrittenImage \in Image
<1> USE TableCells
<1> DEFINE ft == folderMaker.table
           pt == pathMaker.table
<1>1. /\ ft \in Seq(DOMAIN folder) /\ pt \in Seq(DOMAIN path)
      /\ IsMap(pathMaker.index, DOMAIN path, Nat)
  BY DEF TypeOK, IsMaker
<1>2. /\ Len(ft) \in Nat /\ Len(pt) \in Nat
      /\ \A i \in 1..Len(ft) : ft[i] \in DOMAIN folder /\ ft[i] \in Cells(ft)
      /\ \A i \in 1..Len(pt) : pt[i] \in DOMAIN path /\ pt[i] \in Cells(pt)
  BY <1>1, LenProperties, ElementOfSeq DEF Cells
<1>3. \A c : HasCell(pathMaker, c) => GetIndex(pathMaker, c) \in Nat
  BY <1>1 DEF IsMap, HasCell, GetIndex
<1>4. \A n \in Nat : HashKeyIndex(n) \in Nat
  BY DEF HashKeyIndex
<1>5. ASSUME NEW f \in Cells(ft) PROVE WriteFolder(folder[f]) \in FolderEntry
  <2>1. f \in DOMAIN folder
    BY <1>2, <1>5 DEF Cells
  <2>2. /\ folder[f].fullPath \in FullPaths /\ folder[f].parent \in FullPaths
        /\ folder[f].fileCount \in Nat /\ folder[f].folderCount \in Nat
    BY <2>1 DEF SearchFolder
  <2>3. folder[f].children.cells = <<>> \/ HasCell(pathMaker, folder[f].children.cells[1])
    BY <1>5 DEF Serialisable
  <2>4. (IF folder[f].children.cells = <<>> THEN INVALID_INDEX
         ELSE GetIndex(pathMaker, folder[f].children.cells[1])) \in Nat
    BY <1>3, <2>3 DEF INVALID_INDEX
  <2> QED BY <1>4, <2>2, <2>4 DEF WriteFolder, FolderEntry
<1>6. ASSUME NEW c \in Cells(pt) PROVE WritePath(path[c]) \in PathEntry
  <2>1. c \in DOMAIN path
    BY <1>2, <1>6 DEF Cells
  <2>2. path[c].fullPath \in FullPaths
    BY <2>1 DEF SearchPath
  <2>3. IsNone(path[c].next) \/ HasCell(pathMaker, path[c].next.cell)
    BY <1>6 DEF Serialisable
  <2>4. (IF IsNone(path[c].next) THEN INVALID_INDEX
         ELSE HashKeyIndex(GetIndex(pathMaker, path[c].next.cell))) \in Nat
    BY <1>3, <1>4, <2>3 DEF INVALID_INDEX
  <2> QED BY <2>2, <2>4 DEF WritePath, PathEntry
<1>7. [i \in 1..Len(ft) |-> WriteFolder(folder[ft[i]])] \in Seq(FolderEntry)
  <2>1. \A i \in 1..Len(ft) : WriteFolder(folder[ft[i]]) \in FolderEntry
    BY <1>2, <1>5
  <2> HIDE DEF ft
  <2>2. [i \in 1..Len(ft) |-> WriteFolder(folder[ft[i]])] \in [1..Len(ft) -> FolderEntry]
    BY <2>1
  <2> QED BY ZenonT(60), <1>2, <2>2, SeqDef
<1>8. [i \in 1..Len(pt) |-> WritePath(path[pt[i]])] \in Seq(PathEntry)
  <2>1. \A i \in 1..Len(pt) : WritePath(path[pt[i]]) \in PathEntry
    BY <1>2, <1>6
  <2> HIDE DEF pt
  <2>2. [i \in 1..Len(pt) |-> WritePath(path[pt[i]])] \in [1..Len(pt) -> PathEntry]
    BY <2>1
  <2> QED BY <1>2, <2>2, SeqDef
<1>9. DOMAIN folderLookup \in SUBSET FullPaths /\ DOMAIN pathLookup \in SUBSET FullPaths
  BY DEF TypeOK, IsMap
<1>10. target \in {"memory", "directory"}
  BY DEF TypeOK
<1> QED
  BY <1>2, <1>7, <1>8, <1>9, <1>10 DEF WrittenImage, Image

\* The end of a writer: new tables, or a new image and no engine.
LEMMA TypeWrite == TypeOK /\ (Reorganize \/ Write) => TypeOK'
<1> SUFFICES ASSUME TypeOK, Reorganize \/ Write PROVE TypeOK'
  OBVIOUS
<1>1. CASE Reorganize
  <2>1. folders' \in Seq(DOMAIN folder) /\ paths' \in Seq(DOMAIN path)
    BY <1>1 DEF Reorganize, TypeOK, IsMaker
  <2>2. IsMaker(folderMaker', DOMAIN folder) /\ IsMaker(pathMaker', DOMAIN path)
    BY <1>1, NewMakerOK DEF Reorganize
  <2> QED
    BY <1>1, <2>1, <2>2
    DEF TypeOK, Reorganize, Pushed, heapVars, lookupVars, addVars
<1>2. CASE Write
  <2>1. disk' \in Image
    BY <1>2, WrittenIsImage DEF Write
  <2>2. /\ IsMaker(folderMaker', DOMAIN folder') /\ IsMaker(pathMaker', DOMAIN path')
        /\ folderMaker' = NewMaker /\ pathMaker' = NewMaker
    BY <1>2, NewMakerOK DEF Write
  <2>3. DOMAIN EmptyMap = {} /\ \A K, V : IsMap(EmptyMap, K, V)
    BY DEF EmptyMap, IsMap
  <2>4. walked = <<>>
    BY <1>2 DEF TypeOK, Write, Pushed
  <2>5. \A S : <<>> \in Seq(S)
    BY EmptySeq
  <2> QED
    BY <1>2, <2>1, <2>2, <2>3, <2>4, <2>5 DEF TypeOK, Write, addVars
<1> QED
  BY <1>1, <1>2

\* Every step keeps the types, whatever is called and in whatever state.
LEMMA TypeStep == TypeOK /\ [Next]_vars => TypeOK'
<1> SUFFICES ASSUME TypeOK, [Next]_vars PROVE TypeOK'
  OBVIOUS
<1>1. CASE Next
  <2>1. CASE ResolveStep
    BY <2>1, TypeResolve DEF ResolveStep
  <2>2. CASE AddStep
    BY <2>2, TypeDescend, TypeMakeFolder, TypeMakeFile, TypePanic
    DEF AddStep, AddFilePanics
  <2>3. CASE WriterStep
    BY <2>3, TypePush, TypeWrite, TypePanic DEF WriterStep, WritePanics
  <2>4. CASE Read \/ ReadGarbled
    BY <2>4, TypeRead, TypeGarbled
  <2>5. CASE ResolvePaths \/ ResolvePathsPanics
    BY <2>5, TypeResolve, TypePanic DEF ResolvePathsPanics
  <2>6. CASE \E f \in Files : AddFile(f)
    BY <2>6, TypeAddFile
  <2>7. CASE \E p \in DOMAIN folderLookup : ListFolder(folderLookup[p])
    BY <2>7, TypeListFolder
  <2>8. ASSUME NEW t \in {"engine", "memory", "directory"}, FromEngine(t)
        PROVE  TypeOK'
    BY <2>8, NewMakerOK
    DEF TypeOK, FromEngine, heapVars, tableVars, lookupVars, addVars
  <2> QED
    BY <1>1, <2>1, <2>2, <2>3, <2>4, <2>5, <2>6, <2>7, <2>8
    DEF Next, CallStep, ClientStep
<1>2. CASE UNCHANGED vars
  BY <1>2 DEF vars, heapVars, tableVars, lookupVars, addVars, walkVars,
              makerVars, TypeOK
<1> QED
  BY <1>1, <1>2

\* Type correctness: no reference of a cell dangles, whatever the client calls
\* in whatever order, no cell of the tables or the lookups is not on the heap,
\* and what is written is an image again.
THEOREM TypeCorrect == Spec => []TypeOK
<1>1. Init => TypeOK
  BY TypeInit
<1>2. TypeOK /\ [Next]_vars => TypeOK'
  BY TypeStep
<1> QED
  BY <1>1, <1>2, PTL DEF Spec

-----------------------------------------------------------------------------
(* What the two kinds of heap say, in terms of the cells' own fields. *)

\* The number of children known is a number, and each of them is a path.
LEMMA CollectedType ==
  ASSUME TypeOK, NEW f \in DOMAIN folder
  PROVE  /\ Collected(f) \in Seq(DOMAIN path)
         /\ Len(Collected(f)) \in Nat
         /\ \A i \in 1..Len(Collected(f)) : Collected(f)[i] \in DOMAIN path
         /\ Collected(f) # <<>> => Len(Collected(f)) >= 1
<1>1. folder[f] \in SearchFolder(DOMAIN path)
  BY TableCells
<1>2. IsSet(folder[f].children) => folder[f].children.cells \in Seq(DOMAIN path)
  BY <1>1 DEF IsSet, SearchFolder, ReferenceSetOf
<1>3. Collected(f) \in Seq(DOMAIN path)
  BY <1>2, EmptySeq DEF Collected, TypeOK
<1> HIDE DEF Collected
<1>4. Collected(f) # <<>> => Len(Collected(f)) >= 1
  BY <1>3, CellsOfSeq
<1> QED
  BY <1>3, <1>4, LenProperties, ElementOfSeq

\* The three kinds of reference exclude each other.
LEMMA Kinds ==
  /\ ~IsUnresolved(None) /\ ~IsCell(None) /\ IsNone(None)
  /\ \A d : ~IsUnresolved(Resolved(d)) /\ IsCell(Resolved(d)) /\ ~IsNone(Resolved(d))
  /\ \A d : None # Resolved(d)
  /\ \A c, d : Resolved(c) = Resolved(d) => c = d
<1>1. \A d : Resolved(d).is = "cell" /\ Resolved(d).cell = d
  BY DEF Resolved
<1>2. None.is = "none"
  BY DEF None
<1> QED
  BY <1>1, <1>2 DEF IsUnresolved, IsCell, IsNone

\* A reference that is not an index is none or a cell of the heap.
LEMMA NextType ==
  ASSUME TypeOK, NEW c \in DOMAIN path
  PROVE  /\ IsNone(path[c].next) <=> path[c].next = None
         /\ IsCell(path[c].next) => /\ path[c].next.cell \in DOMAIN path
                                    /\ path[c].next = Resolved(path[c].next.cell)
         /\ IsUnresolved(path[c].next) => /\ path[c].next.index \in Nat
                                          /\ path[c].next = Unresolved(path[c].next.index)
         /\ IsNone(path[c].next) \/ IsCell(path[c].next) \/ IsUnresolved(path[c].next)
         /\ \A d : path[c].next = Resolved(d) => d \in DOMAIN path
         /\ ~(IsNone(path[c].next) /\ IsCell(path[c].next))
         /\ ~(IsNone(path[c].next) /\ IsUnresolved(path[c].next))
         /\ ~(IsCell(path[c].next) /\ IsUnresolved(path[c].next))
<1>1. path[c].next \in ReferenceTo(DOMAIN path)
  BY TableCells DEF SearchPath
<1> QED
  BY <1>1 DEF ReferenceTo, None, IsNone, IsCell, IsUnresolved, Resolved, Unresolved

\* Once no call of resolve is under way, every folder has its vector.
LEMMA AllSet ==
  ASSUME Linked, pc # "walk", NEW f \in DOMAIN folder
  PROVE  IsSet(folder[f].children) /\ Collected(f) = folder[f].children.cells
BY DEF Linked, WalkOK, Collected

\* The two properties of the heap hold of an engine in either state.
LEMMA LinkedIsForest ==
  ASSUME TypeOK, Linked
  PROVE  OneOwner /\ ChildrenAreLinked
<1>1. ASSUME NEW f \in DOMAIN folder, IsSet(folder[f].children)
      PROVE  Collected(f) = folder[f].children.cells
  BY <1>1 DEF Collected
<1>2. OneOwner
  BY <1>1 DEF OneOwner, Linked, CollectedOnce
<1>3. ASSUME NEW f \in DOMAIN folder, IsSet(folder[f].children),
             NEW i \in 1..Len(folder[f].children.cells)
      PROVE  path[folder[f].children.cells[i]].next =
               IF i < Len(folder[f].children.cells)
                 THEN Resolved(folder[f].children.cells[i + 1]) ELSE None
  <2>1. Collected(f) = folder[f].children.cells /\ Len(Collected(f)) \in Nat
    BY <1>1, <1>3, CollectedType
  <2>2. CASE i < Len(Collected(f))
    <3>1. i \in 1..(Len(Collected(f)) - 1)
      BY <2>1, <2>2
    <3> QED BY <2>1, <2>2, <3>1 DEF Linked, FollowsLinks
  <2>3. CASE ~(i < Len(Collected(f)))
    <3>1. i = Len(Collected(f)) /\ Collected(f) # <<>>
      BY <2>1, <2>3, EmptySeq
    <3> QED BY <1>3, <2>1, <2>3, <3>1 DEF Linked, EndsWithNone, LastOf
  <2> QED BY <2>1, <2>2, <2>3
<1>4. ChildrenAreLinked
  BY <1>3 DEF ChildrenAreLinked
<1> QED
  BY <1>2, <1>4

LEMMA FreshIsForest ==
  Fresh => OneOwner /\ ChildrenAreLinked
BY DEF Fresh, OneOwner, ChildrenAreLinked

-----------------------------------------------------------------------------
(* resolve. *)

\* Outside of resolve, what does not touch the cells keeps the lists.
LEMMA LinkedKept ==
  ASSUME TypeOK, Linked, pc # "walk", pc' # "walk", UNCHANGED <<folder, path>>
  PROVE  Linked'
<1>1. \A f \in DOMAIN folder :
        IsSet(folder[f].children) /\ Collected(f) = folder[f].children.cells
  BY AllSet
<1>2. \A f \in DOMAIN folder : Collected(f)' = Collected(f)
  BY <1>1 DEF Collected
<1>3. BeginningsApart' /\ WalkOK'
  BY <1>1 DEF BeginningsApart, Begins, WalkOK
<1>4. /\ NoneUnresolved' /\ NextInjective' /\ FollowsLinks' /\ EndsWithNone'
      /\ CollectedOnce' /\ FirstsFollowNone'
  BY <1>2 DEF Linked, NoneUnresolved, NextInjective, FollowsLinks, EndsWithNone,
              CollectedOnce, FirstsFollowNone
<1> QED
  BY <1>3, <1>4 DEF Linked

\* The first loop of resolve turns the forest of indices into one of cells,
\* because no cell is in the table of paths twice.
LEMMA FreshResolved ==
  ASSUME TypeOK, TypeOK', Fresh, ResolvePaths
  PROVE  Linked'
<1>1. /\ pc = "idle" /\ pc' = "walk" /\ k' = 1 /\ walked = <<>> /\ walked' = <<>>
      /\ UNCHANGED <<folder, folders, paths>>
      /\ DOMAIN path' = DOMAIN path /\ Cells(paths) = DOMAIN path
      /\ Len(paths) \in Nat /\ Len(paths) <= INVALID_INDEX
  BY TableCells DEF ResolvePaths, Fresh, TypeOK, tableVars
<1>2. ASSUME NEW c \in DOMAIN path
      PROVE  \/ path[c].next = None /\ path'[c].next = None
             \/ /\ IsUnresolved(path[c].next)
                /\ path[c].next = Unresolved(path[c].next.index)
                /\ path[c].next.index \in Nat /\ path[c].next.index < Len(paths)
                /\ path'[c].next = Resolved(paths[path[c].next.index + 1])
  <2>1. path'[c] = ResolvePath(path[c]) /\ Resolvable(path[c])
    BY <1>1, <1>2 DEF ResolvePaths
  <2>2. path[c] \in SearchPath(DOMAIN folder, DOMAIN path)
    BY TableCells
  <2>3. path'[c].next = Resolve(path[c].next, paths)
    BY <2>1, <2>2 DEF ResolvePath, SearchPath
  <2>4. ~IsCell(path[c].next)
    BY DEF Fresh, FreshLinksApart
  <2> QED
    BY <2>1, <2>3, <2>4, NextType
    DEF Resolve, Resolvable, InBounds, CellAt, IsUnresolved, None
<1>3. ASSUME NEW f \in DOMAIN folder
      PROVE  ~IsSet(folder[f].children) /\ folder[f].children.index \in Nat
  <2>1. ~IsSet(folder[f].children)
    BY DEF Fresh
  <2> QED BY <2>1, TableCells DEF IsSet, SearchFolder, ReferenceSetOf
<1>4. \A f \in DOMAIN folder : Collected(f)' = <<>>
  BY <1>1, <1>3 DEF Collected
<1>5. NoneUnresolved'
  <2>1. ASSUME NEW c \in DOMAIN path PROVE ~IsUnresolved(path'[c].next)
    <3>1. path'[c].next = None \/ \E d : path'[c].next = Resolved(d)
      BY <1>2
    <3> QED BY <3>1, Kinds
  <2> QED BY <1>1, <2>1 DEF NoneUnresolved
<1>6. \A m, n \in Nat :
        m < Len(paths) /\ n < Len(paths) /\ paths[m + 1] = paths[n + 1] => m = n
  <2>1. \A m, n \in 1..Len(paths) : paths[m] = paths[n] => m = n
    BY DEF Fresh
  <2>2. SUFFICES ASSUME NEW m \in Nat, NEW n \in Nat, m < Len(paths),
                        n < Len(paths), paths[m + 1] = paths[n + 1]
                 PROVE  m = n
    OBVIOUS
  <2>3. m + 1 \in 1..Len(paths) /\ n + 1 \in 1..Len(paths)
    BY <1>1, <2>2
  <2>4. m + 1 = n + 1
    BY <2>1, <2>2, <2>3
  <2> QED BY <2>4
<1>7. NextInjective'
  <2> SUFFICES ASSUME NEW c \in DOMAIN path, NEW d \in DOMAIN path,
                      IsCell(path'[c].next), path'[c].next = path'[d].next
               PROVE  c = d
    BY <1>1 DEF NextInjective
  <2>1. /\ IsUnresolved(path[c].next) /\ IsUnresolved(path[d].next)
        /\ path[c].next.index = path[d].next.index
        /\ path[c].next = path[d].next
    <3>1. path'[c].next # None /\ path'[d].next # None
      BY Kinds
    <3>2. paths[path[c].next.index + 1] = paths[path[d].next.index + 1]
      BY <1>2, <3>1, Kinds
    <3>3. path[c].next.index = path[d].next.index
      BY <1>2, <1>6, <3>1, <3>2
    <3> QED BY <1>2, <3>1, <3>3
  <2> QED BY <2>1 DEF Fresh, FreshLinksApart
<1>8. FollowsLinks' /\ EndsWithNone' /\ CollectedOnce' /\ FirstsFollowNone'
  BY <1>1, <1>3, <1>4, EmptySeq
  DEF FollowsLinks, EndsWithNone, CollectedOnce, FirstsFollowNone
<1>9. BeginningsApart'
  <2> SUFFICES ASSUME NEW f \in DOMAIN folder, NEW h \in DOMAIN path, Begins(f, h)'
               PROVE  /\ \A c \in DOMAIN path : path'[c].next # Resolved(h)
                      /\ \A g \in DOMAIN folder : Begins(g, h)' => f = g
    BY <1>1, <1>3 DEF BeginningsApart
  <2> DEFINE i == folder[f].children.index
  <2>1. i \in Nat /\ i < Len(paths) /\ h = paths[i + 1] /\ i # INVALID_INDEX
    BY <1>1, <1>3 DEF Begins, InBounds, CellAt, INVALID_INDEX
  <2>2. ASSUME NEW c \in DOMAIN path, path'[c].next = Resolved(h) PROVE FALSE
    <3>1. IsUnresolved(path[c].next) /\ path[c].next.index = i
      <4>1. path'[c].next # None
        BY <2>2, Kinds
      <4>2. paths[path[c].next.index + 1] = paths[i + 1]
        BY <1>2, <2>1, <2>2, <4>1, Kinds
      <4> QED BY <1>2, <1>6, <2>1, <4>1, <4>2
    <3> QED BY <2>1, <3>1 DEF Fresh, FreshLinksApart
  <2>3. ASSUME NEW g \in DOMAIN folder, Begins(g, h)' PROVE f = g
    <3>1. folder[g].children.index = i
      BY <1>1, <1>3, <1>6, <2>1, <2>3 DEF Begins, InBounds, CellAt
    <3> QED BY <2>1, <3>1 DEF Fresh, FreshLinksApart
  <2> QED BY <2>2, <2>3
<1>10. WalkOK'
  <2>1. \A f \in DOMAIN folder : \E i \in 1..Len(folders) : folders[i] = f
    BY DEF Fresh, Cells
  <2> QED BY <1>1, <2>1 DEF WalkOK
<1> QED
  BY <1>5, <1>7, <1>8, <1>9, <1>10 DEF Linked

\* Resolving again finds nothing to do.
LEMMA LinkedResolvedAgain ==
  ASSUME TypeOK, TypeOK', Linked, ResolvePaths
  PROVE  Linked'
<1>1. /\ pc = "idle" /\ pc' = "walk" /\ walked' = <<>>
      /\ UNCHANGED <<folder, folders, paths>> /\ DOMAIN path' = DOMAIN path
  BY DEF ResolvePaths, TypeOK, tableVars
<1>2. ASSUME NEW c \in DOMAIN path PROVE path'[c].next = path[c].next
  <2>1. ~IsUnresolved(path[c].next)
    BY DEF Linked, NoneUnresolved
  <2>2. path[c] \in SearchPath(DOMAIN folder, DOMAIN path)
    BY TableCells
  <2> QED BY <1>1, <2>1, <2>2 DEF ResolvePaths, ResolvePath, Resolve, SearchPath
<1>3. \A f \in DOMAIN folder :
        /\ IsSet(folder[f].children) /\ Collected(f) = folder[f].children.cells
        /\ Collected(f)' = Collected(f) /\ Collected(f) \in Seq(DOMAIN path)
  <2>1. \A f \in DOMAIN folder :
          IsSet(folder[f].children) /\ Collected(f) = folder[f].children.cells
    BY <1>1, AllSet
  <2>2. \A f \in DOMAIN folder : Collected(f)' = Collected(f)
    BY <1>1, <2>1 DEF Collected
  <2> QED BY <2>1, <2>2, CollectedType
<1>4. BeginningsApart' /\ WalkOK'
  BY <1>1, <1>3 DEF BeginningsApart, Begins, WalkOK
<1>5. NoneUnresolved' /\ NextInjective' /\ CollectedOnce' /\ FirstsFollowNone'
  BY <1>1, <1>2, <1>3
  DEF Linked, NoneUnresolved, NextInjective, CollectedOnce, FirstsFollowNone
<1>6. FollowsLinks' /\ EndsWithNone'
  <2>1. \A f \in DOMAIN folder : \A i \in 1..Len(Collected(f)) :
          path'[Collected(f)[i]].next = path[Collected(f)[i]].next
    BY <1>2, CollectedType
  <2>2. \A f \in DOMAIN folder : \A i \in 1..(Len(Collected(f)) - 1) :
          i \in 1..Len(Collected(f))
    BY CollectedType
  <2>3. \A f \in DOMAIN folder :
          Collected(f) # <<>> => Len(Collected(f)) \in 1..Len(Collected(f))
    BY CollectedType
  <2>4. FollowsLinks'
    BY <1>1, <1>3, <2>1, <2>2 DEF Linked, FollowsLinks
  <2>5. EndsWithNone'
    BY <1>1, <1>3, <2>1, <2>3 DEF Linked, EndsWithNone, LastOf
  <2> QED BY <2>4, <2>5
<1> QED
  BY <1>4, <1>5, <1>6 DEF Linked

\* A folder that has its vector already is passed over.
LEMMA LinkedWalkSkip ==
  ASSUME TypeOK, Linked, WalkSkip \/ ResolveReturns
  PROVE  Linked'
<1>1. /\ pc = "walk" /\ k \in Nat /\ k >= 1 /\ Len(folders) \in Nat
      /\ walked' = walked /\ walked = <<>>
      /\ UNCHANGED <<folder, path, folders, paths>>
  BY TableCells DEF WalkSkip, ResolveReturns, Walking, TypeOK, heapVars, tableVars
<1>2. /\ WalkSkip => /\ pc' = "walk" /\ k' = k + 1
                     /\ IsSet(folder[folders[k]].children)
      /\ ResolveReturns => k > Len(folders)
  BY DEF WalkSkip, ResolveReturns, Walking
<1>3. \A f \in DOMAIN folder : Collected(f)' = Collected(f)
  BY <1>1 DEF Collected
<1>4. WalkOK'
  <2> SUFFICES ASSUME NEW f \in DOMAIN folder, ~IsSet(folder[f].children)
               PROVE  pc' = "walk" /\ \E i \in k'..Len(folders) : folders[i] = f
    BY <1>1 DEF WalkOK
  <2>1. PICK i \in k..Len(folders) : folders[i] = f
    BY DEF Linked, WalkOK
  <2>2. WalkSkip /\ i # k
    BY <1>1, <1>2, <2>1
  <2> QED BY <1>1, <1>2, <2>1, <2>2
<1>5. /\ NoneUnresolved' /\ NextInjective' /\ FollowsLinks' /\ EndsWithNone'
      /\ CollectedOnce' /\ FirstsFollowNone' /\ BeginningsApart'
  BY <1>1, <1>3
  DEF Linked, NoneUnresolved, NextInjective, FollowsLinks, EndsWithNone,
      CollectedOnce, FirstsFollowNone, BeginningsApart, Begins
<1> QED
  BY <1>4, <1>5 DEF Linked

\* The cell a folder's index leads to is nobody's child yet.
LEMMA LinkedWalkStart ==
  ASSUME TypeOK, TypeOK', Linked, WalkStart, ~Panic
  PROVE  Linked'
<1>0. PICK f0 \in DOMAIN folder : f0 = folders[k]
  BY SMTT(60), TableCells DEF WalkStart, Walking, TypeOK
<1> DEFINE h == CellAt(paths, folder[f0].children.index)
<1>1. /\ pc = "walk" /\ pc' = "walk" /\ k \in Nat /\ k >= 1 /\ k <= Len(folders)
      /\ walked = <<>> /\ walked' = <<h>>
      /\ ~IsSet(folder[f0].children) /\ InBounds(paths, folder[f0].children.index)
      /\ UNCHANGED <<folder, path, folders, paths, k>>
  BY <1>0 DEF WalkStart, Walking, TypeOK, heapVars, tableVars
<1>2. walked'[1] = h /\ Len(walked') = 1 /\ walked' # <<>> /\ h \in DOMAIN path
  <2>1. walked'[1] = h /\ Len(walked') = 1
    BY <1>1
  <2>2. walked' \in Seq(DOMAIN path) /\ walked' # <<>>
    BY <1>1, <2>1, EmptySeq DEF TypeOK
  <2> QED BY <2>1, <2>2, ElementOfSeq
<1>3. Begins(f0, h)
  BY <1>1 DEF Begins
<1> HIDE DEF h
<1>4. /\ Collected(f0)' = walked' /\ Collected(f0) = <<>>
      /\ \A f \in DOMAIN folder :
           /\ f # f0 => Collected(f)' = Collected(f)
           /\ Collected(f) # <<>> => IsSet(folder[f].children)
  BY <1>0, <1>1 DEF Collected
<1>5. \A f \in DOMAIN folder : \A i \in 1..Len(Collected(f)) : Collected(f)[i] # h
  <2> SUFFICES ASSUME NEW f \in DOMAIN folder, NEW i \in 1..Len(Collected(f))
               PROVE  Collected(f)[i] # h
    OBVIOUS
  <2>1. Collected(f) # <<>>
    BY EmptySeq
  <2> QED BY <1>1, <1>2, <1>3, <1>4, <2>1 DEF Linked, BeginningsApart
<1>6. CollectedOnce'
  <2> SUFFICES ASSUME NEW f \in DOMAIN folder, NEW g \in DOMAIN folder,
                      NEW m \in 1..Len(Collected(f)'), NEW n \in 1..Len(Collected(g)'),
                      Collected(f)'[m] = Collected(g)'[n]
               PROVE  f = g /\ m = n
    BY <1>1 DEF CollectedOnce
  <2>1. ASSUME NEW x \in DOMAIN folder, NEW i \in 1..Len(Collected(x)')
        PROVE  \/ i \in 1..Len(Collected(x)) /\ Collected(x)'[i] = Collected(x)[i]
               \/ x = f0 /\ i = 1 /\ Collected(x)'[i] = h
    <3>1. CASE x = f0
      <4>1. Collected(x)' = walked'
        BY <1>4, <3>1
      <4>2. i \in 1..Len(walked')
        BY <2>1, <4>1
      <4>3. i = 1
        BY <1>2, <4>2
      <4> QED BY <1>2, <3>1, <4>1, <4>3
    <3>2. CASE x # f0
      BY <1>4, <2>1, <3>2
    <3> QED BY <3>1, <3>2
  <2>2. CASE m \in 1..Len(Collected(f)) /\ Collected(f)'[m] = Collected(f)[m]
    <3>1. n \in 1..Len(Collected(g)) /\ Collected(f)[m] = Collected(g)[n]
      BY <1>5, <2>1, <2>2
    <3> QED BY <2>2, <3>1 DEF Linked, CollectedOnce
  <2>3. CASE f = f0 /\ m = 1 /\ Collected(f)'[m] = h
    BY <1>5, <2>1, <2>3
  <2> QED BY <2>1, <2>2, <2>3
<1>7. FirstsFollowNone'
  <2>1. \A c \in DOMAIN path : path[c].next # Resolved(h)
    BY <1>1, <1>2, <1>3 DEF Linked, BeginningsApart
  <2> QED BY <1>1, <1>2, <1>4, <2>1 DEF Linked, FirstsFollowNone
<1>8. FollowsLinks' /\ EndsWithNone'
  BY <1>1, <1>2, <1>4 DEF Linked, FollowsLinks, EndsWithNone
<1>9. BeginningsApart'
  <2>1. \A g \in DOMAIN folder : IsSet(folder[g].children) => Collected(g)' = Collected(g)
    BY <1>1, <1>4
  <2> QED BY <1>1, <2>1 DEF Linked, BeginningsApart, Begins
<1>10. WalkOK'
  BY <1>0, <1>1, <1>2, <1>3 DEF Linked, WalkOK, Begins
<1>11. NoneUnresolved' /\ NextInjective'
  BY <1>1 DEF Linked, NoneUnresolved, NextInjective
<1> QED
  BY <1>6, <1>7, <1>8, <1>9, <1>10, <1>11 DEF Linked

\* The cell behind the last one is new: whoever has it already has it behind a
\* cell with the same link, hence behind the last one itself.
LEMMA LinkedWalkHop ==
  ASSUME TypeOK, TypeOK', Linked, WalkHop, ~Panic
  PROVE  Linked'
<1>0. PICK f0 \in DOMAIN folder : f0 = folders[k]
  BY SMTT(20), TableCells DEF WalkHop, Walking, TypeOK
<1> DEFINE last == LastOf(walked)
           d == path[last].next.cell
           n0 == Len(walked)
<1>1. /\ pc = "walk" /\ pc' = "walk" /\ k \in Nat /\ k >= 1 /\ k <= Len(folders)
      /\ walked # <<>> /\ walked' = Append(walked, d)
      /\ IsCell(path[last].next)
      /\ UNCHANGED <<folder, path, folders, paths, k>>
  BY DEF WalkHop, Walking, TypeOK, heapVars, tableVars
<1>2. Begins(f0, walked[1]) /\ ~IsSet(folder[f0].children)
  BY <1>0, <1>1 DEF Linked, WalkOK, Begins
<1>3. /\ Collected(f0) = walked /\ Collected(f0)' = walked'
      /\ \A f \in DOMAIN folder : f # f0 => Collected(f)' = Collected(f)
  BY <1>0, <1>1, <1>2 DEF Collected
<1>4. /\ n0 \in Nat /\ n0 >= 1 /\ n0 \in 1..n0 /\ last = walked[n0] /\ last \in DOMAIN path
      /\ path[last].next = Resolved(d) /\ d \in DOMAIN path
  <2>1. walked \in Seq(DOMAIN path) /\ n0 \in Nat /\ n0 >= 1 /\ last = walked[n0]
    BY <1>1, CellsOfSeq, LenProperties DEF TypeOK, LastOf
  <2>2. last \in DOMAIN path /\ n0 \in 1..n0
    BY <2>1, ElementOfSeq
  <2> QED BY <1>1, <2>1, <2>2, NextType
<1>5. /\ Len(walked') = n0 + 1 /\ walked'[n0 + 1] = d /\ walked' # <<>>
      /\ \A i \in 1..n0 : walked'[i] = walked[i]
  <2>1. walked \in Seq(DOMAIN path)
    BY DEF TypeOK
  <2> QED BY <1>1, <1>4, <2>1, AppendElement
<1> HIDE DEF last, d, n0
<1>6. ASSUME NEW g \in DOMAIN folder, NEW n \in 1..Len(Collected(g)),
             Collected(g)[n] = d
      PROVE  FALSE
  <2>1. Len(Collected(g)) \in Nat /\ Collected(g) # <<>>
    BY <1>6, CollectedType, EmptySeq
  <2>2. CASE n = 1
    BY <1>4, <1>6, <2>1, <2>2 DEF Linked, FirstsFollowNone
  <2>3. CASE n # 1
    <3> DEFINE m == n - 1
    <3>1. m \in 1..(Len(Collected(g)) - 1) /\ m \in 1..Len(Collected(g)) /\ m + 1 = n
      BY <2>1, <2>3
    <3> HIDE DEF m
    <3>2. path[Collected(g)[m]].next = Resolved(d)
      BY <1>6, <3>1 DEF Linked, FollowsLinks
    <3>3. Collected(g)[m] \in DOMAIN path
      BY <3>1, CollectedType
    <3>4. Collected(g)[m] = walked[n0]
      BY <1>1, <1>4, <3>2, <3>3 DEF Linked, NextInjective
    <3>5. g = f0 /\ m = n0
      BY <1>1, <1>3, <1>4, <3>1, <3>4 DEF Linked, CollectedOnce, n0
    <3> QED BY <1>3, <1>4, <3>1, <3>5 DEF n0
  <2> QED BY <2>2, <2>3
<1>7. CollectedOnce'
  <2> SUFFICES ASSUME NEW f \in DOMAIN folder, NEW g \in DOMAIN folder,
                      NEW m \in 1..Len(Collected(f)'), NEW n \in 1..Len(Collected(g)'),
                      Collected(f)'[m] = Collected(g)'[n]
               PROVE  f = g /\ m = n
    BY <1>1 DEF CollectedOnce
  <2>1. ASSUME NEW x \in DOMAIN folder, NEW i \in 1..Len(Collected(x)')
        PROVE  \/ i \in 1..Len(Collected(x)) /\ Collected(x)'[i] = Collected(x)[i]
               \/ x = f0 /\ i = n0 + 1 /\ Collected(x)'[i] = d
    <3>1. CASE x = f0
      BY <1>3, <1>4, <1>5, <2>1, <3>1 DEF n0
    <3>2. CASE x # f0
      BY <1>3, <2>1, <3>2
    <3> QED BY <3>1, <3>2
  <2>2. CASE m \in 1..Len(Collected(f)) /\ Collected(f)'[m] = Collected(f)[m]
    <3>1. n \in 1..Len(Collected(g)) /\ Collected(f)[m] = Collected(g)[n]
      BY <1>6, <2>1, <2>2
    <3> QED BY <2>2, <3>1 DEF Linked, CollectedOnce
  <2>3. CASE f = f0 /\ m = n0 + 1 /\ Collected(f)'[m] = d
    BY <1>6, <2>1, <2>3
  <2> QED BY <2>1, <2>2, <2>3
<1>8. FirstsFollowNone'
  <2>1. \A f \in DOMAIN folder :
          Collected(f)' # <<>> => /\ Collected(f) # <<>>
                                  /\ Collected(f)'[1] = Collected(f)[1]
    BY <1>1, <1>3, <1>4, <1>5
  <2> QED BY <1>1, <2>1 DEF Linked, FirstsFollowNone
<1>9. FollowsLinks'
  <2> SUFFICES ASSUME NEW f \in DOMAIN folder, NEW i \in 1..(Len(Collected(f)') - 1)
               PROVE  path[Collected(f)'[i]].next = Resolved(Collected(f)'[i + 1])
    BY <1>1 DEF FollowsLinks
  <2>1. CASE f # f0
    BY <1>3, <2>1 DEF Linked, FollowsLinks
  <2>2. CASE f = f0 /\ i = n0
    BY <1>3, <1>4, <1>5, <2>2
  <2>3. CASE f = f0 /\ i # n0
    <3>1. i \in 1..(n0 - 1) /\ i \in 1..n0 /\ i + 1 \in 1..n0
      BY <1>3, <1>4, <1>5, <2>3
    <3> QED BY <1>3, <1>4, <1>5, <2>3, <3>1 DEF Linked, FollowsLinks, n0
  <2> QED BY <2>1, <2>2, <2>3
<1>10. EndsWithNone' /\ BeginningsApart'
  <2>1. \A g \in DOMAIN folder : IsSet(folder[g].children) => Collected(g)' = Collected(g)
    BY <1>2, <1>3
  <2> QED BY <1>1, <2>1 DEF Linked, EndsWithNone, BeginningsApart, Begins
<1>11. WalkOK'
  <2>1. walked'[1] = walked[1]
    BY <1>4, <1>5
  <2> QED BY <1>0, <1>1, <1>2, <2>1 DEF Linked, WalkOK, Begins
<1>12. NoneUnresolved' /\ NextInjective'
  BY <1>1 DEF Linked, NoneUnresolved, NextInjective
<1> QED
  BY <1>7, <1>8, <1>9, <1>10, <1>11, <1>12 DEF Linked

\* The list that was walked becomes the folder's vector; no other folder's
\* list begins with one of its cells.
LEMMA LinkedWalkStop ==
  ASSUME TypeOK, TypeOK', Linked, WalkStop
  PROVE  Linked'
<1>0. PICK f0 \in DOMAIN folder : f0 = folders[k]
  BY TableCells DEF WalkStop, Walking, TypeOK
<1>1. /\ pc = "walk" /\ pc' = "walk" /\ k \in Nat /\ k >= 1 /\ k <= Len(folders)
      /\ k' = k + 1 /\ walked # <<>> /\ walked' = <<>>
      /\ IsNone(path[LastOf(walked)].next)
      /\ folder' = [folder EXCEPT ![f0].children = Set(walked)]
      /\ DOMAIN folder' = DOMAIN folder
      /\ UNCHANGED <<path, folders, paths>>
  BY <1>0 DEF WalkStop, Walking, TypeOK, tableVars
<1>2. Begins(f0, walked[1]) /\ ~IsSet(folder[f0].children)
  BY <1>0, <1>1 DEF Linked, WalkOK, Begins
<1>3. /\ folder'[f0].children = Set(walked)
      /\ \A f \in DOMAIN folder : f # f0 => folder'[f] = folder[f]
  BY <1>1, TableCells DEF SearchFolder
<1>4. /\ IsSet(folder'[f0].children) /\ folder'[f0].children.cells = walked
      /\ Collected(f0) = walked /\ Collected(f0)' = walked
  BY <1>0, <1>1, <1>2, <1>3 DEF Collected, Set, IsSet
<1>5. \A f \in DOMAIN folder : Collected(f)' = Collected(f)
  <2>1. ASSUME NEW f \in DOMAIN folder, f # f0 PROVE Collected(f)' = Collected(f)
    BY <1>0, <1>1, <1>3, <2>1 DEF Collected
  <2> QED BY <1>4, <2>1
<1>6. LastOf(walked) \in DOMAIN path
  BY <1>1, CellsOfSeq DEF TypeOK, LastOf
<1>7. EndsWithNone'
  <2> SUFFICES ASSUME NEW f \in DOMAIN folder, IsSet(folder'[f].children),
                      Collected(f) # <<>>
               PROVE  path[LastOf(Collected(f))].next = None
    BY <1>1, <1>5 DEF EndsWithNone, LastOf
  <2>1. CASE f = f0
    BY <1>1, <1>4, <1>6, <2>1, NextType
  <2>2. CASE f # f0
    BY <1>3, <2>2 DEF Linked, EndsWithNone
  <2> QED BY <2>1, <2>2
<1>8. BeginningsApart'
  <2> SUFFICES ASSUME NEW f \in DOMAIN folder, NEW h \in DOMAIN path, Begins(f, h)'
               PROVE  /\ \A c \in DOMAIN path : path[c].next # Resolved(h)
                      /\ \A g \in DOMAIN folder : Begins(g, h)' => f = g
                      /\ \A g \in DOMAIN folder :
                           IsSet(folder'[g].children) =>
                             \A i \in 1..Len(Collected(g)) : Collected(g)[i] # h
    BY <1>1, <1>5 DEF BeginningsApart
  <2>1. f # f0 /\ Begins(f, h)
    BY <1>1, <1>3, <1>4 DEF Begins
  <2>2. \A g \in DOMAIN folder : Begins(g, h)' => Begins(g, h)
    BY <1>1, <1>3, <1>4 DEF Begins
  <2>3. \A c \in DOMAIN path : path[c].next # Resolved(h)
    BY <2>1 DEF Linked, BeginningsApart
  <2>4. ASSUME NEW i \in 1..Len(walked) PROVE walked[i] # h
    <3>1. CASE i = 1
      BY <1>2, <2>1, <3>1 DEF Linked, BeginningsApart
    <3>2. CASE i # 1
      <4> DEFINE m == i - 1
      <4>1. m \in 1..(Len(walked) - 1) /\ m \in 1..Len(walked) /\ m + 1 = i
        BY <3>2, TableCells
      <4> HIDE DEF m
      <4>2. path[walked[m]].next = Resolved(walked[i])
        BY <1>4, <4>1 DEF Linked, FollowsLinks
      <4>3. walked[m] \in DOMAIN path
        BY <4>1, TableCells
      <4> QED BY <2>3, <4>2, <4>3
    <3> QED BY <3>1, <3>2
  <2>5. \A g \in DOMAIN folder :
          IsSet(folder'[g].children) =>
            \A i \in 1..Len(Collected(g)) : Collected(g)[i] # h
    BY <1>3, <1>4, <2>1, <2>4 DEF Linked, BeginningsApart
  <2> QED BY <2>1, <2>2, <2>3, <2>5 DEF Linked, BeginningsApart
<1>9. WalkOK'
  <2> SUFFICES ASSUME NEW f \in DOMAIN folder, ~IsSet(folder'[f].children)
               PROVE  \E i \in k'..Len(folders) : folders[i] = f
    BY <1>1 DEF WalkOK
  <2>1. f # f0 /\ ~IsSet(folder[f].children)
    BY <1>3, <1>4
  <2>2. PICK i \in k..Len(folders) : folders[i] = f
    BY <2>1 DEF Linked, WalkOK
  <2>3. i # k
    BY <1>0, <2>1, <2>2
  <2> QED BY <1>1, <2>2, <2>3, TableCells
<1>10. /\ NoneUnresolved' /\ NextInjective' /\ FollowsLinks'
       /\ CollectedOnce' /\ FirstsFollowNone'
  BY <1>1, <1>5
  DEF Linked, NoneUnresolved, NextInjective, FollowsLinks, CollectedOnce,
      FirstsFollowNone
<1> QED
  BY <1>7, <1>8, <1>9, <1>10 DEF Linked

-----------------------------------------------------------------------------
(* add_file. *)

\* push_child of a cell that is new: the lists stay apart, and the vector and
\* the list of the folder get the same last element.
LEMMA LinkedPushChild ==
  ASSUME TypeOK, Linked, pc # "walk", pc' # "walk",
         NEW f0 \in DOMAIN folder, NEW c0, c0 \notin DOMAIN path,
         NEW cells, cells = folder[f0].children.cells,
         DOMAIN path' = DOMAIN path \cup {c0},
         path'[c0].next = None,
         \A c \in DOMAIN path :
           path'[c].next = IF cells # <<>> /\ c = LastOf(cells) THEN Resolved(c0)
                                                               ELSE path[c].next,
         DOMAIN folder \subseteq DOMAIN folder',
         \A f \in DOMAIN folder :
           f # f0 => folder'[f].children = folder[f].children,
         folder'[f0].children = Set(Append(cells, c0)),
         \A f \in DOMAIN folder' : f \notin DOMAIN folder =>
           folder'[f].children = Set(<<>>)
  PROVE  Linked'
<1> DEFINE F == DOMAIN folder
           P == DOMAIN path
           n0 == Len(cells)
           last == LastOf(cells)
<1>1. ASSUME NEW f \in F
      PROVE  /\ IsSet(folder[f].children) /\ Collected(f) = folder[f].children.cells
             /\ Collected(f) \in Seq(P) /\ Len(Collected(f)) \in Nat
             /\ \A i \in 1..Len(Collected(f)) : Collected(f)[i] \in P
             /\ Collected(f) # <<>> => Len(Collected(f)) >= 1
  BY AllSet, CollectedType
<1>2. /\ cells = Collected(f0) /\ cells \in Seq(P) /\ n0 \in Nat
      /\ \A i \in 1..n0 : cells[i] \in P
      /\ cells # <<>> => n0 >= 1 /\ last \in P /\ last = cells[n0]
  BY <1>1 DEF LastOf
<1>3. ASSUME NEW f \in DOMAIN folder' PROVE IsSet(folder'[f].children)
  BY <1>1, <1>3 DEF IsSet, Set
<1>4. \A f \in DOMAIN folder' : Collected(f)' = folder'[f].children.cells
  BY <1>3 DEF Collected
<1>5. /\ \A f \in F : f # f0 => Collected(f)' = Collected(f)
      /\ \A f \in DOMAIN folder' : f \notin F => Collected(f)' = <<>>
      /\ Collected(f0)' = Append(cells, c0)
  BY SMTT(20), <1>1, <1>4 DEF Set
<1>6. /\ Len(Append(cells, c0)) = n0 + 1 /\ Append(cells, c0)[n0 + 1] = c0
      /\ \A i \in 1..n0 : Append(cells, c0)[i] = cells[i]
      /\ Append(cells, c0) # <<>>
  <2> DEFINE S == P \cup {c0}
  <2>1. cells \in Seq(S) /\ c0 \in S
    BY <1>2, SeqMonotonic
  <2> HIDE DEF S
  <2> QED BY <2>1, AppendElement
<1>7. ASSUME NEW f \in DOMAIN folder', NEW i \in 1..Len(Collected(f)')
      PROVE  f \in F /\ \/ i \in 1..Len(Collected(f)) /\ Collected(f)'[i] = Collected(f)[i]
                        \/ f = f0 /\ i = n0 + 1 /\ Collected(f)'[i] = c0
  <2>1. f \in F
    BY <1>5, <1>7, EmptySeq
  <2>2. CASE f = f0
    <3>1. Collected(f)' = Append(cells, c0)
      BY <1>5, <2>2
    <3>2. i \in 1..(n0 + 1)
      BY <1>6, <1>7, <3>1
    <3> QED BY <1>2, <1>6, <2>1, <2>2, <3>1, <3>2
  <2>3. CASE f # f0
    <3>1. Collected(f)' = Collected(f)
      BY <1>5, <2>1, <2>3
    <3> QED BY <1>7, <2>1, <3>1
  <2> QED BY <2>2, <2>3
<1>8. \A c \in P : path[c].next # Resolved(c0) /\ path'[c].next \in {path[c].next, Resolved(c0)}
  BY NextType
<1> HIDE DEF F, P, n0, last
<1>9. CollectedOnce'
  <2> SUFFICES ASSUME NEW f \in DOMAIN folder', NEW g \in DOMAIN folder',
                      NEW m \in 1..Len(Collected(f)'), NEW n \in 1..Len(Collected(g)'),
                      Collected(f)'[m] = Collected(g)'[n]
               PROVE  f = g /\ m = n
    BY DEF CollectedOnce
  <2>1. c0 \notin P
    BY DEF P
  <2>2. CASE m \in 1..Len(Collected(f)) /\ Collected(f)'[m] = Collected(f)[m]
    <3>1. f \in F /\ g \in F /\ Collected(f)[m] \in P
      BY <1>1, <1>7, <2>2
    <3>2. n \in 1..Len(Collected(g)) /\ Collected(f)[m] = Collected(g)[n]
      BY <1>7, <2>1, <2>2, <3>1
    <3> QED BY <2>2, <3>1, <3>2 DEF Linked, CollectedOnce, F
  <2>3. CASE f = f0 /\ m = n0 + 1 /\ Collected(f)'[m] = c0
    BY <1>1, <1>7, <2>1, <2>3
  <2> QED BY <1>7, <2>2, <2>3
<1>10. ASSUME NEW c \in P PROVE path'[c].next = path[c].next \/ (cells # <<>> /\ c = last)
  BY DEF last, P
<1>11. NextInjective'
  <2> SUFFICES ASSUME NEW c \in P \cup {c0}, NEW d \in P \cup {c0},
                      IsCell(path'[c].next), path'[c].next = path'[d].next
               PROVE  c = d
    BY DEF NextInjective, P
  <2>1. c \in P /\ d \in P
    BY Kinds
  <2>2. CASE path'[c].next = Resolved(c0)
    BY <1>8, <1>10, <2>1, <2>2
  <2>3. CASE path'[c].next # Resolved(c0)
    <3>1. path[c].next = path'[c].next /\ path[d].next = path'[c].next
      BY <1>8, <2>1, <2>3
    <3> QED BY <2>1, <3>1 DEF Linked, NextInjective, P
  <2> QED BY <2>2, <2>3
<1>12. NoneUnresolved'
  BY <1>8, Kinds DEF Linked, NoneUnresolved, P
<1>13. \A f \in F : \A i \in 1..Len(Collected(f)) :
         (f # f0 \/ i # n0) => path'[Collected(f)[i]].next = path[Collected(f)[i]].next
  <2> SUFFICES ASSUME NEW f \in F, NEW i \in 1..Len(Collected(f)), f # f0 \/ i # n0,
                      cells # <<>>, Collected(f)[i] = last
               PROVE  FALSE
    BY <1>1, <1>10
  <2>1. n0 \in 1..Len(Collected(f0)) /\ Collected(f0)[n0] = last
    BY <1>2 DEF n0
  <2> QED BY <2>1 DEF Linked, CollectedOnce, F
<1>14. FollowsLinks'
  <2> SUFFICES ASSUME NEW f \in DOMAIN folder', NEW i \in 1..(Len(Collected(f)') - 1)
               PROVE  path'[Collected(f)'[i]].next = Resolved(Collected(f)'[i + 1])
    BY DEF FollowsLinks
  <2>1. CASE f \in F /\ f # f0
    <3>1. Collected(f)' = Collected(f) /\ i \in 1..Len(Collected(f))
          /\ i \in 1..(Len(Collected(f)) - 1)
      BY <1>1, <1>5, <2>1
    <3> QED BY <1>13, <2>1, <3>1 DEF Linked, FollowsLinks, F
  <2>2. CASE f = f0
    <3>1. Collected(f)' = Append(cells, c0) /\ i \in 1..n0 /\ n0 \in Nat
      <4>1. Collected(f)' = Append(cells, c0)
        BY <1>5, <2>2
      <4>2. Len(Collected(f)') = n0 + 1 /\ n0 \in Nat
        BY <1>2, <1>6, <4>1
      <4> QED BY <4>1, <4>2
    <3>2. CASE i = n0
      <4>1. cells # <<>>
        BY <3>1, EmptySeq DEF n0
      <4>2. Collected(f)'[i] = last /\ Collected(f)'[i + 1] = c0 /\ last \in P
        BY <1>2, <1>6, <3>1, <3>2, <4>1
      <4> QED BY <4>1, <4>2 DEF last, P
    <3>3. CASE i # n0
      <4>1. i \in 1..(n0 - 1) /\ i \in 1..n0 /\ i + 1 \in 1..n0
        BY <3>1, <3>3
      <4>2. Collected(f)'[i] = cells[i] /\ Collected(f)'[i + 1] = cells[i + 1]
        BY <1>6, <3>1, <4>1
      <4>3. path'[cells[i]].next = path[cells[i]].next
        BY <1>2, <1>13, <3>3, <4>1 DEF n0, F
      <4>4. path[cells[i]].next = Resolved(cells[i + 1])
        BY <1>2, <4>1 DEF Linked, FollowsLinks, n0
      <4> QED BY <4>2, <4>3, <4>4
    <3> QED BY <3>2, <3>3
  <2>3. CASE f \notin F
    BY <1>5, <2>3, EmptySeq
  <2> QED BY <2>1, <2>2, <2>3
<1>15. EndsWithNone'
  <2> SUFFICES ASSUME NEW f \in DOMAIN folder', Collected(f)' # <<>>
               PROVE  path'[Collected(f)'[Len(Collected(f)')]].next = None
    BY DEF EndsWithNone, LastOf
  <2>1. CASE f = f0
    <3>1. Collected(f)' = Append(cells, c0)
      BY <1>5, <2>1
    <3> QED BY <1>6, <3>1
  <2>2. CASE f \in F /\ f # f0
    <3>1. Collected(f)' = Collected(f) /\ Len(Collected(f)) \in 1..Len(Collected(f))
      BY <1>1, <1>5, <2>2
    <3> QED BY <1>1, <1>13, <2>2, <3>1 DEF Linked, EndsWithNone, LastOf, F
  <2>3. CASE f \notin F
    BY <1>5, <2>3
  <2> QED BY <2>1, <2>2, <2>3
<1>16. FirstsFollowNone'
  <2> SUFFICES ASSUME NEW f \in DOMAIN folder', NEW c \in P \cup {c0},
                      Collected(f)' # <<>>, path'[c].next = Resolved(Collected(f)'[1])
               PROVE  FALSE
    BY DEF FirstsFollowNone, P
  <2>1. c \in P /\ f \in F
    BY <1>5, Kinds
  <2>2. CASE Collected(f) # <<>>
    <3>1. Collected(f)'[1] = Collected(f)[1] /\ Collected(f)[1] \in P
      <4>1. 1 \in 1..Len(Collected(f))
        BY <1>1, <2>1, <2>2
      <4>2. CASE f = f0
        <5>1. Collected(f)' = Append(cells, c0)
          BY <1>5, <4>2
        <5> QED BY <1>2, <1>6, <4>1, <4>2, <5>1 DEF n0
      <4>3. CASE f # f0
        BY <1>1, <1>5, <2>1, <4>1, <4>3
      <4> QED BY <4>2, <4>3
    <3>2. path'[c].next # Resolved(c0)
      BY <3>1, Kinds DEF P
    <3>3. path[c].next = Resolved(Collected(f)[1])
      BY <1>8, <2>1, <3>1, <3>2
    <3> QED BY <2>1, <2>2, <3>3 DEF Linked, FirstsFollowNone, F, P
  <2>3. CASE Collected(f) = <<>>
    <3>1. f = f0 /\ cells = <<>>
      BY <1>2, <1>5, <2>1, <2>3
    <3>2. n0 = 0
      BY <3>1, EmptySeq DEF n0
    <3>3. Collected(f)' = Append(cells, c0)
      BY <1>5, <3>1
    <3>4. Collected(f)'[1] = c0
      BY <1>6, <3>2, <3>3
    <3> QED BY <1>8, <1>10, <2>1, <3>1, <3>4
  <2> QED BY <2>2, <2>3
<1>17. BeginningsApart' /\ WalkOK'
  BY <1>3 DEF BeginningsApart, Begins, WalkOK
<1> QED
  BY <1>9, <1>11, <1>12, <1>14, <1>15, <1>16, <1>17 DEF Linked

\* What push_child does: c0 is new, the last of f0's children, and linked to by
\* the one that was the last.
PushesChild(f0, c0, cells) ==
  /\ f0 \in DOMAIN folder /\ IsSet(folder[f0].children)
  /\ cells = folder[f0].children.cells /\ cells \in Seq(DOMAIN path)
  /\ c0 \notin DOMAIN path
  /\ DOMAIN path' = DOMAIN path \cup {c0}
  /\ path'[c0].next = None
  /\ \A c \in DOMAIN path :
       path'[c].next = IF cells # <<>> /\ c = LastOf(cells) THEN Resolved(c0)
                                                           ELSE path[c].next
  /\ DOMAIN folder \subseteq DOMAIN folder'
  /\ \A f \in DOMAIN folder : f # f0 => folder'[f].children = folder[f].children
  /\ folder'[f0].children = Set(Append(cells, c0))
  /\ \A f \in DOMAIN folder' : f \notin DOMAIN folder =>
       folder'[f].children = Set(<<>>)

LEMMA MakeFolderPushes ==
  ASSUME TypeOK, MakeFolder, ~Panic
  PROVE  PushesChild(current, guid + 1, folder[current].children.cells)
<1> DEFINE prefix == SubSeq(file, 1, depth)
           heap1 == Insert(folder, guid, NewFolder(prefix))
           heap2 == Insert(path, guid + 1, NewPath(prefix, Resolved(guid)))
           cells == folder[current].children.cells
<1>1. /\ pc = "add" /\ pc' = "add" /\ current \in DOMAIN folder
      /\ IsSet(folder[current].children)
      /\ folder' = PushChild(heap1, current, guid + 1)
      /\ path' = LinkLast(heap2, current, guid + 1)
      /\ guid \notin DOMAIN folder /\ guid + 1 \notin DOMAIN path
      /\ cells \in Seq(DOMAIN path)
  <2>1. pc = "add" /\ current \in DOMAIN folder /\ IsSet(folder[current].children)
    BY DEF MakeFolder, Descending, TypeOK
  <2>2. cells \in Seq(DOMAIN path)
    BY <2>1, TableCells DEF IsSet, SearchFolder, ReferenceSetOf
  <2> QED BY <2>1, <2>2, TableCells DEF MakeFolder
<1>2. /\ DOMAIN heap1 = DOMAIN folder \cup {guid}
      /\ heap1[guid] = NewFolder(prefix)
      /\ \A f \in DOMAIN folder : heap1[f] = folder[f] /\ heap1[f] \in SearchFolder(DOMAIN path)
      /\ DOMAIN heap2 = DOMAIN path \cup {guid + 1}
      /\ heap2[guid + 1] = NewPath(prefix, Resolved(guid))
      /\ \A c \in DOMAIN path :
           heap2[c] = path[c] /\ heap2[c] \in SearchPath(DOMAIN folder, DOMAIN path)
  BY <1>1, TableCells DEF Insert
<1> HIDE DEF heap1, heap2, prefix
<1>3. /\ DOMAIN folder' = DOMAIN folder \cup {guid}
      /\ folder'[current].children = Set(Append(cells, guid + 1))
      /\ folder'[guid].children = Set(<<>>)
      /\ \A f \in DOMAIN folder : f # current => folder'[f].children = folder[f].children
  <2>1. folder' = [heap1 EXCEPT ![current].children = Set(Append(cells, guid + 1))]
    BY <1>1 DEF PushChild
  <2>2. DOMAIN folder' = DOMAIN folder \cup {guid}
    BY <1>2, <2>1
  <2>3. folder'[current].children = Set(Append(cells, guid + 1))
    BY <1>1, <1>2, <2>1 DEF SearchFolder
  <2>4. \A f \in DOMAIN heap1 : f # current => folder'[f] = heap1[f]
    BY <2>1
  <2> QED BY <1>1, <1>2, <2>2, <2>3, <2>4 DEF NewFolder
<1>4. ASSUME cells # <<>> PROVE LastOf(cells) \in DOMAIN path
  BY <1>1, <1>4, CellsOfSeq DEF LastOf
<1>5. DOMAIN path' = DOMAIN path \cup {guid + 1} /\ path'[guid + 1].next = None
  <2>1. CASE cells = <<>>
    BY <1>1, <1>2, <2>1 DEF LinkLast, NewPath
  <2>2. CASE cells # <<>>
    <3>1. path' = [heap2 EXCEPT ![LastOf(cells)].next = Resolved(guid + 1)]
      BY <1>1, <2>2 DEF LinkLast
    <3> QED BY <1>1, <1>2, <1>4, <2>2, <3>1 DEF NewPath
  <2> QED BY <2>1, <2>2
<1>6. \A c \in DOMAIN path :
        path'[c].next = IF cells # <<>> /\ c = LastOf(cells)
                          THEN Resolved(guid + 1) ELSE path[c].next
  <2>1. CASE cells = <<>>
    BY <1>1, <1>2, <2>1 DEF LinkLast
  <2>2. CASE cells # <<>>
    <3>1. path' = [heap2 EXCEPT ![LastOf(cells)].next = Resolved(guid + 1)]
      BY <1>1, <2>2 DEF LinkLast
    <3> QED BY <1>1, <1>2, <1>4, <2>2, <3>1 DEF SearchPath
  <2> QED BY <2>1, <2>2
<1>7. \A f \in DOMAIN folder' : f \notin DOMAIN folder => folder'[f].children = Set(<<>>)
  BY <1>3
<1> QED
  BY <1>1, <1>3, <1>5, <1>6, <1>7 DEF PushesChild

LEMMA LinkedMakeFolder ==
  ASSUME TypeOK, Linked, MakeFolder, ~Panic
  PROVE  Linked'
<1>1. PICK f0, c0, cells : PushesChild(f0, c0, cells)
  BY MakeFolderPushes
<1>2. pc # "walk" /\ pc' # "walk"
  BY DEF MakeFolder, Descending
<1> QED
  BY <1>1, <1>2, LinkedPushChild DEF PushesChild

LEMMA MakeFilePushes ==
  ASSUME TypeOK, MakeFile
  PROVE  PushesChild(current, guid, folder[current].children.cells)
<1> DEFINE heap == Insert(path, guid, NewPath(file, None))
           cells == folder[current].children.cells
<1>1. /\ pc = "add" /\ pc' = "idle" /\ current \in DOMAIN folder
      /\ IsSet(folder[current].children)
      /\ folder' = PushChild(folder, current, guid)
      /\ path' = LinkLast(heap, current, guid)
      /\ guid \notin DOMAIN path
      /\ cells \in Seq(DOMAIN path)
  <2>1. pc = "add" /\ current \in DOMAIN folder /\ IsSet(folder[current].children)
    BY DEF MakeFile, Landing, TypeOK
  <2>2. cells \in Seq(DOMAIN path)
    BY <2>1, TableCells DEF IsSet, SearchFolder, ReferenceSetOf
  <2> QED BY <2>1, <2>2, TableCells DEF MakeFile
<1>2. /\ DOMAIN heap = DOMAIN path \cup {guid}
      /\ heap[guid] = NewPath(file, None)
      /\ \A c \in DOMAIN path :
           heap[c] = path[c] /\ heap[c] \in SearchPath(DOMAIN folder, DOMAIN path)
  BY <1>1, TableCells DEF Insert
<1> HIDE DEF heap
<1>3. /\ DOMAIN folder' = DOMAIN folder
      /\ folder'[current].children = Set(Append(cells, guid))
      /\ \A f \in DOMAIN folder : f # current => folder'[f].children = folder[f].children
  <2>1. folder' = [folder EXCEPT ![current].children = Set(Append(cells, guid))]
    BY <1>1 DEF PushChild
  <2> QED BY <1>1, <2>1, TableCells DEF SearchFolder
<1>4. ASSUME cells # <<>> PROVE LastOf(cells) \in DOMAIN path
  BY <1>1, <1>4, CellsOfSeq DEF LastOf
<1>5. DOMAIN path' = DOMAIN path \cup {guid} /\ path'[guid].next = None
  <2>1. CASE cells = <<>>
    BY <1>1, <1>2, <2>1 DEF LinkLast, NewPath
  <2>2. CASE cells # <<>>
    <3>1. path' = [heap EXCEPT ![LastOf(cells)].next = Resolved(guid)]
      BY <1>1, <2>2 DEF LinkLast
    <3> QED BY <1>1, <1>2, <1>4, <2>2, <3>1 DEF NewPath
  <2> QED BY <2>1, <2>2
<1>6. \A c \in DOMAIN path :
        path'[c].next = IF cells # <<>> /\ c = LastOf(cells)
                          THEN Resolved(guid) ELSE path[c].next
  <2>1. CASE cells = <<>>
    BY <1>1, <1>2, <2>1 DEF LinkLast
  <2>2. CASE cells # <<>>
    <3>1. path' = [heap EXCEPT ![LastOf(cells)].next = Resolved(guid)]
      BY <1>1, <2>2 DEF LinkLast
    <3> QED BY <1>1, <1>2, <1>4, <2>2, <3>1 DEF SearchPath
  <2> QED BY <2>1, <2>2
<1> QED
  BY <1>1, <1>3, <1>5, <1>6 DEF PushesChild

LEMMA LinkedMakeFile ==
  ASSUME TypeOK, Linked, MakeFile
  PROVE  Linked'
<1>1. PICK f0, c0, cells : PushesChild(f0, c0, cells)
  BY MakeFilePushes
<1>2. pc # "walk" /\ pc' # "walk"
  BY DEF MakeFile, Landing
<1> QED
  BY <1>1, <1>2, LinkedPushChild DEF PushesChild

-----------------------------------------------------------------------------
(* The heap through every step. *)

\* Reading makes one cell for each entry, whose references are the entry's.
LEMMA FreshRead ==
  ASSUME TypeOK, DiskIsForest, Read
  PROVE  Fresh'
<1> DEFINE nf == Len(disk.folders)
           np == Len(disk.paths)
           F == guid..(guid + nf - 1)
           P == (guid + nf)..(guid + nf + np - 1)
           fi(g) == g - guid + 1
           pi(g) == g - guid - nf + 1
<1>1. disk.folders \in Seq(FolderEntry) /\ disk.paths \in Seq(PathEntry) /\ guid \in Nat
  BY DEF TypeOK, Image
<1>2. /\ nf \in Nat /\ np \in Nat
      /\ \A i \in 1..nf : disk.folders[i].first \in Nat
      /\ \A i \in 1..np : disk.paths[i].next \in Nat
  <2>1. /\ nf \in Nat /\ np \in Nat
        /\ \A i \in 1..nf : disk.folders[i] \in FolderEntry
        /\ \A i \in 1..np : disk.paths[i] \in PathEntry
    BY <1>1, LenProperties, ElementOfSeq
  <2> QED BY <2>1 DEF FolderEntry, PathEntry
<1>3. /\ folder' = [g \in F |-> ParseFolder(disk.folders[fi(g)])]
      /\ path' = [g \in P |-> ParsePath(disk.paths[pi(g)])]
      /\ folders' = [i \in 1..nf |-> guid + i - 1]
      /\ paths' = [i \in 1..np |-> guid + nf + i - 1]
      /\ pc' = "idle" /\ DOMAIN folder' = F /\ DOMAIN path' = P
  BY DEF Read
<1>4. /\ np <= INVALID_INDEX
      /\ \A m, n \in 1..np :
           disk.paths[m].next = disk.paths[n].next
             /\ disk.paths[m].next # INVALID_INDEX => m = n
      /\ \A f, g \in 1..nf :
           disk.folders[f].first = disk.folders[g].first
             /\ disk.folders[f].first # INVALID_INDEX => f = g
      /\ \A f \in 1..nf, n \in 1..np :
           disk.folders[f].first = disk.paths[n].next
             => disk.folders[f].first = INVALID_INDEX
  BY DEF DiskIsForest, IsForest
<1>5. Len(folders') = nf /\ Len(paths') = np
  BY <1>2, <1>3
<1>6. Cells(folders)' = F /\ Cells(paths)' = P
  <2>1. Cells(folders)' = {guid + i - 1 : i \in 1..nf} /\ Cells(paths)' = {guid + nf + i - 1 : i \in 1..np}
    BY <1>3, <1>5 DEF Cells
  <2> HIDE DEF nf, np
  <2>2. \A g \in F : fi(g) \in 1..nf /\ g = guid + fi(g) - 1
    BY <1>1, <1>2
  <2>3. \A g \in P : pi(g) \in 1..np /\ g = guid + nf + pi(g) - 1
    BY <1>1, <1>2
  <2>4. (\A i \in 1..nf : guid + i - 1 \in F) /\ (\A i \in 1..np : guid + nf + i - 1 \in P)
    BY <1>1, <1>2
  <2> HIDE DEF F, P, fi, pi
  <2> QED BY <2>1, <2>2, <2>3, <2>4
<1>7. \A m, n \in 1..Len(paths') : paths'[m] = paths'[n] => m = n
  <2> HIDE DEF np, nf
  <2> QED BY <1>1, <1>2, <1>3, <1>5
<1>8. ASSUME NEW f \in F
      PROVE  /\ ~IsSet(folder'[f].children)
             /\ folder'[f].children.index = disk.folders[fi(f)].first
  BY <1>3 DEF ParseFolder, Start, IsSet
<1>9. ASSUME NEW c \in P
      PROVE  \/ /\ path'[c].next = None
                /\ disk.paths[pi(c)].next = INVALID_INDEX
             \/ /\ path'[c].next = Unresolved(disk.paths[pi(c)].next)
                /\ IsUnresolved(path'[c].next)
                /\ path'[c].next.index = disk.paths[pi(c)].next
                /\ disk.paths[pi(c)].next # INVALID_INDEX
  BY <1>3 DEF ParsePath, Unresolved, IsUnresolved
<1>10. /\ \A g \in F : fi(g) \in 1..nf
       /\ \A g, h \in F : fi(g) = fi(h) => g = h
       /\ \A g \in P : pi(g) \in 1..np
       /\ \A g, h \in P : pi(g) = pi(h) => g = h
  <2> HIDE DEF nf, np
  <2> QED BY <1>1, <1>2
<1> HIDE DEF F, P, fi, pi
<1>11. \A c \in P : ~IsCell(path'[c].next)
  BY <1>9, Kinds DEF IsCell, IsUnresolved
<1>12. \A c, d \in P :
         IsUnresolved(path'[c].next) /\ path'[c].next = path'[d].next => c = d
  <2> SUFFICES ASSUME NEW c \in P, NEW d \in P, IsUnresolved(path'[c].next),
                      path'[c].next = path'[d].next
               PROVE  c = d
    OBVIOUS
  <2>1. disk.paths[pi(c)].next = disk.paths[pi(d)].next
        /\ disk.paths[pi(c)].next # INVALID_INDEX
    BY <1>9, Kinds
  <2> QED BY <1>4, <1>10, <2>1
<1>13. \A f, g \in F :
         folder'[f].children.index = folder'[g].children.index
           => f = g \/ folder'[f].children.index = INVALID_INDEX
  BY <1>4, <1>8, <1>10
<1>14. \A f \in F, c \in P :
         IsUnresolved(path'[c].next)
           /\ path'[c].next.index = folder'[f].children.index
           => folder'[f].children.index = INVALID_INDEX
  BY <1>4, <1>8, <1>9, <1>10, Kinds
<1>15. FreshLinksApart'
  BY <1>3, <1>11, <1>12, <1>13, <1>14 DEF FreshLinksApart
<1> QED
  BY <1>3, <1>4, <1>5, <1>6, <1>7, <1>8, <1>15 DEF Fresh

\* Fresh is about the cells, the tables and where the call is.
LEMMA FreshKept ==
  ASSUME Fresh, UNCHANGED <<folder, path, folders, paths>>, pc' # "walk",
         pc' = "push" => k' <= Len(folders)
  PROVE  Fresh'
BY DEF Fresh, FreshLinksApart, Cells

\* An engine nobody has resolved lets no call get past its first folder.
LEMMA FreshStops ==
  ASSUME TypeOK, Fresh, DOMAIN folder # {}
  PROVE  /\ ~MakeFolder /\ ~MakeFile /\ ~Descend
         /\ PushFolder => Panic
         /\ ~PushPath /\ ~PushNext /\ ~Pushed
         /\ ~WalkSkip /\ ~WalkStart /\ ~WalkHop /\ ~WalkStop /\ ~ResolveReturns
         /\ \A p \in DOMAIN folderLookup : ~ListFolder(folderLookup[p])
         /\ Len(folders) >= 1
<1>1. \A f \in DOMAIN folder : ~IsSet(folder[f].children)
  BY DEF Fresh
<1>2. pc = "add" => current \in DOMAIN folder
  BY DEF TypeOK
<1>3. ~MakeFolder /\ ~MakeFile /\ ~Descend
  BY <1>1, <1>2 DEF MakeFolder, MakeFile, Descend, Descending, Landing
<1>4. Pushing => folders[k] \in DOMAIN folder
  BY TableCells DEF Pushing, TypeOK
<1>5. PushFolder => Panic
  BY <1>1, <1>4 DEF PushFolder
<1>6. ~PushPath /\ ~PushNext
  BY <1>1, <1>4 DEF PushPath, PushNext, Pushing, TypeOK
<1>7. ~Pushed
  BY TableCells DEF Pushed, Fresh, TypeOK
<1>8. ~WalkSkip /\ ~WalkStart /\ ~WalkHop /\ ~WalkStop /\ ~ResolveReturns
  BY DEF Fresh, WalkSkip, WalkStart, WalkHop, WalkStop, ResolveReturns, Walking
<1>9. \A p \in DOMAIN folderLookup : ~ListFolder(folderLookup[p])
  BY DEF Fresh, ListFolder, TypeOK, IsMap
<1>10. Len(folders) >= 1
  BY TableCells DEF Fresh, Cells
<1> QED
  BY <1>3, <1>5, <1>6, <1>7, <1>8, <1>9, <1>10

\* The steps that leave the cells alone and are not part of resolve.
CellsAlone ==
  \/ \E f \in Files : AddFile(f)
  \/ \E p \in DOMAIN folderLookup : ListFolder(folderLookup[p])
  \/ \E t \in {"engine", "memory", "directory"} : FromEngine(t)
  \/ Descend \/ PushFolder \/ PushPath \/ PushNext \/ Reorganize

LEMMA HeapCellsAlone ==
  ASSUME TypeOK, HeapOK, CellsAlone, ~Panic
  PROVE  DOMAIN folder' = {} \/ Fresh' \/ Linked'
<1>1. /\ UNCHANGED <<folder, path>> /\ pc # "walk" /\ pc' # "walk" /\ pc # "panicked"
  BY DEF CellsAlone, AddFile, ListFolder, FromEngine, Descend, Descending,
         PushFolder, PushPath, PushNext, Reorganize, Pushing, Pushed, heapVars
<1>2. CASE DOMAIN folder = {}
  BY <1>1, <1>2
<1>3. CASE Fresh /\ DOMAIN folder # {}
  <2>1. (\E f \in Files : AddFile(f))
        \/ \E t \in {"engine", "memory", "directory"} : FromEngine(t)
    BY <1>3, FreshStops DEF CellsAlone, Reorganize
  <2>2. UNCHANGED <<folder, path, folders, paths>> /\ (pc' = "push" => k' = 1)
    BY <2>1 DEF AddFile, FromEngine, heapVars, tableVars
  <2> QED BY <1>1, <1>3, <2>2, FreshKept, FreshStops
<1>4. CASE Linked
  BY <1>1, <1>4, LinkedKept
<1> QED
  BY <1>1, <1>2, <1>3, <1>4 DEF HeapOK

LEMMA HeapResolve ==
  ASSUME TypeOK, TypeOK', HeapOK, ResolvePaths \/ ResolveStep, ~Panic
  PROVE  DOMAIN folder' = {} \/ Fresh' \/ Linked'
<1>1. pc \in {"idle", "walk"}
  BY DEF ResolvePaths, ResolveStep, WalkSkip, WalkStart, WalkHop, WalkStop,
         ResolveReturns, Walking
<1>2. CASE DOMAIN folder = {}
  <2>1. folder' = folder \/ folder' = [folder EXCEPT ![folders[k]].children = Set(walked)]
    BY DEF ResolvePaths, ResolveStep, WalkSkip, WalkStart, WalkHop, WalkStop,
           ResolveReturns, heapVars
  <2> QED BY <1>2, <2>1
<1>3. CASE Fresh /\ DOMAIN folder # {}
  BY <1>3, FreshStops, FreshResolved DEF ResolveStep
<1>4. CASE Linked
  BY <1>4, LinkedResolvedAgain, LinkedWalkSkip, LinkedWalkStart, LinkedWalkHop,
     LinkedWalkStop DEF ResolveStep
<1> QED
  BY <1>1, <1>2, <1>3, <1>4 DEF HeapOK

\* Every step leaves the heap empty, unresolved or a forest.
LEMMA HeapStep ==
  ASSUME TypeOK, TypeOK', Invariant, Next
  PROVE  HeapOK'
<1> USE DEF Invariant
<1>1. CASE Panic
  BY <1>1 DEF Panic, heapVars, HeapOK, OneOwner, ChildrenAreLinked
<1>2. CASE ~Panic /\ (ReadGarbled \/ Write)
  <2>1. DOMAIN EmptyMap = {}
    BY DEF EmptyMap
  <2>2. DOMAIN folder' = {}
    BY <1>2, <2>1 DEF ReadGarbled, Write, heapVars, HeapOK
  <2> QED BY <2>2 DEF HeapOK, OneOwner, ChildrenAreLinked
<1>3. CASE ~Panic /\ ~(ReadGarbled \/ Write)
  <2> DEFINE Kept == DOMAIN folder' = {} \/ Fresh' \/ Linked'
  <2>1. Read => Kept
    BY FreshRead
  <2>2. ASSUME ResolvePaths \/ ResolveStep PROVE Kept
    BY <1>3, <2>2, HeapResolve
  <2>3. ASSUME CellsAlone PROVE Kept
    BY <1>3, <2>3, HeapCellsAlone
  <2>4. ASSUME MakeFolder \/ MakeFile PROVE Kept
    <3>1. pc = "add" /\ current \in DOMAIN folder
      BY <2>4 DEF MakeFolder, MakeFile, Descending, Landing, TypeOK
    <3>2. Linked
      BY <2>4, <3>1, FreshStops DEF HeapOK
    <3> QED BY <1>3, <2>4, <3>2, LinkedMakeFolder, LinkedMakeFile
  <2>5. Kept
    BY <1>3, <2>1, <2>2, <2>3, <2>4
    DEF Next, CallStep, ClientStep, AddStep, WriterStep, CellsAlone,
        ResolvePathsPanics, AddFilePanics, WritePanics
  <2>6. (OneOwner /\ ChildrenAreLinked)'
    <3>1. CASE DOMAIN folder' = {}
      BY <3>1 DEF OneOwner, ChildrenAreLinked
    <3>2. CASE Fresh'
      BY <3>2, FreshIsForest, PTL
    <3>3. CASE Linked'
      BY <3>3, LinkedIsForest, PTL
    <3> QED BY <2>5, <3>1, <3>2, <3>3
  <2>7. pc' \notin {"closed", "garbled"}
    BY <1>3
    DEF Next, CallStep, ClientStep, ResolveStep, AddStep, WriterStep, Read,
        ResolvePaths, ResolvePathsPanics, AddFile, ListFolder, FromEngine,
        WalkSkip, WalkStart, WalkHop, WalkStop, ResolveReturns, Walking,
        Descend, MakeFolder, MakeFile, AddFilePanics, Descending, Landing,
        PushFolder, PushPath, PushNext, Reorganize, WritePanics, Pushing, Pushed
  <2> QED BY <2>5, <2>6, <2>7 DEF HeapOK
<1> QED
  BY <1>1, <1>2, <1>3

-----------------------------------------------------------------------------
(* The tables and the writer. *)

\* No folder is in the table twice, whoever put it there.
LEMMA FoldersStep ==
  ASSUME TypeOK, FoldersOnce, MakersOK, Next
  PROVE  FoldersOnce'
<1>1. CASE UNCHANGED folders
  BY <1>1 DEF FoldersOnce
<1>2. CASE Read
  <2>1. /\ Len(disk.folders) \in Nat /\ guid \in Nat
        /\ folders' = [i \in 1..Len(disk.folders) |-> guid + i - 1]
    BY <1>2, LenProperties DEF Read, TypeOK, Image
  <2> QED BY <2>1 DEF FoldersOnce
<1>3. ASSUME NEW f, f \in DOMAIN folder, ListFolder(f) PROVE FoldersOnce'
  <2>1. folders' = Append(folders, f) /\ f \notin Cells(folders)
    BY <1>3 DEF ListFolder
  <2>2. folders \in Seq(DOMAIN folder) /\ Len(folders) \in Nat
    BY TableCells DEF TypeOK
  <2>3. /\ Len(folders') = Len(folders) + 1 /\ folders'[Len(folders) + 1] = f
        /\ \A i \in 1..Len(folders) : folders'[i] = folders[i] /\ folders'[i] # f
    BY <1>3, <2>1, <2>2, AppendElement DEF Cells
  <2> QED BY <2>2, <2>3 DEF FoldersOnce
<1>4. CASE Reorganize
  <2>1. folders' = folderMaker.table /\ MakerOK(folderMaker)
    BY <1>4 DEF Reorganize, MakersOK
  <2> QED BY <2>1, MakerInjective DEF FoldersOnce
<1>5. CASE Write
  BY <1>5, EmptySeq DEF Write, FoldersOnce
<1>6. UNCHANGED folders \/ Read \/ Reorganize \/ Write
      \/ \E f \in DOMAIN folder : ListFolder(f)
  <2>1. \A p \in DOMAIN folderLookup : folderLookup[p] \in DOMAIN folder
    BY DEF TypeOK, IsMap
  <2>2. CASE ResolveStep \/ AddStep
    BY <2>2
    DEF ResolveStep, AddStep, WalkSkip, WalkStart, WalkHop, WalkStop,
        ResolveReturns, Descend, MakeFolder, MakeFile, AddFilePanics, Panic, tableVars
  <2>3. CASE WriterStep
    BY <2>3 DEF WriterStep, PushFolder, PushPath, PushNext, WritePanics, Panic, tableVars
  <2>4. CASE ClientStep
    BY <2>1, <2>4
    DEF ClientStep, ReadGarbled, ResolvePaths, ResolvePathsPanics, AddFile,
        FromEngine, Panic, tableVars
  <2> QED BY <2>2, <2>3, <2>4 DEF Next, CallStep
<1> QED
  BY <1>1, <1>2, <1>3, <1>4, <1>5, <1>6

\* A new writer has nothing in its tables.
LEMMA NewMakers ==
  ASSUME folderMaker = NewMaker, pathMaker = NewMaker PROVE MakersOK
<1>1. MakerOK(NewMaker) /\ NewMaker.table = <<>> /\ Len(<<>>) = 0 /\ Cells(<<>>) = {}
  BY NewMakerOK, EmptySeq DEF NewMaker, Cells
<1>2. 0 <= MaxTable
  BY ConstantsOK
<1> QED
  BY <1>1, <1>2 DEF MakersOK, PushedFolders, PushedPaths

LEMMA MakersPushFolder ==
  ASSUME TypeOK, MakersOK, PushFolder, ~Panic
  PROVE  MakersOK'
<1>1. /\ k \in Nat /\ k >= 1 /\ k <= Len(folders) /\ pc = "push" /\ j = 0 /\ j' = 1
      /\ folderMaker' = PushCell(folderMaker, folders[k])
      /\ ~HasCell(folderMaker, folders[k]) /\ folders[k] \in DOMAIN folder
      /\ UNCHANGED <<folder, folders, k, pathMaker>>
  BY TableCells DEF PushFolder, Pushing, TypeOK, heapVars, tableVars, walkVars
<1>2. /\ MakerOK(folderMaker')
      /\ Cells(folderMaker'.table) = Cells(folderMaker.table) \cup {folders[k]}
  <2>1. IsMaker(folderMaker, DOMAIN folder) /\ MakerOK(folderMaker)
    BY DEF TypeOK, MakersOK
  <2> QED BY <1>1, <2>1, PushKeepsIndex
<1>3. PushedFolders'
  <2> SUFFICES ASSUME NEW f \in Cells(folderMaker'.table)
               PROVE  \E i \in 1..Len(folders) :
                        f = folders[i] /\ (i < k \/ (i = k /\ j' >= 1))
    BY <1>1 DEF PushedFolders, Cells
  <2>1. CASE f \in Cells(folderMaker.table)
    BY <1>1, <2>1 DEF MakersOK, PushedFolders
  <2>2. CASE f = folders[k]
    <3>1. k \in 1..Len(folders) /\ j' >= 1
      BY <1>1, TableCells
    <3> QED BY <2>2, <3>1
  <2> QED BY <1>2, <2>1, <2>2
<1>4. PushedPaths'
  <2> SUFFICES ASSUME NEW c \in Cells(pathMaker'.table)
               PROVE  \E i \in 1..Len(folders) :
                        /\ i <= k'
                        /\ IsSet(folder[folders[i]].children)
                        /\ \E n \in 1..Len(folder[folders[i]].children.cells) :
                             c = folder[folders[i]].children.cells[n] /\ (i < k' \/ n < j')
    BY <1>1 DEF PushedPaths, Cells
  <2>1. c \in Cells(pathMaker.table)
    BY <1>1
  <2>2. PICK i \in 1..Len(folders) :
            /\ i <= k
            /\ IsSet(folder[folders[i]].children)
            /\ \E n \in 1..Len(folder[folders[i]].children.cells) :
                 c = folder[folders[i]].children.cells[n] /\ (i < k \/ n < j)
    BY <1>1, <2>1 DEF MakersOK, PushedPaths
  <2>3. i < k
    BY <1>1, <2>2
  <2> QED BY <1>1, <2>2, <2>3
<1> QED
  BY <1>1, <1>2, <1>3, <1>4 DEF MakersOK

LEMMA MakersPushPath ==
  ASSUME TypeOK, MakersOK, PushPath, ~Panic
  PROVE  MakersOK'
<1>0. PICK cells : cells = folder[folders[k]].children.cells
  OBVIOUS
<1>1. /\ k \in Nat /\ k >= 1 /\ k <= Len(folders) /\ pc = "push"
      /\ j \in Nat /\ j >= 1 /\ j <= Len(cells) /\ j' = j + 1
      /\ pathMaker' = PushCell(pathMaker, cells[j])
      /\ ~HasCell(pathMaker, cells[j]) /\ folders[k] \in DOMAIN folder
      /\ IsSet(folder[folders[k]].children)
      /\ Len(pathMaker.table) < MaxTable
      /\ UNCHANGED <<folder, folders, k, folderMaker>>
  BY <1>0, TableCells DEF PushPath, Pushing, TypeOK, heapVars, tableVars, walkVars
<1>2. cells \in Seq(DOMAIN path) /\ Len(cells) \in Nat
  BY <1>0, <1>1, TableCells, LenProperties DEF IsSet, SearchFolder, ReferenceSetOf
<1>3. j \in 1..Len(cells) /\ cells[j] \in DOMAIN path
  BY <1>1, <1>2, ElementOfSeq
<1>4. /\ MakerOK(pathMaker')
      /\ Cells(pathMaker'.table) = Cells(pathMaker.table) \cup {cells[j]}
  <2>1. IsMaker(pathMaker, DOMAIN path) /\ MakerOK(pathMaker)
    BY DEF TypeOK, MakersOK
  <2> QED BY <1>1, <1>3, <2>1, PushKeepsIndex
<1>5. Len(pathMaker'.table) <= MaxTable
  <2>1. pathMaker.table \in Seq(DOMAIN path) /\ Len(pathMaker.table) \in Nat
    BY LenProperties DEF TypeOK, IsMaker
  <2>2. pathMaker'.table = Append(pathMaker.table, cells[j])
    BY <1>1 DEF PushCell
  <2>3. Len(pathMaker'.table) = Len(pathMaker.table) + 1
    BY <1>3, <2>1, <2>2, AppendElement
  <2> QED BY <1>1, <2>1, <2>3, ConstantsOK
<1>6. PushedFolders'
  <2> SUFFICES ASSUME NEW f \in Cells(folderMaker.table)
               PROVE  \E i \in 1..Len(folders) : f = folders[i] /\ (i < k \/ (i = k /\ j' >= 1))
    BY <1>1 DEF PushedFolders, Cells
  <2> QED BY <1>1 DEF MakersOK, PushedFolders
<1>7. PushedPaths'
  <2> SUFFICES ASSUME NEW c \in Cells(pathMaker'.table)
               PROVE  \E i \in 1..Len(folders) :
                        /\ i <= k
                        /\ IsSet(folder[folders[i]].children)
                        /\ \E n \in 1..Len(folder[folders[i]].children.cells) :
                             c = folder[folders[i]].children.cells[n] /\ (i < k \/ n < j')
    BY <1>1 DEF PushedPaths, Cells
  <2>1. CASE c \in Cells(pathMaker.table)
    <3>1. PICK i \in 1..Len(folders) :
            /\ i <= k
            /\ IsSet(folder[folders[i]].children)
            /\ \E n \in 1..Len(folder[folders[i]].children.cells) :
                 c = folder[folders[i]].children.cells[n] /\ (i < k \/ n < j)
      BY <1>1, <2>1 DEF MakersOK, PushedPaths
    <3>2. PICK n \in 1..Len(folder[folders[i]].children.cells) :
            c = folder[folders[i]].children.cells[n] /\ (i < k \/ n < j)
      BY <3>1
    <3>3. i < k \/ n < j'
      BY <1>1, <3>2
    <3> QED BY <3>1, <3>2, <3>3
  <2>2. CASE c = cells[j]
    <3>1. k \in 1..Len(folders) /\ k <= k /\ j < j'
      BY <1>1, TableCells
    <3> QED BY <1>0, <1>1, <1>3, <2>2, <3>1
  <2> QED BY <1>4, <2>1, <2>2
<1> QED
  BY <1>1, <1>4, <1>5, <1>6, <1>7 DEF MakersOK

LEMMA MakersPushNext ==
  ASSUME TypeOK, MakersOK, PushNext
  PROVE  MakersOK'
<1>1. /\ k \in Nat /\ k >= 1 /\ k <= Len(folders) /\ pc = "push" /\ k' = k + 1
      /\ UNCHANGED <<folder, folders, folderMaker, pathMaker>>
  BY TableCells DEF PushNext, Pushing, TypeOK, heapVars, tableVars
<1>2. PushedFolders'
  <2> SUFFICES ASSUME NEW f \in Cells(folderMaker.table)
               PROVE  \E i \in 1..Len(folders) : f = folders[i] /\ i < k'
    BY <1>1 DEF PushedFolders, Cells
  <2> QED BY <1>1 DEF MakersOK, PushedFolders
<1>3. PushedPaths'
  <2> SUFFICES ASSUME NEW c \in Cells(pathMaker'.table)
               PROVE  \E i \in 1..Len(folders) :
                        /\ i <= k'
                        /\ IsSet(folder[folders[i]].children)
                        /\ \E n \in 1..Len(folder[folders[i]].children.cells) :
                             c = folder[folders[i]].children.cells[n] /\ (i < k' \/ n < j')
    BY <1>1 DEF PushedPaths, Cells
  <2>1. c \in Cells(pathMaker.table)
    BY <1>1
  <2>2. PICK i \in 1..Len(folders) :
            /\ i <= k
            /\ IsSet(folder[folders[i]].children)
            /\ \E n \in 1..Len(folder[folders[i]].children.cells) :
                 c = folder[folders[i]].children.cells[n] /\ (i < k \/ n < j)
    BY <1>1, <2>1 DEF MakersOK, PushedPaths
  <2>3. i <= k' /\ i < k'
    BY <1>1, <2>2
  <2> QED BY <2>2, <2>3
<1> QED
  BY <1>1, <1>2, <1>3 DEF MakersOK

\* The writer's tables know the index of each of their cells and hold nothing
\* but the folders passed and their children.
LEMMA MakersStep ==
  ASSUME TypeOK, MakersOK, Next
  PROVE  MakersOK'
<1>1. CASE Panic
  <2>1. UNCHANGED <<folderMaker, pathMaker>> /\ pc' # "push"
    BY <1>1 DEF Panic, makerVars
  <2> QED BY <2>1 DEF MakersOK, MakerOK, Cells
<1>2. CASE ~Panic /\ WriterStep
  <2>1. Reorganize \/ Write => MakersOK'
    <3> SUFFICES ASSUME Reorganize \/ Write PROVE MakersOK'
      OBVIOUS
    <3>1. (folderMaker = NewMaker /\ pathMaker = NewMaker)'
      BY DEF Reorganize, Write
    <3> QED BY <3>1, NewMakers, PTL
  <2> QED
    BY <1>2, <2>1, MakersPushFolder, MakersPushPath, MakersPushNext
    DEF WriterStep, WritePanics
<1>3. CASE ~Panic /\ ~WriterStep
  <2>1. \/ /\ pc # "panicked"
           /\ pc # "push"
           /\ UNCHANGED <<folderMaker, pathMaker>>
        \/ \E t \in {"engine", "memory", "directory"} : FromEngine(t)
    <3>1. CASE ResolveStep
      BY <3>1
      DEF ResolveStep, WalkSkip, WalkStart, WalkHop, WalkStop, ResolveReturns,
          Walking, makerVars, Panic
    <3>2. CASE AddStep
      BY <1>3, <3>2
      DEF AddStep, Descend, MakeFolder, MakeFile, AddFilePanics, Descending,
          Landing, makerVars, Panic
    <3>3. CASE ClientStep
      BY <1>3, <3>3
      DEF ClientStep, Read, ReadGarbled, ResolvePaths, ResolvePathsPanics,
          AddFile, ListFolder, makerVars
    <3> QED BY <1>3, <3>1, <3>2, <3>3 DEF Next, CallStep
  <2>2. pc \notin {"push", "panicked"} =>
          folderMaker = NewMaker /\ pathMaker = NewMaker
    BY DEF TypeOK
  <2>3. ASSUME NEW t, FromEngine(t) PROVE folderMaker' = NewMaker /\ pathMaker' = NewMaker
    BY <2>3 DEF FromEngine
  <2>4. (folderMaker = NewMaker /\ pathMaker = NewMaker)'
    BY <2>1, <2>2, <2>3
  <2> QED BY <2>4, NewMakers, PTL
<1> QED
  BY <1>1, <1>2, <1>3

-----------------------------------------------------------------------------
(* The image. *)

\* A HashKey gives back the index of every entry of a table that fits, and no
\* such index is taken for the end of a list.
LEMMA IndexSurvives ==
  ASSUME NEW c, MakerOK(pathMaker), Len(pathMaker.table) \in Nat,
         Len(pathMaker.table) <= MaxTable, HasCell(pathMaker, c)
  PROVE  /\ HashKeyIndex(GetIndex(pathMaker, c)) = GetIndex(pathMaker, c)
         /\ GetIndex(pathMaker, c) # INVALID_INDEX
         /\ GetIndex(pathMaker, c) \in Nat
         /\ pathMaker.table[GetIndex(pathMaker, c) + 1] = c
<1>1. PICK i \in 1..Len(pathMaker.table) : c = pathMaker.table[i]
  BY DEF HasCell, MakerOK, Cells
<1>2. GetIndex(pathMaker, c) = i - 1 /\ i - 1 \in Nat /\ (i - 1) + 1 = i
  BY <1>1 DEF GetIndex, MakerOK
<1>3. MaxTable \in Nat /\ MaxTable <= INVALID_INDEX
  BY ConstantsOK
<1>4. ASSUME NEW n \in Nat, n < INVALID_INDEX PROVE HashKeyIndex(n) = n
  BY <1>4, SMT DEF HashKeyIndex, INVALID_INDEX
<1>5. INVALID_INDEX \in Nat
  BY SMT DEF INVALID_INDEX
<1>6. i - 1 < INVALID_INDEX
  BY <1>1, <1>2, <1>3, <1>5, SMT
<1> QED
  BY <1>1, <1>2, <1>4, <1>5, <1>6

\* What the writer writes is a forest because the heap is one and because the
\* maker gives no two cells one index.
LEMMA DiskWrite ==
  ASSUME TypeOK, Invariant, Write
  PROVE  DiskIsForest'
<1> DEFINE ft == folderMaker.table
           pt == pathMaker.table
           next(i) == disk'.paths[i].next
           first(f) == disk'.folders[f].first
<1>1. disk' = WrittenImage /\ Serialisable /\ Pushed
  BY DEF Write
<1>2. /\ MakerOK(folderMaker) /\ MakerOK(pathMaker)
      /\ Len(ft) \in Nat /\ Len(pt) \in Nat /\ Len(pt) <= MaxTable
      /\ \A i \in 1..Len(ft) : ft[i] \in DOMAIN folder /\ ft[i] \in Cells(ft)
      /\ \A i \in 1..Len(pt) : pt[i] \in DOMAIN path /\ pt[i] \in Cells(pt)
  <2>1. ft \in Seq(DOMAIN folder) /\ pt \in Seq(DOMAIN path)
    BY DEF TypeOK, IsMaker
  <2> QED BY <2>1, LenProperties, ElementOfSeq DEF Invariant, MakersOK, Cells
<1>3. /\ Len(disk'.folders) = Len(ft) /\ Len(disk'.paths) = Len(pt)
      /\ \A f \in 1..Len(ft) : disk'.folders[f] = WriteFolder(folder[ft[f]])
      /\ \A i \in 1..Len(pt) : disk'.paths[i] = WritePath(path[pt[i]])
  BY <1>1, <1>2 DEF WrittenImage
<1>4. CASE DOMAIN folder = {}
  <2>1. Len(folders) = 0
    BY <1>4, TableCells
  <2>2. Cells(ft) = {} /\ Cells(pt) = {}
    BY <1>1, <2>1 DEF Invariant, MakersOK, PushedFolders, PushedPaths, Pushed
  <2>3. Len(ft) = 0 /\ Len(pt) = 0
    BY <1>2, <2>2
  <2> QED BY <1>3, <2>3 DEF DiskIsForest, IsForest, INVALID_INDEX
<1>5. CASE DOMAIN folder # {}
  <2>1. Linked
    BY <1>1, <1>5, FreshStops DEF Invariant, HeapOK, Pushed
  <2>2. \A f \in DOMAIN folder :
          IsSet(folder[f].children) /\ Collected(f) = folder[f].children.cells
    BY <1>1, <2>1, AllSet DEF Pushed
  <2>3. ASSUME NEW i \in 1..Len(pt)
        PROVE  \/ next(i) = INVALID_INDEX
               \/ /\ next(i) \in Nat /\ next(i) # INVALID_INDEX
                  /\ IsCell(path[pt[i]].next)
                  /\ path[pt[i]].next = Resolved(pt[next(i) + 1])
    <3>1. next(i) = WritePath(path[pt[i]]).next /\ pt[i] \in DOMAIN path
      BY <1>2, <1>3
    <3>2. CASE IsNone(path[pt[i]].next)
      BY <3>1, <3>2 DEF WritePath
    <3>3. CASE ~IsNone(path[pt[i]].next)
      <4>1. IsCell(path[pt[i]].next) /\ HasCell(pathMaker, path[pt[i]].next.cell)
        BY <1>1, <1>2, <3>3 DEF Serialisable
      <4>2. path[pt[i]].next = Resolved(path[pt[i]].next.cell)
        BY <3>1, <4>1, NextType
      <4>3. next(i) = HashKeyIndex(GetIndex(pathMaker, path[pt[i]].next.cell))
        BY <3>1, <3>3 DEF WritePath
      <4> QED BY <1>2, <4>1, <4>2, <4>3, IndexSurvives
    <3> QED BY <3>2, <3>3
  <2>4. ASSUME NEW f \in 1..Len(ft)
        PROVE  \/ first(f) = INVALID_INDEX
               \/ /\ first(f) \in Nat /\ first(f) # INVALID_INDEX
                  /\ Collected(ft[f]) # <<>>
                  /\ Collected(ft[f])[1] = pt[first(f) + 1]
    <3>1. first(f) = WriteFolder(folder[ft[f]]).first
          /\ ft[f] \in DOMAIN folder /\ Collected(ft[f]) = folder[ft[f]].children.cells
      BY <1>2, <1>3, <2>2
    <3>2. CASE Collected(ft[f]) = <<>>
      BY <3>1, <3>2 DEF WriteFolder
    <3>3. CASE Collected(ft[f]) # <<>>
      <4>1. HasCell(pathMaker, Collected(ft[f])[1])
        BY <1>1, <1>2, <3>1, <3>3 DEF Serialisable
      <4>2. first(f) = GetIndex(pathMaker, Collected(ft[f])[1])
        BY <3>1, <3>3 DEF WriteFolder
      <4> QED BY <1>2, <3>3, <4>1, <4>2, IndexSurvives
    <3> QED BY <3>2, <3>3
  <2>5. ASSUME NEW m \in 1..Len(pt), NEW n \in 1..Len(pt),
               next(m) = next(n), next(m) # INVALID_INDEX
        PROVE  m = n
    <3>1. pt[m] = pt[n]
      BY SMTT(60), <1>2, <2>1, <2>3, <2>5 DEF Linked, NextInjective
    <3> QED BY <1>2, <3>1, MakerInjective
  <2>6. ASSUME NEW f \in 1..Len(ft), NEW g \in 1..Len(ft),
               first(f) = first(g), first(f) # INVALID_INDEX
        PROVE  f = g
    <3>1. Collected(ft[f]) # <<>> /\ Collected(ft[g]) # <<>>
          /\ Collected(ft[f])[1] = Collected(ft[g])[1]
      BY <2>4, <2>6
    <3>2. 1 \in 1..Len(Collected(ft[f])) /\ 1 \in 1..Len(Collected(ft[g]))
      BY <1>2, <3>1, CollectedType
    <3>3. ft[f] = ft[g]
      BY <1>2, <2>1, <3>1, <3>2 DEF Linked, CollectedOnce
    <3> QED BY <1>2, <3>3, MakerInjective
  <2>7. ASSUME NEW f \in 1..Len(ft), NEW n \in 1..Len(pt),
               first(f) = next(n), first(f) # INVALID_INDEX
        PROVE  FALSE
    <3>1. Collected(ft[f]) # <<>> /\ path[pt[n]].next = Resolved(Collected(ft[f])[1])
      BY <2>3, <2>4, <2>7
    <3> QED BY <1>2, <2>1, <3>1 DEF Linked, FirstsFollowNone
  <2>8. Len(pt) <= INVALID_INDEX
    BY <1>2, ConstantsOK DEF INVALID_INDEX
  <2> QED BY <1>3, <2>5, <2>6, <2>7, <2>8 DEF DiskIsForest, IsForest
<1> QED
  BY <1>4, <1>5

LEMMA DiskStep ==
  ASSUME TypeOK, Invariant, Next
  PROVE  DiskIsForest'
<1>1. CASE UNCHANGED disk
  BY <1>1 DEF Invariant, DiskIsForest
<1>2. CASE Write
  BY <1>2, DiskWrite
<1>3. UNCHANGED disk \/ Write
  <2>1. CASE ResolveStep
    BY <2>1
    DEF ResolveStep, WalkSkip, WalkStart, WalkHop, WalkStop, ResolveReturns, Panic
  <2>2. CASE AddStep
    BY <2>2 DEF AddStep, Descend, MakeFolder, MakeFile, AddFilePanics, Panic
  <2>3. CASE WriterStep
    BY <2>3
    DEF WriterStep, PushFolder, PushPath, PushNext, Reorganize, WritePanics, Panic
  <2>4. CASE ClientStep
    BY <2>4
    DEF ClientStep, Read, ReadGarbled, ResolvePaths, ResolvePathsPanics, AddFile,
        ListFolder, FromEngine, Panic
  <2> QED BY <2>1, <2>2, <2>3, <2>4 DEF Next, CallStep
<1> QED
  BY <1>1, <1>2, <1>3

-----------------------------------------------------------------------------
(* The theorems. *)

LEMMA InvariantInit == Init => Invariant
<1> SUFFICES ASSUME Init PROVE Invariant
  OBVIOUS
<1>1. DOMAIN EmptyMap = {} /\ Len(<<>>) = 0
  BY EmptySeq DEF EmptyMap
<1>2. DiskIsForest
  BY ConstantsOK DEF Init, DiskIsForest
<1>3. MakersOK
  BY NewMakers DEF Init
<1> QED
  BY <1>1, <1>2, <1>3
  DEF Init, Invariant, FoldersOnce, HeapOK, OneOwner, ChildrenAreLinked

LEMMA InvariantStutters ==
  TypeOK /\ Invariant /\ UNCHANGED vars => Invariant'
<1> SUFFICES ASSUME TypeOK, Invariant, UNCHANGED vars PROVE Invariant'
  OBVIOUS
<1> USE DEF vars, heapVars, tableVars, lookupVars, addVars, walkVars, makerVars
<1>1. DiskIsForest' /\ FoldersOnce'
  BY DEF Invariant, DiskIsForest, FoldersOnce
<1>2. MakersOK'
  <2>1. PushedFolders <=> PushedFolders'
    BY DEF PushedFolders, Cells
  <2>2. PushedPaths <=> PushedPaths'
    BY DEF PushedPaths, Cells
  <2>3. (MakerOK(folderMaker) /\ MakerOK(pathMaker))'
    BY DEF Invariant, MakersOK, MakerOK
  <2> QED
    BY <2>1, <2>2, <2>3 DEF Invariant, MakersOK
<1>3. Fresh => Fresh'
  BY DEF Fresh, FreshLinksApart, Cells
<1>4. Linked => Linked'
  BY DEF Linked, NoneUnresolved, NextInjective, FollowsLinks, EndsWithNone,
         CollectedOnce, FirstsFollowNone, BeginningsApart, WalkOK, Begins,
         Collected, LastOf
<1>5. OneOwner' /\ ChildrenAreLinked'
  BY DEF Invariant, HeapOK, OneOwner, ChildrenAreLinked
<1> QED
  BY <1>1, <1>2, <1>3, <1>4, <1>5 DEF Invariant, HeapOK

\* The invariant holds in every state of every behaviour.
THEOREM InvariantHolds == Spec => []Invariant
<1>1. Init => Invariant
  BY InvariantInit
<1>2. TypeOK /\ TypeOK' /\ Invariant /\ [Next]_vars => Invariant'
  BY HeapStep, FoldersStep, MakersStep, DiskStep, InvariantStutters DEF Invariant
<1>3. Spec => []TypeOK
  BY TypeCorrect
<1> QED
  BY <1>1, <1>2, <1>3, PTL DEF Spec

\* OneOwner: whatever the client calls, no path is ever a child twice.
THEOREM PathsHaveOneOwner == Spec => []OneOwner
<1>1. Invariant => OneOwner
  BY DEF Invariant, HeapOK
<1> QED
  BY <1>1, InvariantHolds, PTL

\* ChildrenAreLinked: vector and linked list of a folder never disagree.
THEOREM ListsFollowVectors == Spec => []ChildrenAreLinked
<1>1. Invariant => ChildrenAreLinked
  BY DEF Invariant, HeapOK
<1> QED
  BY <1>1, InvariantHolds, PTL

\* DiskIsForest: whatever is written, its links end and share no entry.
THEOREM WrittenForest == Spec => []DiskIsForest
<1>1. Invariant => DiskIsForest
  BY DEF Invariant
<1> QED
  BY <1>1, InvariantHolds, PTL

\* from_engine pushes nothing the writer has already.
LEMMA PushMeetsNewCells ==
  ASSUME TypeOK, Invariant PROVE NoOverlappingGuids
<1> SUFFICES ASSUME TypeOK, Invariant, Pushing
             PROVE  /\ j = 0 => ~HasCell(folderMaker, folders[k])
                    /\ (IsSet(folder[folders[k]].children)
                        /\ j \in 1..Len(folder[folders[k]].children.cells))
                          => ~HasCell(pathMaker, folder[folders[k]].children.cells[j])
  BY DEF NoOverlappingGuids
<1>1. /\ k \in 1..Len(folders) /\ pc = "push" /\ MakersOK /\ FoldersOnce /\ OneOwner
      /\ \A i \in 1..Len(folders) : folders[i] \in DOMAIN folder
  BY TableCells DEF Pushing, TypeOK, Invariant, HeapOK
<1>2. ASSUME j = 0, HasCell(folderMaker, folders[k]) PROVE FALSE
  <2>1. PICK i \in 1..Len(folders) : folders[k] = folders[i] /\ i < k
    BY <1>1, <1>2 DEF MakersOK, MakerOK, HasCell, PushedFolders
  <2> QED BY <1>1, <2>1 DEF FoldersOnce
<1>3. ASSUME IsSet(folder[folders[k]].children),
             j \in 1..Len(folder[folders[k]].children.cells),
             HasCell(pathMaker, folder[folders[k]].children.cells[j])
      PROVE  FALSE
  <2>1. PICK i \in 1..Len(folders) :
          /\ i <= k
          /\ IsSet(folder[folders[i]].children)
          /\ \E n \in 1..Len(folder[folders[i]].children.cells) :
               /\ folder[folders[k]].children.cells[j]
                    = folder[folders[i]].children.cells[n]
               /\ i < k \/ n < j
    BY <1>1, <1>3 DEF MakersOK, MakerOK, HasCell, PushedPaths
  <2>2. PICK n \in 1..Len(folder[folders[i]].children.cells) :
          /\ folder[folders[k]].children.cells[j]
               = folder[folders[i]].children.cells[n]
          /\ i < k \/ n < j
    BY <2>1
  <2>3. folders[k] = folders[i] /\ j = n
    BY <1>1, <1>3, <2>1, <2>2 DEF OneOwner
  <2>4. k = i
    BY <1>1, <2>3 DEF FoldersOnce
  <2> QED BY <1>1, <1>3, <2>2, <2>3, <2>4
<1> QED BY <1>2, <1>3

\* NoOverlappingGuids: TableMaker::push never meets a cell it has.
THEOREM PushNeverOverlaps == Spec => []NoOverlappingGuids
<1>1. TypeOK /\ Invariant => NoOverlappingGuids
  BY PushMeetsNewCells
<1> QED
  BY <1>1, TypeCorrect, InvariantHolds, PTL

-----------------------------------------------------------------------------
(* Full paths. *)

LEMMA PathOf ==
  ASSUME NEW p \in FullPaths
  PROVE  /\ Len(p) \in Nat /\ (p # Blank => Len(p) >= 1)
         /\ Parent(p) \in FullPaths
         /\ p # Blank => Len(Parent(p)) = Len(p) - 1
         /\ \A i \in 1..(Len(p) - 1) : Parent(p)[i] = p[i]
<1> DEFINE C == Names \cup {Slash}
<1>1. /\ p \in Seq(C) /\ Len(p) \in Nat /\ \A i \in 1..Len(p) : p[i] \in C
      /\ p # Blank => Len(p) # 0
  BY LenProperties, ElementOfSeq, EmptySeq, Zenon DEF FullPaths, Blank
<1>2. \A i \in 1..(Len(p) - 1) : p[i] \in C
  BY <1>1
<1> HIDE DEF C
<1>3. /\ Len(SubSeq(p, 1, Len(p) - 1)) = IF 1 <= Len(p) - 1 THEN Len(p) - 1 ELSE 0
      /\ \A i \in 1..(Len(p) - 1) : SubSeq(p, 1, Len(p) - 1)[i] = p[1 + i - 1]
  <2>1. 1 \in Int /\ Len(p) - 1 \in Int /\ (Len(p) - 1) - 1 + 1 = Len(p) - 1
    BY <1>1
  <2> QED BY <1>2, <2>1, SubSeqProperties
<1>4. \A i \in 1..(Len(p) - 1) : Parent(p)[i] = p[i]
  <2> SUFFICES ASSUME NEW i \in 1..(Len(p) - 1) PROVE Parent(p)[i] = p[i]
    OBVIOUS
  <2>1. 1 + i - 1 = i
    BY <1>1
  <2> QED BY <1>3, <2>1, Zenon DEF Parent
<1>5. p # Blank => Len(Parent(p)) = Len(p) - 1
  <2>1. Len(Parent(p)) = IF 1 <= Len(p) - 1 THEN Len(p) - 1 ELSE 0
    BY <1>3, Zenon DEF Parent
  <2> QED BY <1>1, <2>1
<1>6. p # Blank => Len(p) >= 1
  BY <1>1
<1> QED
  BY <1>1, <1>4, <1>5, <1>6, ParentType

\* A path is its parent and the name of its last component.
LEMMA PathIsParentAndName ==
  ASSUME NEW p \in FullPaths, NEW q \in FullPaths, p # Blank, q # Blank,
         Parent(p) = Parent(q), LastOf(p) = LastOf(q)
  PROVE  p = q
<1>1. Len(p) = Len(q) /\ Len(p) \in Nat /\ Len(p) >= 1
  BY PathOf
<1>2. ASSUME NEW i \in 1..Len(p) PROVE p[i] = q[i]
  <2>1. CASE i = Len(p)
    BY <1>1, <2>1 DEF LastOf
  <2>2. CASE i # Len(p)
    <3>1. i \in 1..(Len(p) - 1) /\ i \in 1..(Len(q) - 1)
      BY <1>1, <2>2
    <3>2. p[i] = Parent(p)[i] /\ q[i] = Parent(q)[i]
      BY <3>1, PathOf
    <3> QED BY <3>2
  <2> QED BY <2>1, <2>2
<1> QED
  BY <1>1, <1>2, SeqEqual DEF FullPaths

\* The first n components of a path.
LEMMA PrefixOf ==
  ASSUME NEW p \in FullPaths, NEW n \in 1..Len(p)
  PROVE  /\ SubSeq(p, 1, n) \in FullPaths /\ SubSeq(p, 1, n) # Blank
         /\ Len(SubSeq(p, 1, n)) = n
         /\ SubSeq(p, 1, n)[1] = p[1]
         /\ LastOf(SubSeq(p, 1, n)) = p[n]
         /\ Parent(SubSeq(p, 1, n)) = SubSeq(p, 1, n - 1)
         /\ n = 1 => SubSeq(p, 1, n - 1) = Blank
         /\ n = Len(p) => SubSeq(p, 1, n) = p
<1> DEFINE C == Names \cup {Slash}
           s == SubSeq(p, 1, n)
<1>1. p \in Seq(C) /\ Len(p) \in Nat /\ (\A i \in 1..Len(p) : p[i] \in C) /\ n \in Nat /\ n >= 1
  BY LenProperties, ElementOfSeq DEF FullPaths
<1>2. s \in FullPaths
  BY PrefixType
<1>3. \A i \in 1..n : p[i] \in C
  BY <1>1
<1> HIDE DEF C
<1>4. Len(s) = n /\ \A i \in 1..n : s[i] = p[i]
  <2>1. 1 \in Int /\ n \in Int /\ n - 1 + 1 = n /\ 1 <= n
    BY <1>1
  <2>2. Len(s) = n - 1 + 1 /\ \A i \in 1..(n - 1 + 1) : s[i] = p[1 + i - 1]
    BY <1>3, <2>1, SubSeqProperties
  <2>3. \A i \in 1..n : 1 + i - 1 = i
    BY <1>1
  <2> QED BY <2>1, <2>2, <2>3
<1>5. s # Blank
  BY <1>1, <1>4, EmptySeq DEF Blank
<1>6. s[1] = p[1] /\ LastOf(s) = p[n]
  BY <1>1, <1>4 DEF LastOf
<1>7. Parent(s) = SubSeq(p, 1, n - 1)
  <2>1. CASE n = 1
    <3>1. SubSeq(s, 1, 0) = <<>> /\ SubSeq(p, 1, 0) = <<>>
      BY SubSeqEmpty
    <3> QED BY <1>4, <2>1, <3>1 DEF Parent
  <2>2. CASE n # 1
    <3>1. /\ n - 1 \in 1..Len(p) /\ n - 1 \in Int /\ 1 <= n - 1
          /\ \A i \in 1..(n - 1) : p[i] \in C /\ s[i] \in C /\ s[i] = p[i]
      BY <1>1, <1>4, <2>2
    <3>2. /\ SubSeq(p, 1, n - 1) \in Seq(C) /\ SubSeq(s, 1, n - 1) \in Seq(C)
          /\ Len(SubSeq(p, 1, n - 1)) = (n - 1) - 1 + 1
          /\ Len(SubSeq(s, 1, n - 1)) = (n - 1) - 1 + 1
          /\ \A i \in 1..((n - 1) - 1 + 1) : SubSeq(p, 1, n - 1)[i] = p[1 + i - 1]
          /\ \A i \in 1..((n - 1) - 1 + 1) : SubSeq(s, 1, n - 1)[i] = s[1 + i - 1]
      <4> HIDE DEF s
      <4> QED BY <3>1, SubSeqProperties
    <3>3. ASSUME NEW i \in 1..Len(SubSeq(s, 1, n - 1))
          PROVE  SubSeq(s, 1, n - 1)[i] = SubSeq(p, 1, n - 1)[i]
      <4> HIDE DEF s
      <4>1. i \in 1..((n - 1) - 1 + 1) /\ i \in 1..(n - 1) /\ 1 + i - 1 = i
        BY <1>1, <3>2, <3>3
      <4> QED BY <3>1, <3>2, <4>1, Zenon
    <3>4. SubSeq(s, 1, n - 1) = SubSeq(p, 1, n - 1)
      <4> HIDE DEF s
      <4> QED BY <3>2, <3>3, SeqEqual
    <3> QED BY <1>4, <3>4 DEF Parent
  <2> QED BY <2>1, <2>2
<1>8. n = 1 => SubSeq(p, 1, n - 1) = Blank
  BY SubSeqEmpty DEF Blank
<1>9. n = Len(p) => s = p
  BY <1>1, SubSeqFull
<1> QED
  BY <1>2, <1>4, <1>5, <1>6, <1>7, <1>8, <1>9

\* What no folder's path is, no folder's children have as parent.
LEMMA PrefixInjective ==
  \A p, q \in FullPaths \ {Blank} : Prefix(p) = Prefix(q) => p = q
BY DEF Prefix

LEMMA RootPath == Root \in FullPaths /\ Root # Blank /\ Len(Root) = 1 /\ Root[1] = Slash
BY DEF Root, FullPaths, Blank

-----------------------------------------------------------------------------
(* Lists. *)

\* A set of a sequence's positions that is not empty has a first one.
LEMMA FirstOf ==
  ASSUME NEW T, T \subseteq Nat, T # {}
  PROVE  \E n \in T : \A m \in T : ~(m < n)
<1> DEFINE R == OpToRel(<, Nat)
<1>1. IsWellFoundedOn(R, Nat)
  BY NatLessThanWellFounded
<1>2. PICK n \in T : \A m \in T : ~(<<m, n>> \in R)
  <2> HIDE DEF R
  <2> QED BY <1>1, WFMin
<1>3. \A m \in T : ~(m < n)
  BY <1>2 DEF OpToRel
<1> QED
  BY <1>3

\* What holds of the first element and goes from each to the next holds of all.
LEMMA AlongSequence ==
  ASSUME NEW P, NEW s \in Seq(P), NEW C,
         s # <<>> => s[1] \in C,
         \A i \in 1..(Len(s) - 1) : s[i] \in C => s[i + 1] \in C
  PROVE  Cells(s) \subseteq C
<1> DEFINE T == {n \in Nat : n \in 1..Len(s) /\ s[n] \notin C}
<1>1. Len(s) \in Nat
  BY LenProperties
<1>2. SUFFICES ASSUME T # {} PROVE FALSE
  BY <1>1 DEF Cells
<1>3. PICK n \in T : \A m \in T : ~(m < n)
  <2>1. T \subseteq Nat
    OBVIOUS
  <2> HIDE DEF T
  <2> QED BY <1>2, <2>1, FirstOf
<1>4. n # 1
  <2>1. s # <<>>
    BY <1>1, <1>3, EmptySeq
  <2> QED BY <1>3, <2>1
<1>5. n - 1 \in Nat /\ n - 1 \in 1..(Len(s) - 1) /\ n - 1 \in 1..Len(s) /\ n - 1 < n
      /\ (n - 1) + 1 = n
  BY <1>1, <1>3, <1>4
<1>6. s[n - 1] \in C
  BY <1>3, <1>5
<1>7. s[(n - 1) + 1] \in C
  BY <1>5, <1>6
<1> QED
  BY <1>3, <1>5, <1>7

\* The sequence a list is walked in has all of it.
LEMMA ListIsSequence ==
  ASSUME NEW P, NEW s \in Seq(P), s # <<>>, NEW C, NEW after,
         \A i \in 1..(Len(s) - 1) : after[s[i]] = {s[i + 1]},
         after[LastOf(s)] = {}
  PROVE  IsList(C, s[1], after) <=> C = Cells(s)
<1>1. /\ Len(s) \in Nat /\ Len(s) >= 1 /\ s[1] \in Cells(s)
      /\ \A i \in 1..Len(s) : s[i] \in Cells(s)
  BY LenProperties, EmptySeq, CellsOfSeq
<1>2. ASSUME NEW D, s[1] \in D, \A c \in D : after[c] \subseteq D
      PROVE  Cells(s) \subseteq D
  <2>1. \A i \in 1..(Len(s) - 1) : s[i] \in D => s[i + 1] \in D
    BY <1>2
  <2> QED BY <1>2, <2>1, AlongSequence
<1>3. ASSUME NEW D, D \subseteq Cells(s), NEW c \in Cells(s)
      PROVE  after[c] \subseteq Cells(s)
  <2>1. PICK i \in 1..Len(s) : c = s[i]
    BY <1>3 DEF Cells
  <2>2. CASE i = Len(s)
    BY <2>1, <2>2 DEF LastOf
  <2>3. CASE i # Len(s)
    <3>1. i \in 1..(Len(s) - 1) /\ i + 1 \in 1..Len(s)
      BY <1>1, <2>1, <2>3
    <3> QED BY <1>1, <2>1, <3>1
  <2> QED BY <2>2, <2>3
<1>4. ASSUME IsList(C, s[1], after) PROVE C = Cells(s)
  <2>1. s[1] \in C /\ \A c \in C : after[c] \subseteq C
    BY <1>4 DEF IsList
  <2>2. Cells(s) \in SUBSET C
    BY <1>2, <2>1
  <2>3. \A c \in Cells(s) : after[c] \subseteq Cells(s)
    BY <1>3
  <2> QED BY <1>1, <1>4, <2>2, <2>3 DEF IsList
<1>5. ASSUME C = Cells(s) PROVE IsList(C, s[1], after)
  <2>1. \A c \in C : after[c] \subseteq C
    BY <1>3, <1>5
  <2>2. ASSUME NEW D \in SUBSET C, s[1] \in D, \A c \in D : after[c] \subseteq D
        PROVE  D = C
    BY <1>2, <1>5, <2>2
  <2> QED BY <1>1, <1>5, <2>1, <2>2 DEF IsList
<1> QED
  BY <1>4, <1>5

-----------------------------------------------------------------------------
(* What the invariants say of an engine. *)

\* The parts of the tree, and the types of what they are about.
LEMMA TreeParts ==
  ASSUME TypeOK, TreeOK, IsOpen
  PROVE  /\ FoldersNamed /\ PathsNamed /\ PathsInFolders /\ EntriesMatchFolders
         /\ RefsInBounds /\ ListsAreComplete /\ NoFolderIsEmpty
         /\ \A f \in DOMAIN folder :
              /\ folder[f].fullPath \in FullPaths \ {Blank}
              /\ folder[f].fullPath \in DOMAIN folderLookup
              /\ folderLookup[folder[f].fullPath] = f
         /\ \A c \in DOMAIN path : path[c].fullPath \in FullPaths
         /\ \A c \in Entries :
              /\ c \in DOMAIN path /\ path[c].fullPath # Blank
              /\ path[c].fullPath \in DOMAIN pathLookup
              /\ pathLookup[path[c].fullPath] = c
         /\ \A p \in DOMAIN folderLookup :
              /\ p \in FullPaths \ {Blank}
              /\ folderLookup[p] \in DOMAIN folder
              /\ folder[folderLookup[p]].fullPath = p
         /\ \A p \in DOMAIN pathLookup :
              /\ p \in FullPaths \ {Blank}
              /\ pathLookup[p] \in Entries
              /\ path[pathLookup[p]].fullPath = p
<1>1. /\ FoldersNamed /\ PathsNamed /\ PathsInFolders /\ EntriesMatchFolders
      /\ RefsInBounds /\ ListsAreComplete /\ NoFolderIsEmpty
  BY DEF TreeOK, IsOpen
<1>2. /\ \A f \in DOMAIN folder : folder[f].fullPath \in FullPaths
      /\ \A c \in DOMAIN path : path[c].fullPath \in FullPaths
  BY TableCells DEF SearchFolder, SearchPath
<1>3. \A c \in Entries : c \in DOMAIN path /\ path[c].fullPath # Blank
  BY DEF Entries
<1> QED
  BY <1>1, <1>2, <1>3 DEF FoldersNamed, PathsNamed

\* A resolved engine is a forest of cells.
LEMMA CarefulLinked ==
  ASSUME TypeOK, Invariant, TreeOK, IsOpen, pc = "walk" \/ Settled
  PROVE  Linked
<1>1. folderLookup[Root] \in DOMAIN folder
  BY TreeParts DEF FoldersNamed
<1>2. ~Fresh
  BY <1>1 DEF Fresh, Settled
<1> QED
  BY <1>1, <1>2 DEF Invariant, HeapOK, IsOpen

\* What leaves the cells and the lookups alone leaves the tree alone.
LEMMA TreeKept ==
  ASSUME TypeOK, TreeOK, IsOpen,
         UNCHANGED <<folder, path, folderLookup, pathLookup>>,
         \/ UNCHANGED paths
         \/ Settled /\ NoneUnresolved,
         pc' = "walk" => pc = "walk" \/ Settled,
         NoFolderIsEmpty'
  PROVE  TreeOK'
<1> USE TreeParts
<1>1. Entries' = Entries /\ \A f : ChildrenOf(f)' = ChildrenOf(f)
  BY DEF Entries, ChildrenOf
<1>2. FoldersNamed' /\ PathsNamed' /\ PathsInFolders' /\ EntriesMatchFolders'
  <2>1. FoldersNamed'
    BY DEF FoldersNamed
  <2>2. PathsNamed'
    BY <1>1 DEF PathsNamed
  <2>3. PathsInFolders'
    BY <1>1 DEF PathsInFolders
  <2>4. EntriesMatchFolders'
    BY <1>1 DEF EntriesMatchFolders
  <2> QED BY <2>1, <2>2, <2>3, <2>4
<1>3. Settled' <=> Settled
  BY DEF Settled
<1>4. RefsInBounds'
  BY <1>3 DEF RefsInBounds, NoneUnresolved
<1>5. ListsAreComplete'
  <2>1. CASE UNCHANGED paths
    <3>1. After' = After
      BY <2>1 DEF After
    <3> QED BY <1>1, <2>1, <3>1 DEF ListsAreComplete, IsList
  <2>2. CASE Settled
    BY <1>1, <2>2 DEF ListsAreComplete, Settled
  <2> QED BY <2>1, <2>2
<1> QED
  BY <1>2, <1>4, <1>5 DEF TreeOK

\* Nothing is empty outside of add_file.
LEMMA NotEmptyKept ==
  ASSUME TypeOK, TreeOK, IsOpen, pc # "add", UNCHANGED <<folder, path>>
  PROVE  NoFolderIsEmpty'
<1>1. \A f \in DOMAIN folder : ChildrenOf(f) # {}
  BY TreeParts DEF NoFolderIsEmpty
<1>2. \A f : ChildrenOf(f)' = ChildrenOf(f)
  BY DEF Entries, ChildrenOf
<1> QED
  BY <1>1, <1>2 DEF NoFolderIsEmpty

-----------------------------------------------------------------------------
(* resolve. *)

\* The first loop: every index is that of a folder or an entry there is.
LEMMA CarefulResolvePaths ==
  ASSUME TypeOK, Invariant, CarefulInvariant, ResolvePaths
  PROVE  CarefulInvariant'
<1>1. /\ pc = "idle" /\ pc' = "walk" /\ IsOpen /\ IsOpen' /\ TreeOK
      /\ UNCHANGED <<folder, folders, paths, folderLookup, pathLookup, disk>>
      /\ DOMAIN path' = DOMAIN path
      /\ \A c \in Cells(paths) : Resolvable(path[c])
      /\ \A c \in DOMAIN path :
           path'[c] = IF c \in Cells(paths) THEN ResolvePath(path[c]) ELSE path[c]
  BY DEF ResolvePaths, CarefulInvariant, IsOpen, tableVars, lookupVars
<1>2. /\ FoldersNamed /\ PathsNamed /\ PathsInFolders /\ EntriesMatchFolders
      /\ RefsInBounds /\ ListsAreComplete /\ NoFolderIsEmpty
  BY <1>1, TreeParts
<1>3. Fresh \/ (Linked /\ Settled)
  <2>1. folderLookup[Root] \in DOMAIN folder
    BY <1>1, TreeParts DEF FoldersNamed
  <2>2. Fresh \/ Linked
    BY <1>1, <2>1 DEF Invariant, HeapOK
  <2>3. Linked => Settled
    BY <1>1 DEF Linked, WalkOK, Settled
  <2> QED BY <2>2, <2>3
<1>4. ASSUME NEW c \in DOMAIN path
      PROVE  /\ path'[c].fullPath = path[c].fullPath
             /\ ~IsUnresolved(path'[c].folder)
             /\ \/ path'[c].folder = path[c].folder
                \/ /\ IsUnresolved(path[c].folder)
                   /\ path'[c].folder = Resolved(folderLookup[path[c].fullPath])
             /\ ~IsUnresolved(path'[c].next)
             /\ \/ path'[c].next = path[c].next
                \/ /\ IsUnresolved(path[c].next) /\ InBounds(paths, path[c].next.index)
                   /\ path'[c].next = Resolved(CellAt(paths, path[c].next.index))
  <2>1. path[c] \in SearchPath(DOMAIN folder, DOMAIN path)
    BY TableCells
  <2>2. CASE Fresh
    <3>1. path'[c] = ResolvePath(path[c]) /\ Resolvable(path[c])
      BY <1>1, <2>2 DEF Fresh
    <3>2. /\ path'[c].fullPath = path[c].fullPath
          /\ path'[c].folder = IF IsUnresolved(path[c].folder)
                                 THEN Resolved(folderLookup[path[c].fullPath])
                                 ELSE path[c].folder
          /\ path'[c].next = Resolve(path[c].next, paths)
      BY <2>1, <3>1 DEF ResolvePath, SearchPath
    <3> QED BY <3>1, <3>2, Kinds DEF Resolve, Resolvable
  <2>3. CASE Linked /\ Settled
    <3>1. ~IsUnresolved(path[c].next) /\ ~IsUnresolved(path[c].folder)
      BY <1>2, <2>3 DEF Linked, NoneUnresolved, RefsInBounds
    <3>2. path'[c] = path[c] \/ path'[c] = ResolvePath(path[c])
      BY <1>1
    <3>3. ResolvePath(path[c]).fullPath = path[c].fullPath
          /\ ResolvePath(path[c]).folder = path[c].folder
          /\ ResolvePath(path[c]).next = path[c].next
      BY <2>1, <3>1 DEF ResolvePath, SearchPath, Resolve
    <3> QED BY <3>1, <3>2, <3>3
  <2> QED BY <1>3, <2>2, <2>3
<1>5. Entries' = Entries
  BY <1>1, <1>4 DEF Entries
<1>6. \A f \in DOMAIN folder : ChildrenOf(f)' = ChildrenOf(f)
  <2>1. \A c \in Entries : path'[c].fullPath = path[c].fullPath
    BY <1>4 DEF Entries
  <2> QED BY <1>1, <1>5, <2>1 DEF ChildrenOf
<1>7. After' = After
  <2>1. ASSUME NEW c \in DOMAIN path, NEW d \in DOMAIN path
        PROVE  \/ path'[c].next = Resolved(d)
               \/ /\ IsUnresolved(path'[c].next)
                  /\ InBounds(paths, path'[c].next.index)
                  /\ d = CellAt(paths, path'[c].next.index)
               <=>
               \/ path[c].next = Resolved(d)
               \/ /\ IsUnresolved(path[c].next)
                  /\ InBounds(paths, path[c].next.index)
                  /\ d = CellAt(paths, path[c].next.index)
    BY <1>4, Kinds
  <2> QED BY <1>1, <2>1 DEF After
<1>8. FoldersNamed' /\ PathsNamed' /\ PathsInFolders'
  <2>1. \A c \in Entries : path'[c].fullPath = path[c].fullPath
    BY <1>4 DEF Entries
  <2>2. FoldersNamed'
    BY <1>1, <1>2 DEF FoldersNamed
  <2>3. PathsNamed'
    BY <1>1, <1>2, <1>5, <2>1 DEF PathsNamed
  <2>4. PathsInFolders'
    BY <1>1, <1>2, <1>5, <1>6, <2>1 DEF PathsInFolders
  <2> QED BY <2>2, <2>3, <2>4
<1>9. EntriesMatchFolders'
  <2>1. ASSUME NEW c \in Entries
        PROVE  IF IsNone(path'[c].folder)
                 THEN /\ path'[c].fullPath \notin DOMAIN folderLookup
                      /\ HasExtension(path'[c].fullPath)
                 ELSE /\ path'[c].fullPath \in DOMAIN folderLookup
                      /\ IsCell(path'[c].folder) =>
                           path'[c].folder.cell = folderLookup[path'[c].fullPath]
    <3>1. c \in DOMAIN path
      BY DEF Entries
    <3>2. IsUnresolved(path[c].folder) => ~IsNone(path[c].folder)
      BY DEF IsUnresolved, IsNone
    <3>3. \A d : Resolved(d).cell = d /\ ~IsNone(Resolved(d))
      BY DEF Resolved, IsNone
    <3> QED BY <1>2, <1>4, <3>1, <3>2, <3>3 DEF EntriesMatchFolders
  <2>2. ASSUME NEW c \in DOMAIN path \ Entries PROVE IsNone(path'[c].folder)
    <3>1. IsUnresolved(path[c].folder) => ~IsNone(path[c].folder)
      BY DEF IsUnresolved, IsNone
    <3> QED BY <1>2, <1>4, <3>1 DEF EntriesMatchFolders
  <2> QED BY <1>1, <1>2, <1>5, <2>1, <2>2 DEF EntriesMatchFolders
<1>10. RefsInBounds'
  BY <1>1, <1>4 DEF RefsInBounds
<1>11. ListsAreComplete' /\ NoFolderIsEmpty'
  BY <1>1, <1>2, <1>6, <1>7 DEF ListsAreComplete, NoFolderIsEmpty, IsList
<1> QED
  BY <1>1, <1>8, <1>9, <1>10, <1>11
  DEF CarefulInvariant, TreeOK, AddOK, PushOK, NoPanic

LEMMA CarefulNoResolvePathsPanic ==
  ASSUME TypeOK, Invariant, CarefulInvariant
  PROVE  ~ResolvePathsPanics
<1> SUFFICES ASSUME pc = "idle", NEW c \in Cells(paths) PROVE Resolvable(path[c])
  BY DEF ResolvePathsPanics
<1>1. /\ EntriesMatchFolders /\ RefsInBounds /\ c \in DOMAIN path
  BY TreeParts, TableCells DEF CarefulInvariant, IsOpen
<1>2. IsUnresolved(path[c].folder) => ~IsNone(path[c].folder)
  BY DEF IsUnresolved, IsNone
<1> QED
  BY <1>1, <1>2 DEF EntriesMatchFolders, RefsInBounds, Resolvable

\* The second loop up to the end of a list: only the call moves on.
LEMMA CarefulWalk ==
  ASSUME TypeOK, Invariant, CarefulInvariant, WalkSkip \/ WalkStart \/ WalkHop \/ ResolveReturns
  PROVE  CarefulInvariant'
<1>1. /\ pc = "walk" /\ IsOpen /\ TreeOK /\ Linked
  <2>1. pc = "walk"
    BY DEF WalkSkip, WalkStart, WalkHop, ResolveReturns, Walking
  <2> QED BY <2>1, CarefulLinked DEF IsOpen, CarefulInvariant
<1>2. ~Panic
  <2>1. CASE WalkStart
    <3>1. folders[k] \in DOMAIN folder /\ ~IsSet(folder[folders[k]].children)
      BY <2>1, TableCells DEF WalkStart, Walking, TypeOK
    <3>2. InBounds(paths, folder[folders[k]].children.index)
      BY <1>1, <3>1, TreeParts DEF ListsAreComplete
    <3> QED BY <1>1, <2>1, <3>2 DEF WalkStart, Panic
  <2>2. CASE WalkHop
    <3>1. LastOf(walked) \in DOMAIN path
      BY <2>2, CellsOfSeq DEF WalkHop, LastOf, TypeOK
    <3>2. IsCell(path[LastOf(walked)].next)
      BY <1>1, <2>2, <3>1, NextType DEF WalkHop, Linked, NoneUnresolved
    <3> QED BY <1>1, <2>2, <3>2 DEF WalkHop, Panic
  <2>3. CASE WalkSkip \/ ResolveReturns
    BY <1>1, <2>3 DEF WalkSkip, ResolveReturns, Panic
  <2> QED BY <2>1, <2>2, <2>3
<1>3. /\ UNCHANGED <<folder, path, paths, folderLookup, pathLookup, disk>>
      /\ pc' \in {"walk", "idle"}
  BY <1>1, <1>2
  DEF WalkSkip, WalkStart, WalkHop, ResolveReturns, heapVars, tableVars, lookupVars
<1>4. TreeOK'
  BY <1>1, <1>3, NotEmptyKept, TreeKept
<1> QED
  BY <1>3, <1>4 DEF CarefulInvariant, AddOK, PushOK, NoPanic

\* The end of a list: the vector has just the folder's children.
LEMMA CarefulWalkStop ==
  ASSUME TypeOK, Invariant, CarefulInvariant, WalkStop
  PROVE  CarefulInvariant'
<1>0. PICK f0 \in DOMAIN folder : f0 = folders[k]
  BY TableCells DEF WalkStop, Walking, TypeOK
<1>1. /\ pc = "walk" /\ pc' = "walk" /\ IsOpen /\ TreeOK
      /\ walked # <<>> /\ walked \in Seq(DOMAIN path)
      /\ IsNone(path[LastOf(walked)].next)
      /\ folder' = [folder EXCEPT ![f0].children = Set(walked)]
      /\ DOMAIN folder' = DOMAIN folder
      /\ UNCHANGED <<path, folders, paths, folderLookup, pathLookup, disk>>
  BY <1>0
  DEF WalkStop, Walking, TypeOK, tableVars, lookupVars, IsOpen, CarefulInvariant
<1>2. /\ Linked
      /\ FoldersNamed /\ PathsNamed /\ PathsInFolders /\ EntriesMatchFolders
      /\ RefsInBounds /\ ListsAreComplete /\ NoFolderIsEmpty
  BY <1>1, TreeParts, CarefulLinked
<1>3. /\ ~IsSet(folder[f0].children) /\ Collected(f0) = walked
      /\ walked[1] = CellAt(paths, folder[f0].children.index)
  BY <1>0, <1>1, <1>2 DEF Linked, WalkOK, Begins, Collected, WalkStop, Walking
<1>4. IsList(ChildrenOf(f0), walked[1], After)
  BY <1>2, <1>3 DEF ListsAreComplete
<1>5. Cells(walked) = ChildrenOf(f0)
  <2>1. ASSUME NEW c \in DOMAIN path
        PROVE  After[c] = {d \in DOMAIN path : path[c].next = Resolved(d)}
    <3>1. ~IsUnresolved(path[c].next)
      BY <1>2 DEF Linked, NoneUnresolved
    <3> QED BY <3>1 DEF After
  <2>2. Len(walked) \in Nat /\ Len(walked) >= 1
        /\ \A i \in 1..Len(walked) : walked[i] \in DOMAIN path
    BY <1>1, LenProperties, EmptySeq, ElementOfSeq
  <2>3. After[LastOf(walked)] = {}
    <3>1. LastOf(walked) \in DOMAIN path
      BY <2>2 DEF LastOf
    <3>2. path[LastOf(walked)].next = None
      BY <1>1, <3>1, NextType
    <3> QED BY <2>1, <3>1, <3>2, Kinds
  <2>4. ASSUME NEW i \in 1..(Len(walked) - 1)
        PROVE  After[walked[i]] = {walked[i + 1]}
    <3>1. i \in 1..Len(walked) /\ i + 1 \in 1..Len(walked)
      BY <2>2
    <3>2. path[walked[i]].next = Resolved(walked[i + 1])
      BY <1>2, <1>3 DEF Linked, FollowsLinks
    <3> QED BY <2>1, <2>2, <3>1, <3>2, Kinds
  <2> QED BY <1>1, <1>4, <2>3, <2>4, ListIsSequence
<1>6. /\ folder'[f0].children = Set(walked)
      /\ IsSet(folder'[f0].children) /\ folder'[f0].children.cells = walked
      /\ \A f \in DOMAIN folder :
           /\ f # f0 => folder'[f] = folder[f]
           /\ folder'[f].fullPath = folder[f].fullPath
  BY <1>1, TableCells DEF SearchFolder, Set, IsSet
<1>7. Entries' = Entries /\ After' = After
      /\ \A f \in DOMAIN folder : ChildrenOf(f)' = ChildrenOf(f)
  BY <1>1, <1>6 DEF Entries, ChildrenOf, After
<1>8. FoldersNamed' /\ PathsNamed' /\ PathsInFolders' /\ EntriesMatchFolders'
  <2>1. FoldersNamed'
    <3>1. {folder'[f].fullPath : f \in DOMAIN folder'}
            = {folder[f].fullPath : f \in DOMAIN folder}
      BY <1>1, <1>6
    <3> QED BY <1>1, <1>2, <1>6, <3>1 DEF FoldersNamed
  <2>2. PathsNamed'
    BY <1>1, <1>2, <1>7 DEF PathsNamed
  <2>3. PathsInFolders'
    BY <1>1, <1>2, <1>7 DEF PathsInFolders
  <2>4. EntriesMatchFolders'
    BY <1>1, <1>2, <1>7 DEF EntriesMatchFolders
  <2> QED BY <2>1, <2>2, <2>3, <2>4
<1>9. RefsInBounds'
  BY <1>1, <1>2 DEF RefsInBounds
<1>10. ListsAreComplete' /\ NoFolderIsEmpty'
  <2>1. \A f \in DOMAIN folder :
          IF IsSet(folder'[f].children)
            THEN Cells(folder'[f].children.cells) = ChildrenOf(f)
            ELSE /\ InBounds(paths, folder'[f].children.index)
                 /\ IsList(ChildrenOf(f), CellAt(paths, folder'[f].children.index),
                           After)
    BY <1>2, <1>5, <1>6 DEF ListsAreComplete
  <2> QED BY <1>1, <1>2, <1>7, <2>1 DEF ListsAreComplete, NoFolderIsEmpty
<1> QED
  BY <1>1, <1>8, <1>9, <1>10 DEF CarefulInvariant, TreeOK, AddOK, PushOK, NoPanic

-----------------------------------------------------------------------------
(* The calls that leave cells and lookups alone. *)

LEMMA CarefulListFolder ==
  ASSUME TypeOK, Invariant, CarefulInvariant, NEW f, ListFolder(f)
  PROVE  CarefulInvariant'
<1>1. /\ pc = "idle" /\ pc' = "idle" /\ IsOpen /\ TreeOK
      /\ UNCHANGED <<folder, path, paths, folderLookup, pathLookup, disk>>
  BY DEF ListFolder, heapVars, lookupVars, IsOpen, CarefulInvariant
<1>2. TreeOK'
  BY <1>1, NotEmptyKept, TreeKept
<1> QED
  BY <1>1, <1>2 DEF CarefulInvariant, AddOK, PushOK, NoPanic

LEMMA CarefulFromEngine ==
  ASSUME TypeOK, Invariant, CarefulInvariant, Liberties = {}, NEW t, FromEngine(t)
  PROVE  CarefulInvariant'
<1>1. /\ pc = "idle" /\ pc' = "push" /\ IsOpen /\ TreeOK
      /\ Settled /\ (t # "engine" => Listed) /\ target' = t /\ k' = 1 /\ j' = 0
      /\ UNCHANGED <<folder, path, folders, paths, folderLookup, pathLookup, disk>>
  BY DEF FromEngine, heapVars, tableVars, lookupVars, IsOpen, CarefulInvariant, Careful
<1>2. TreeOK'
  BY <1>1, NotEmptyKept, TreeKept
<1>3. Settled' /\ (target' # "engine" => Listed')
  BY <1>1 DEF Settled, Listed, Cells
<1> QED
  BY <1>1, <1>2, <1>3 DEF CarefulInvariant, AddOK, PushOK, NoPanic

LEMMA CarefulAddFile ==
  ASSUME TypeOK, Invariant, CarefulInvariant, Liberties = {}, NEW f, AddFile(f)
  PROVE  CarefulInvariant'
<1>1. pc = "idle" /\ IsOpen /\ TreeOK
      /\ Settled /\ WellNamed(f) /\ f \notin DOMAIN pathLookup
  BY DEF AddFile, IsOpen, CarefulInvariant, Careful
<1>2. Root \in DOMAIN folderLookup
  BY <1>1, TreeParts DEF FoldersNamed
<1>3. /\ pc' = "add" /\ file' = f /\ depth' = 1 /\ current' = folderLookup[Root]
      /\ UNCHANGED <<folder, path, folders, paths, folderLookup, pathLookup, disk>>
  BY <1>2 DEF AddFile, heapVars, tableVars, lookupVars
<1>4. TreeOK'
  BY <1>1, <1>3, NotEmptyKept, TreeKept
<1>5. Settled' /\ WellNamed(file')
  BY <1>1, <1>3 DEF Settled, WellNamed
<1>6. folder[folderLookup[Root]].fullPath = Root
  BY <1>1, <1>2, TreeParts
<1> QED
  BY <1>1, <1>3, <1>4, <1>5, <1>6 DEF CarefulInvariant, AddOK, PushOK, NoPanic

LEMMA CarefulNeverGarbled ==
  CarefulInvariant => ~ReadGarbled
BY DEF CarefulInvariant, IsTree, ReadGarbled

-----------------------------------------------------------------------------
(* The writer. *)

\* What a writer's step leaves alone.
LEMMA CarefulPushing ==
  ASSUME TypeOK, Invariant, CarefulInvariant, pc = "push",
         UNCHANGED <<folder, path, folders, paths, folderLookup, pathLookup, disk>>,
         pc' = "push", target' = target
  PROVE  /\ TreeOK' /\ AddOK' /\ NoPanic' /\ IsTree(disk)'
         /\ Settled' /\ (target' # "engine" => Listed')
<1>1. TreeOK /\ IsOpen /\ Settled /\ (target # "engine" => Listed)
  BY DEF CarefulInvariant, PushOK, IsOpen
<1>2. TreeOK'
  BY <1>1, NotEmptyKept, TreeKept
<1> QED
  BY <1>1, <1>2
  DEF CarefulInvariant, AddOK, NoPanic, Settled, Listed, Cells

LEMMA CarefulPushFolder ==
  ASSUME TypeOK, Invariant, CarefulInvariant, PushFolder
  PROVE  CarefulInvariant'
<1>1. /\ Pushing /\ j = 0 /\ pc = "push" /\ k <= Len(folders) /\ k \in Nat /\ k >= 1
      /\ folders[k] \in DOMAIN folder
  BY TableCells DEF PushFolder, Pushing, TypeOK
<1>2. ~HasCell(folderMaker, folders[k]) /\ IsSet(folder[folders[k]].children)
  <2>1. NoOverlappingGuids
    BY PushMeetsNewCells
  <2>2. Settled
    BY <1>1 DEF CarefulInvariant, PushOK
  <2> QED BY <1>1, <2>1, <2>2 DEF NoOverlappingGuids, Settled
<1>3. /\ folderMaker' = PushCell(folderMaker, folders[k]) /\ j' = 1
      /\ UNCHANGED <<folder, path, folders, paths, folderLookup, pathLookup, disk,
                     pc, k, pathMaker, target>>
  BY <1>2 DEF PushFolder, heapVars, tableVars, lookupVars, walkVars
<1>4. DOMAIN folderMaker'.index = DOMAIN folderMaker.index \cup {folders[k]}
  BY <1>3 DEF PushCell, Insert
<1>5. PushOK
  BY DEF CarefulInvariant
<1>6. \A i \in 1..Len(folders) :
        i < k \/ (i = k /\ j' >= 1) => HasCell(folderMaker', folders[i])
  BY <1>1, <1>4, <1>5 DEF PushOK, HasCell
<1>7. \A i \in 1..Len(folders) :
        \A n \in 1..Len(folder[folders[i]].children.cells) :
          i < k \/ (i = k /\ n < j') =>
            HasCell(pathMaker, folder[folders[i]].children.cells[n])
  BY <1>1, <1>3, <1>5 DEF PushOK
<1> QED
  BY <1>1, <1>3, <1>6, <1>7, CarefulPushing DEF CarefulInvariant, PushOK

LEMMA CarefulPushPath ==
  ASSUME TypeOK, Invariant, CarefulInvariant, PushPath
  PROVE  CarefulInvariant'
<1>0. PICK cells : cells = folder[folders[k]].children.cells
  OBVIOUS
<1>1. /\ Pushing /\ pc = "push" /\ k <= Len(folders) /\ k \in Nat /\ k >= 1
      /\ j \in Nat /\ j >= 1 /\ j <= Len(cells)
      /\ IsSet(folder[folders[k]].children)
  BY <1>0 DEF PushPath, Pushing, TypeOK
<1>2. j \in 1..Len(cells)
  <2>1. folder[folders[k]] \in SearchFolder(DOMAIN path)
    BY <1>1, TableCells
  <2>2. cells \in Seq(DOMAIN path)
    BY <1>0, <1>1, <2>1 DEF IsSet, SearchFolder, ReferenceSetOf
  <2> QED BY <1>1, <2>2, LenProperties
<1>3. ~HasCell(pathMaker, cells[j])
  BY <1>0, <1>1, <1>2, PushMeetsNewCells DEF NoOverlappingGuids
<1>4. /\ pathMaker' = PushCell(pathMaker, cells[j]) /\ j' = j + 1
      /\ UNCHANGED <<folder, path, folders, paths, folderLookup, pathLookup, disk,
                     pc, k, folderMaker, target>>
  BY <1>0, <1>3 DEF PushPath, heapVars, tableVars, lookupVars, walkVars
<1>5. DOMAIN pathMaker'.index = DOMAIN pathMaker.index \cup {cells[j]}
  BY <1>4 DEF PushCell, Insert
<1>6. PushOK
  BY DEF CarefulInvariant
<1>7. \A i \in 1..Len(folders) :
        i < k \/ (i = k /\ j' >= 1) => HasCell(folderMaker, folders[i])
  BY <1>1, <1>4, <1>6 DEF PushOK
<1>8. ASSUME NEW i \in 1..Len(folders),
             NEW n \in 1..Len(folder[folders[i]].children.cells),
             i < k \/ (i = k /\ n < j')
      PROVE  HasCell(pathMaker', folder[folders[i]].children.cells[n])
  <2>1. CASE i = k /\ n = j
    BY <1>0, <1>5, <2>1 DEF HasCell
  <2>2. CASE ~(i = k /\ n = j)
    <3>1. i < k \/ (i = k /\ n < j)
      BY <1>1, <1>4, <1>8, <2>2
    <3> QED BY <1>1, <1>5, <1>6, <3>1 DEF PushOK, HasCell
  <2> QED BY <2>1, <2>2
<1> QED
  BY <1>1, <1>4, <1>7, <1>8, CarefulPushing DEF CarefulInvariant, PushOK

LEMMA CarefulPushNext ==
  ASSUME TypeOK, Invariant, CarefulInvariant, PushNext
  PROVE  CarefulInvariant'
<1>1. /\ pc = "push" /\ k \in Nat /\ j \in Nat /\ j >= 1
      /\ j > Len(folder[folders[k]].children.cells)
      /\ IsSet(folder[folders[k]].children) /\ k <= Len(folders) /\ k >= 1
      /\ j' = 0 /\ k' = k + 1
      /\ UNCHANGED <<folder, path, folders, paths, folderLookup, pathLookup, disk,
                     pc, folderMaker, pathMaker, target>>
  BY DEF PushNext, Pushing, TypeOK, heapVars, tableVars, lookupVars
<1>2. Len(folder[folders[k]].children.cells) \in Nat
  <2>1. folder[folders[k]] \in SearchFolder(DOMAIN path)
    BY <1>1, TableCells
  <2>2. folder[folders[k]].children.cells \in Seq(DOMAIN path)
    BY <1>1, <2>1 DEF IsSet, SearchFolder, ReferenceSetOf
  <2> QED BY <2>2, LenProperties
<1>3. PushOK
  BY DEF CarefulInvariant
<1>4. \A i \in 1..Len(folders) :
        i < k' \/ (i = k' /\ j' >= 1) => HasCell(folderMaker, folders[i])
  BY <1>1, <1>3 DEF PushOK
<1>5. ASSUME NEW i \in 1..Len(folders),
             NEW n \in 1..Len(folder[folders[i]].children.cells),
             i < k' \/ (i = k' /\ n < j')
      PROVE  HasCell(pathMaker, folder[folders[i]].children.cells[n])
  <2>1. i < k \/ (i = k /\ n < j)
    BY <1>1, <1>2, <1>5
  <2> QED BY <1>1, <1>3, <2>1 DEF PushOK
<1> QED
  BY <1>1, <1>4, <1>5, CarefulPushing DEF CarefulInvariant, PushOK

\* A writer that has passed every folder has all there is.
LEMMA CarefulWriter ==
  ASSUME TypeOK, Invariant, CarefulInvariant, Pushed, target # "engine"
  PROVE  /\ Cells(folderMaker.table) = DOMAIN folder
         /\ Cells(pathMaker.table) = Entries
         /\ Serialisable
<1>1. /\ pc = "push" /\ k > Len(folders) /\ k \in Nat /\ Len(folders) \in Nat
      /\ TreeOK /\ IsOpen /\ PushOK /\ Settled /\ Listed
  BY TableCells DEF Pushed, CarefulInvariant, PushOK, IsOpen, TypeOK
<1>2. /\ \A i \in 1..Len(folders) :
           /\ folders[i] \in DOMAIN folder
           /\ HasCell(folderMaker, folders[i])
           /\ \A n \in 1..Len(folder[folders[i]].children.cells) :
                HasCell(pathMaker, folder[folders[i]].children.cells[n])
  BY <1>1, TableCells DEF PushOK
<1>3. /\ DOMAIN folderMaker.index = Cells(folderMaker.table)
      /\ DOMAIN pathMaker.index = Cells(pathMaker.table)
      /\ PushedFolders /\ PushedPaths
  BY <1>1 DEF Invariant, MakersOK, MakerOK
<1>4. ASSUME NEW f \in DOMAIN folder
      PROVE  /\ \E i \in 1..Len(folders) : f = folders[i]
             /\ IsSet(folder[f].children)
             /\ folder[f].children.cells \in Seq(DOMAIN path)
             /\ Cells(folder[f].children.cells) = ChildrenOf(f)
             /\ \A n \in 1..Len(folder[f].children.cells) :
                  HasCell(pathMaker, folder[f].children.cells[n])
  <2>1. f = folderLookup[folder[f].fullPath]
        /\ folder[f].fullPath \in DOMAIN folderLookup
    BY <1>1, TreeParts
  <2>2. f \in Cells(folders)
    BY <1>1, <2>1 DEF Listed
  <2>3. PICK i \in 1..Len(folders) : f = folders[i]
    BY <2>2 DEF Cells
  <2>4. IsSet(folder[f].children)
    BY <1>1 DEF Settled
  <2>5. Cells(folder[f].children.cells) = ChildrenOf(f)
    BY <1>1, <2>4, TreeParts DEF ListsAreComplete
  <2>6. folder[f].children.cells \in Seq(DOMAIN path)
    BY <2>4, TableCells DEF IsSet, SearchFolder, ReferenceSetOf
  <2> QED BY <1>2, <2>3, <2>4, <2>5, <2>6
<1>5. Cells(folderMaker.table) = DOMAIN folder
  <2>1. \A f \in DOMAIN folder : f \in Cells(folderMaker.table)
    BY <1>2, <1>3, <1>4 DEF HasCell
  <2>2. \A f \in Cells(folderMaker.table) : f \in DOMAIN folder
    BY <1>2, <1>3 DEF PushedFolders
  <2> QED BY <2>1, <2>2
<1>6. ASSUME NEW c \in Cells(pathMaker.table)
      PROVE  \E f \in DOMAIN folder : \E n \in 1..Len(folder[f].children.cells) :
               c = folder[f].children.cells[n]
  <2>1. PICK i \in 1..Len(folders) :
           \E n \in 1..Len(folder[folders[i]].children.cells) :
             c = folder[folders[i]].children.cells[n]
    BY <1>3 DEF PushedPaths
  <2> QED BY <1>2, <2>1
<1>7. ASSUME NEW c \in Entries PROVE HasCell(pathMaker, c)
  <2>1. PICK f \in DOMAIN folder : c \in ChildrenOf(f)
    BY <1>1, TreeParts DEF PathsInFolders
  <2> QED BY <1>4, <2>1 DEF Cells
<1>8. Cells(pathMaker.table) = Entries
  <2>1. ASSUME NEW c \in Cells(pathMaker.table) PROVE c \in Entries
    <3>1. PICK f \in DOMAIN folder : c \in Cells(folder[f].children.cells)
      BY <1>6 DEF Cells
    <3> QED BY <1>4, <3>1 DEF ChildrenOf
  <2> QED BY <1>3, <1>7, <2>1 DEF HasCell
<1>9. Serialisable
  <2>1. ASSUME NEW f \in Cells(folderMaker.table)
        PROVE  /\ IsSet(folder[f].children)
               /\ folder[f].children.cells # <<>> =>
                    HasCell(pathMaker, folder[f].children.cells[1])
    <3>1. folder[f].children.cells # <<>> => 1 \in 1..Len(folder[f].children.cells)
      BY <1>4, <1>5, LenProperties, EmptySeq
    <3> QED BY <1>4, <1>5, <3>1
  <2>2. ASSUME NEW c \in Cells(pathMaker.table)
        PROVE  \/ IsNone(path[c].next)
               \/ IsCell(path[c].next) /\ HasCell(pathMaker, path[c].next.cell)
    <3>0. PICK f \in DOMAIN folder : \E n \in 1..Len(folder[f].children.cells) :
                                       c = folder[f].children.cells[n]
      BY <1>6
    <3>1. PICK n \in 1..Len(folder[f].children.cells) : c = folder[f].children.cells[n]
      BY <3>0
    <3>2. path[c].next = IF n < Len(folder[f].children.cells)
                           THEN Resolved(folder[f].children.cells[n + 1]) ELSE None
      BY <1>4, <3>1 DEF Invariant, HeapOK, ChildrenAreLinked
    <3>3. Len(folder[f].children.cells) \in Nat
      BY <1>4, LenProperties
    <3>4. n < Len(folder[f].children.cells) =>
            HasCell(pathMaker, folder[f].children.cells[n + 1])
      BY <1>4, <3>3
    <3>5. \A d : Resolved(d).cell = d
      BY DEF Resolved
    <3> QED BY <3>2, <3>4, <3>5, Kinds
  <2>3. ASSUME NEW p \in DOMAIN folderLookup PROVE HasCell(folderMaker, folderLookup[p])
    BY <1>1, <1>3, <1>5, TreeParts DEF HasCell
  <2>4. ASSUME NEW p \in DOMAIN pathLookup PROVE HasCell(pathMaker, pathLookup[p])
    BY <1>1, <1>7, TreeParts
  <2> QED BY <2>1, <2>2, <2>3, <2>4 DEF Serialisable
<1> QED
  BY <1>5, <1>8, <1>9

LEMMA CarefulNoWritePanic ==
  ASSUME TypeOK, Invariant, CarefulInvariant PROVE ~WritePanics
BY CarefulWriter DEF WritePanics

LEMMA CarefulReorganize ==
  ASSUME TypeOK, Invariant, CarefulInvariant, Reorganize
  PROVE  CarefulInvariant'
<1>1. /\ pc = "push" /\ pc' = "idle" /\ IsOpen /\ TreeOK /\ Settled
      /\ UNCHANGED <<folder, path, folderLookup, pathLookup, disk>>
  BY DEF Reorganize, Pushed, heapVars, lookupVars, IsOpen, CarefulInvariant, PushOK
<1>2. NoneUnresolved
  BY <1>1, CarefulLinked DEF Linked
<1>3. TreeOK'
  BY <1>1, <1>2, NotEmptyKept, TreeKept
<1> QED
  BY <1>1, <1>3 DEF CarefulInvariant, AddOK, PushOK, NoPanic

-----------------------------------------------------------------------------
(* add_file. *)

\* Where add_file is: the folder's path and the next component lead to the
\* prefix, which is neither the root nor, unless it is all, a file's.
LEMMA AddingAt ==
  ASSUME TypeOK, Invariant, CarefulInvariant, pc = "add",
         NEW prefix, prefix = SubSeq(file, 1, depth),
         NEW cells, cells = folder[current].children.cells
  PROVE  /\ IsOpen /\ TreeOK /\ Linked /\ Settled
         /\ file \in FullPaths /\ depth \in 1..Len(file) /\ Len(file) \in Nat
         /\ current \in DOMAIN folder
         /\ IsSet(folder[current].children) /\ cells \in Seq(DOMAIN path)
         /\ Cells(cells) = ChildrenOf(current)
         /\ prefix \in FullPaths \ {Blank} /\ prefix # Root /\ Len(prefix) = depth
         /\ Parent(prefix) = Prefix(folder[current].fullPath)
         /\ Parent(prefix) # prefix
         /\ LastOf(prefix) = file[depth]
         /\ depth < Len(file) => ~HasExtension(prefix)
         /\ depth = Len(file) => prefix = file /\ HasExtension(prefix)
         /\ file \notin DOMAIN pathLookup /\ WellNamed(file) /\ file # Root
<1>1. /\ IsOpen /\ TreeOK /\ AddOK /\ Settled
      /\ file \in FullPaths /\ depth \in 1..Len(file) /\ Len(file) \in Nat
      /\ current \in DOMAIN folder /\ WellNamed(file) /\ file \notin DOMAIN pathLookup
  BY LenProperties DEF CarefulInvariant, IsOpen, AddOK, TypeOK, FullPaths
<1>2. Linked
  BY <1>1, CarefulLinked
<1>3. /\ IsSet(folder[current].children) /\ cells \in Seq(DOMAIN path)
      /\ Cells(cells) = ChildrenOf(current)
  <2>1. IsSet(folder[current].children)
    BY <1>1 DEF Settled
  <2>2. folder[current] \in SearchFolder(DOMAIN path)
    BY <1>1, TableCells
  <2>3. cells \in Seq(DOMAIN path)
    BY <2>1, <2>2 DEF IsSet, SearchFolder, ReferenceSetOf
  <2>4. ListsAreComplete
    BY <1>1, TreeParts
  <2> QED BY <1>1, <2>1, <2>3, <2>4 DEF ListsAreComplete
<1>4. /\ prefix \in FullPaths \ {Blank} /\ Len(prefix) = depth
      /\ prefix[1] = file[1] /\ LastOf(prefix) = file[depth]
      /\ Parent(prefix) = SubSeq(file, 1, depth - 1)
      /\ depth = 1 => SubSeq(file, 1, depth - 1) = Blank
      /\ depth = Len(file) => prefix = file
  BY <1>1, PrefixOf
<1>5. file[1] # Slash
  BY <1>1 DEF WellNamed
<1>6. prefix # Root /\ file # Root
  BY <1>4, <1>5, RootPath
<1>7. Parent(prefix) = Prefix(folder[current].fullPath)
  <2>1. CASE depth = 1
    BY <1>1, <1>4, <2>1 DEF AddOK, Prefix
  <2>2. CASE depth # 1
    <3>1. folder[current].fullPath = SubSeq(file, 1, depth - 1)
      BY <1>1, <2>2 DEF AddOK
    <3>2. depth - 1 \in 1..Len(file)
      BY <1>1, <2>2
    <3>3. SubSeq(file, 1, depth - 1)[1] = file[1]
      BY <1>1, <3>2, PrefixOf
    <3>4. SubSeq(file, 1, depth - 1) # Root
      BY <1>5, <3>3, RootPath
    <3> QED BY <1>4, <3>1, <3>4 DEF Prefix
  <2> QED BY <2>1, <2>2
<1>8. Parent(prefix) # prefix
  <2>1. Len(Parent(prefix)) = depth - 1 /\ Len(prefix) = depth
    BY <1>4, PathOf
  <2>2. depth - 1 # depth
    BY <1>1
  <2> QED BY <2>1, <2>2, Zenon
<1>9. depth < Len(file) => ~HasExtension(prefix)
  <2>1. depth < Len(file) => depth \in 1..(Len(file) - 1)
    BY <1>1
  <2> QED BY <1>1, <1>4, <2>1 DEF WellNamed, HasExtension
<1>10. depth = Len(file) => HasExtension(prefix)
  BY <1>1, <1>4 DEF WellNamed
<1> QED
  BY <1>1, <1>2, <1>3, <1>4, <1>6, <1>7, <1>8, <1>9, <1>10

\* The child of that name is the entry of the prefix.
LEMMA ChildOfThatName ==
  ASSUME TypeOK, Invariant, CarefulInvariant, pc = "add",
         NEW prefix, prefix = SubSeq(file, 1, depth)
  PROVE  /\ \A c \in ChildrenNamed(current, file[depth]) :
              c \in ChildrenOf(current) /\ path[c].fullPath = prefix
         /\ ChildrenNamed(current, file[depth]) = {} => prefix \notin DOMAIN pathLookup
<1>0. PICK cells : cells = folder[current].children.cells
  OBVIOUS
<1>1. /\ IsOpen /\ TreeOK /\ cells \in Seq(DOMAIN path) /\ Len(cells) \in Nat
      /\ Cells(cells) = ChildrenOf(current)
      /\ prefix \in FullPaths \ {Blank}
      /\ Parent(prefix) = Prefix(folder[current].fullPath)
      /\ LastOf(prefix) = file[depth]
  BY <1>0, AddingAt, LenProperties
<1> DEFINE named(i) == path[cells[i]].fullPath # Blank
                         /\ LastOf(path[cells[i]].fullPath) = file[depth]
<1>2. ChildrenNamed(current, file[depth])
        = {cells[i] : i \in {i \in 1..Len(cells) :
                               named(i) /\ \A h \in 1..(i - 1) : ~named(h)}}
  BY <1>0 DEF ChildrenNamed
<1>3. \A i \in 1..Len(cells) : cells[i] \in ChildrenOf(current) /\ cells[i] \in DOMAIN path
  BY <1>1, CellsOfSeq, ElementOfSeq
<1>4. ASSUME NEW i \in 1..Len(cells), named(i)
      PROVE  path[cells[i]].fullPath = prefix
  <2>1. Parent(path[cells[i]].fullPath) = Parent(prefix)
    BY <1>1, <1>3 DEF ChildrenOf
  <2>2. path[cells[i]].fullPath \in FullPaths
    BY <1>1, <1>3, TreeParts
  <2> QED BY <1>1, <1>4, <2>1, <2>2, PathIsParentAndName
<1>5. ASSUME prefix \in DOMAIN pathLookup
      PROVE  ChildrenNamed(current, file[depth]) # {}
  <2> DEFINE T == {i \in 1..Len(cells) : named(i)}
  <2>1. PICK c \in Entries : path[c].fullPath = prefix
    BY <1>1, <1>5, TreeParts
  <2>2. c \in Cells(cells)
    BY <1>1, <2>1 DEF ChildrenOf
  <2>3. PICK i \in 1..Len(cells) : c = cells[i]
    BY <2>2 DEF Cells
  <2>4. named(i)
    BY <1>1, <2>1, <2>3
  <2>5. T \subseteq Nat /\ T # {}
    BY <1>1, <2>4
  <2>6. PICK n \in T : \A m \in T : ~(m < n)
    <3> HIDE DEF T
    <3> QED BY <2>5, FirstOf
  <2> HIDE DEF named
  <2>7. ASSUME NEW h \in 1..(n - 1) PROVE ~named(h)
    <3>1. h \in 1..Len(cells) /\ h < n
      BY <1>1, <2>6
    <3> QED BY <2>6, <3>1
  <2> QED BY <1>2, <2>6, <2>7
<1> QED
  BY <1>2, <1>3, <1>4, <1>5

\* The fields of the cells after a child is pushed.
LEMMA PushedChildFields ==
  ASSUME TypeOK, NEW heap, NEW f \in DOMAIN folder, NEW c0,
         DOMAIN folder \subseteq DOMAIN heap, \A g \in DOMAIN folder : heap[g] = folder[g],
         NEW result, result = PushChild(heap, f, c0)
  PROVE  /\ DOMAIN result = DOMAIN heap
         /\ result[f].children = Set(Append(folder[f].children.cells, c0))
         /\ result[f].fullPath = folder[f].fullPath
         /\ \A g \in DOMAIN heap : g # f => result[g] = heap[g]
<1>1. result = [heap EXCEPT ![f].children = Set(Append(folder[f].children.cells, c0))]
  BY DEF PushChild
<1>2. heap[f] \in SearchFolder(DOMAIN path) /\ f \in DOMAIN heap
  BY TableCells
<1> QED
  BY <1>1, <1>2 DEF SearchFolder

LEMMA LinkedChildFields ==
  ASSUME TypeOK, NEW f \in DOMAIN folder, NEW c0, c0 \notin DOMAIN path, NEW new,
         folder[f].children.cells \in Seq(DOMAIN path),
         NEW heap, heap = Insert(path, c0, new), path' = LinkLast(heap, f, c0)
  PROVE  /\ DOMAIN path' = DOMAIN path \cup {c0}
         /\ path'[c0] = new
         /\ \A c \in DOMAIN path :
              path'[c].fullPath = path[c].fullPath /\ path'[c].folder = path[c].folder
<1>0. PICK cells : cells = folder[f].children.cells
  OBVIOUS
<1>2. /\ DOMAIN heap = DOMAIN path \cup {c0} /\ heap[c0] = new
      /\ \A c \in DOMAIN path :
           heap[c] = path[c] /\ heap[c] \in SearchPath(DOMAIN folder, DOMAIN path)
  BY TableCells DEF Insert
<1>3. CASE cells = <<>>
  BY <1>0, <1>2, <1>3 DEF LinkLast
<1>4. CASE cells # <<>>
  <2>1. LastOf(cells) \in DOMAIN path
    BY <1>0, <1>4, CellsOfSeq DEF LastOf
  <2>2. path' = [heap EXCEPT ![LastOf(cells)].next = Resolved(c0)]
    BY <1>0, <1>4 DEF LinkLast
  <2> QED BY <1>2, <2>1, <2>2 DEF SearchPath
<1> QED
  BY <1>3, <1>4

LEMMA CarefulDescend ==
  ASSUME TypeOK, Invariant, CarefulInvariant, Descend
  PROVE  CarefulInvariant'
<1>0. PICK prefix, cells : prefix = SubSeq(file, 1, depth)
                             /\ cells = folder[current].children.cells
  OBVIOUS
<1>1. pc = "add" /\ depth < Len(file)
  BY DEF Descend, Descending
<1>2. /\ IsOpen /\ TreeOK /\ Settled
      /\ depth \in 1..Len(file) /\ Len(file) \in Nat /\ current \in DOMAIN folder
      /\ prefix \in FullPaths \ {Blank} /\ ~HasExtension(prefix)
      /\ WellNamed(file) /\ file \notin DOMAIN pathLookup
  BY <1>0, <1>1, AddingAt
<1>3. PICK child \in ChildrenNamed(current, file[depth]) :
        IF IsCell(path[child].folder)
          THEN /\ current' = path[child].folder.cell
               /\ depth' = depth + 1
               /\ UNCHANGED <<heapVars, tableVars, lookupVars, disk, pc, file,
                              walkVars, makerVars>>
          ELSE Panic
  BY DEF Descend
<1>4. child \in ChildrenOf(current) /\ path[child].fullPath = prefix
  BY <1>0, <1>1, ChildOfThatName
<1>5. child \in Entries /\ child \in DOMAIN path
  BY <1>4 DEF ChildrenOf, Entries
<1>6. /\ IsCell(path[child].folder) /\ prefix \in DOMAIN folderLookup
      /\ path[child].folder.cell = folderLookup[prefix]
  <2>1. EntriesMatchFolders /\ RefsInBounds
    BY <1>2, TreeParts
  <2>2. ~IsNone(path[child].folder) /\ ~IsUnresolved(path[child].folder)
    BY <1>2, <1>4, <1>5, <2>1 DEF EntriesMatchFolders, RefsInBounds
  <2>3. path[child].folder \in ReferenceTo(DOMAIN folder)
    BY <1>5, TableCells DEF SearchPath
  <2>4. IsCell(path[child].folder)
    BY <2>2, <2>3 DEF ReferenceTo, IsNone, IsUnresolved, IsCell, None
  <2> QED BY <1>2, <1>4, <1>5, <2>1, <2>2, <2>4 DEF EntriesMatchFolders
<1>7. /\ current' = folderLookup[prefix] /\ depth' = depth + 1
      /\ UNCHANGED <<folder, path, folders, paths, folderLookup, pathLookup, disk,
                     pc, file>>
  BY <1>3, <1>6 DEF heapVars, tableVars, lookupVars
<1>8. folder[current'].fullPath = prefix
  BY <1>2, <1>6, <1>7, TreeParts
<1>9. NoFolderIsEmpty'
  <2>1. \A f : ChildrenOf(f)' = ChildrenOf(f)
    BY <1>7 DEF ChildrenOf, Entries
  <2>2. \A f \in DOMAIN folder : ChildrenOf(f) # {}
    BY <1>1, <1>2, <1>4, TreeParts DEF NoFolderIsEmpty
  <2> QED BY <1>7, <2>1, <2>2 DEF NoFolderIsEmpty
<1>10. TreeOK'
  BY <1>1, <1>2, <1>7, <1>9, TreeKept
<1>11. Settled' /\ WellNamed(file')
  BY <1>2, <1>7 DEF Settled, WellNamed
<1>12. depth' # 1 /\ SubSeq(file', 1, depth' - 1) = prefix
  <2>1. depth + 1 # 1 /\ (depth + 1) - 1 = depth
    BY <1>2
  <2> QED BY <1>0, <1>7, <2>1
<1> QED
  BY <1>1, <1>2, <1>7, <1>8, <1>10, <1>11, <1>12
  DEF CarefulInvariant, AddOK, PushOK, NoPanic

LEMMA CarefulNoAddPanic ==
  ASSUME TypeOK, Invariant, CarefulInvariant PROVE ~AddFilePanics
<1> SUFFICES ASSUME pc = "add"
             PROVE  /\ IsSet(folder[current].children)
                    /\ depth = Len(file) => HasExtension(file) /\ file # Root
  BY DEF AddFilePanics, Descending, Landing
<1> QED
  BY AddingAt

-----------------------------------------------------------------------------
(* The tree with one more child: a folder ("made") or a file. *)

LEMMA TreeGrows ==
  ASSUME TypeOK, Invariant, CarefulInvariant, pc = "add", Linked',
         NEW prefix, prefix = SubSeq(file, 1, depth), prefix \notin DOMAIN pathLookup,
         NEW made \in BOOLEAN, NEW f0, f0 \notin DOMAIN folder,
         NEW c0, c0 \notin DOMAIN path,
         DOMAIN path' = DOMAIN path \cup {c0},
         path'[c0].fullPath = prefix,
         path'[c0].folder = IF made THEN Resolved(f0) ELSE None,
         \A c \in DOMAIN path :
           path'[c].fullPath = path[c].fullPath /\ path'[c].folder = path[c].folder,
         DOMAIN folder' = IF made THEN DOMAIN folder \cup {f0} ELSE DOMAIN folder,
         folder'[current].children = Set(Append(folder[current].children.cells, c0)),
         folder'[current].fullPath = folder[current].fullPath,
         \A f \in DOMAIN folder : f # current => folder'[f] = folder[f],
         made => folder'[f0].fullPath = prefix /\ folder'[f0].children = Set(<<>>),
         folderLookup' = IF made THEN Insert(folderLookup, prefix, f0)
                                 ELSE folderLookup,
         pathLookup' = Insert(pathLookup, prefix, c0),
         ~made => HasExtension(prefix)
  PROVE  /\ FoldersNamed' /\ PathsNamed' /\ PathsInFolders' /\ EntriesMatchFolders'
         /\ RefsInBounds' /\ ListsAreComplete' /\ Settled'
         /\ \A f \in DOMAIN folder : ChildrenOf(f)' # {}
<1>0. PICK cells : cells = folder[current].children.cells
  OBVIOUS
<1>1. /\ IsOpen /\ TreeOK /\ Linked /\ Settled /\ current \in DOMAIN folder
      /\ cells \in Seq(DOMAIN path) /\ Cells(cells) = ChildrenOf(current)
      /\ prefix \in FullPaths \ {Blank} /\ prefix # Root
      /\ Parent(prefix) = Prefix(folder[current].fullPath) /\ Parent(prefix) # prefix
  BY <1>0, AddingAt
<1>2. /\ FoldersNamed /\ PathsNamed /\ PathsInFolders /\ EntriesMatchFolders
      /\ RefsInBounds /\ ListsAreComplete /\ NoFolderIsEmpty
  BY <1>1, TreeParts
<1>3. prefix \notin DOMAIN folderLookup
  BY <1>1, <1>2 DEF EntriesMatchFolders
<1>4. \A f \in DOMAIN folder : folder'[f].fullPath = folder[f].fullPath
                               /\ f \in DOMAIN folder' /\ f # f0
  OBVIOUS
<1>5. Entries' = Entries \cup {c0} /\ c0 \notin Entries
  <2>1. Entries' = {c \in DOMAIN path' : path'[c].fullPath # Blank}
    BY DEF Entries
  <2>2. \A c \in DOMAIN path : c \in Entries' <=> c \in Entries
    BY <2>1 DEF Entries
  <2>3. c0 \in Entries'
    BY <1>1, <2>1
  <2>4. Entries \subseteq DOMAIN path /\ Entries' \subseteq DOMAIN path \cup {c0}
    BY <2>1 DEF Entries
  <2> QED BY <2>2, <2>3, <2>4
<1>6. \A c \in Entries : c \in DOMAIN path /\ path'[c].fullPath = path[c].fullPath
                         /\ path[c].fullPath # prefix
                         /\ pathLookup[path[c].fullPath] = c
                         /\ path[c].fullPath \in DOMAIN pathLookup
  <2>1. \A c \in Entries : c \in DOMAIN path
                           /\ pathLookup[path[c].fullPath] = c
                           /\ path[c].fullPath \in DOMAIN pathLookup
    BY <1>1, TreeParts
  <2> QED BY <2>1
<1>7. ASSUME NEW f \in DOMAIN folder
      PROVE  ChildrenOf(f)' = IF f = current THEN ChildrenOf(f) \cup {c0} ELSE ChildrenOf(f)
  <2>1. ChildrenOf(f)'
          = {c \in Entries' : Parent(path'[c].fullPath) = Prefix(folder[f].fullPath)}
    BY <1>4 DEF ChildrenOf
  <2>2. \A c \in Entries : c \in ChildrenOf(f)' <=> c \in ChildrenOf(f)
    BY <1>5, <1>6, <2>1 DEF ChildrenOf
  <2>3. c0 \in ChildrenOf(f)' <=> f = current
    <3>1. c0 \in ChildrenOf(f)' <=> Prefix(folder[current].fullPath) = Prefix(folder[f].fullPath)
      BY <1>1, <1>5, <2>1
    <3>2. Prefix(folder[current].fullPath) = Prefix(folder[f].fullPath)
            => folder[current].fullPath = folder[f].fullPath
      BY <1>1, TreeParts, PrefixInjective
    <3>3. folder[current].fullPath = folder[f].fullPath => current = f
      BY <1>1, TreeParts
    <3> QED BY <3>1, <3>2, <3>3
  <2>4. ChildrenOf(f)' \subseteq Entries \cup {c0} /\ ChildrenOf(f) \subseteq Entries
    BY <1>5, <2>1 DEF ChildrenOf
  <2> DEFINE now == ChildrenOf(f)'
  <2>5. \A c : c \in now <=> c \in IF f = current THEN ChildrenOf(f) \cup {c0}
                                                   ELSE ChildrenOf(f)
    BY <1>5, <2>2, <2>3, <2>4
  <2> HIDE DEF now
  <2>6. now = IF f = current THEN ChildrenOf(f) \cup {c0} ELSE ChildrenOf(f)
    BY <2>5
  <2> QED BY <2>6 DEF now
<1>8. made => ChildrenOf(f0)' = {}
  <2> SUFFICES ASSUME made, NEW c \in Entries', Parent(path'[c].fullPath) = prefix
               PROVE  FALSE
    <3>1. made => ChildrenOf(f0)'
                    = {c \in Entries' : Parent(path'[c].fullPath) = Prefix(prefix)}
      BY DEF ChildrenOf
    <3> QED BY <1>1, <3>1 DEF Prefix
  <2>1. c \in Entries /\ Parent(path[c].fullPath) = prefix
    BY <1>1, <1>5, <1>6
  <2>2. PICK f \in DOMAIN folder : c \in ChildrenOf(f)
    BY <1>2, <2>1 DEF PathsInFolders
  <2>3. Prefix(folder[f].fullPath) = prefix
    BY <2>1, <2>2 DEF ChildrenOf
  <2>4. folder[f].fullPath = prefix
    BY <1>1, <2>3 DEF Prefix
  <2>5. folder[f].fullPath \in DOMAIN folderLookup
    BY <1>1, TreeParts
  <2> QED BY <1>3, <2>4, <2>5
<1>9. Settled'
  <2>1. ASSUME NEW f \in DOMAIN folder' PROVE IsSet(folder'[f].children)
    BY <1>1 DEF Settled, IsSet, Set
  <2> QED BY <2>1 DEF Settled
<1>10. FoldersNamed'
  <2>1. /\ DOMAIN folderLookup'
             = IF made THEN DOMAIN folderLookup \cup {prefix} ELSE DOMAIN folderLookup
        /\ \A p \in DOMAIN folderLookup : folderLookup'[p] = folderLookup[p]
        /\ made => folderLookup'[prefix] = f0
    BY <1>3 DEF Insert
  <2>2. DOMAIN folderLookup' = {folder'[f].fullPath : f \in DOMAIN folder'}
    <3>1. DOMAIN folderLookup = {folder'[f].fullPath : f \in DOMAIN folder}
      BY <1>2, <1>4 DEF FoldersNamed
    <3> QED BY <2>1, <3>1
  <2>3. ASSUME NEW f \in DOMAIN folder'
        PROVE  folder'[f].fullPath # Blank /\ folderLookup'[folder'[f].fullPath] = f
    <3>1. CASE f \in DOMAIN folder
      BY <1>1, <1>4, <2>1, <3>1, TreeParts
    <3>2. CASE f \notin DOMAIN folder
      BY <1>1, <2>1, <3>2
    <3> QED BY <3>1, <3>2
  <2> QED BY <1>2, <2>1, <2>2, <2>3 DEF FoldersNamed
<1>11. PathsNamed'
  <2>1. /\ DOMAIN pathLookup' = DOMAIN pathLookup \cup {prefix}
        /\ \A p \in DOMAIN pathLookup : pathLookup'[p] = pathLookup[p]
        /\ pathLookup'[prefix] = c0
    BY DEF Insert
  <2>2. DOMAIN pathLookup' = {path'[c].fullPath : c \in Entries'}
    <3>1. DOMAIN pathLookup = {path'[c].fullPath : c \in Entries}
      BY <1>2, <1>6 DEF PathsNamed
    <3> QED BY ZenonT(60), <1>5, <2>1, <3>1
  <2>3. ASSUME NEW c \in Entries' PROVE pathLookup'[path'[c].fullPath] = c
    BY ZenonT(60), <1>5, <1>6, <2>1
  <2> QED BY <2>2, <2>3 DEF PathsNamed
<1>12. PathsInFolders'
  <2>1. ASSUME NEW c \in Entries'
        PROVE  path'[c].fullPath # Root /\ \E f \in DOMAIN folder' : c \in ChildrenOf(f)'
    <3>1. CASE c = c0
      BY <1>1, <1>4, <1>7, <3>1
    <3>2. CASE c # c0
      <4>1. c \in Entries /\ path[c].fullPath # Root
        BY <1>2, <1>5, <3>2 DEF PathsInFolders
      <4>2. PICK f \in DOMAIN folder : c \in ChildrenOf(f)
        BY <1>2, <4>1 DEF PathsInFolders
      <4> QED BY <1>4, <1>6, <1>7, <4>1, <4>2
    <3> QED BY <3>1, <3>2
  <2> QED BY <2>1 DEF PathsInFolders
<1>13. EntriesMatchFolders'
  <2>1. /\ DOMAIN folderLookup'
             = IF made THEN DOMAIN folderLookup \cup {prefix} ELSE DOMAIN folderLookup
        /\ \A p \in DOMAIN folderLookup : folderLookup'[p] = folderLookup[p]
        /\ made => folderLookup'[prefix] = f0
        /\ DOMAIN pathLookup' = DOMAIN pathLookup \cup {prefix}
    BY <1>3 DEF Insert
  <2>2. ASSUME NEW c \in Entries'
        PROVE  IF IsNone(path'[c].folder)
                 THEN /\ path'[c].fullPath \notin DOMAIN folderLookup'
                      /\ HasExtension(path'[c].fullPath)
                 ELSE /\ path'[c].fullPath \in DOMAIN folderLookup'
                      /\ IsCell(path'[c].folder) =>
                           path'[c].folder.cell = folderLookup'[path'[c].fullPath]
    <3>1. CASE c = c0
      <4>1. CASE made
        <5>1. Resolved(f0).cell = f0 /\ ~IsNone(Resolved(f0))
          BY DEF Resolved, IsNone
        <5>2. path'[c].folder = Resolved(f0) /\ path'[c].fullPath = prefix
          BY <3>1, <4>1
        <5>3. prefix \in DOMAIN folderLookup' /\ folderLookup'[prefix] = f0
          BY <2>1, <4>1
        <5> QED BY <5>1, <5>2, <5>3
      <4>2. CASE ~made
        <5>1. path'[c].folder = None /\ path'[c].fullPath = prefix /\ IsNone(None)
          BY <3>1, <4>2, Kinds
        <5>2. prefix \notin DOMAIN folderLookup' /\ HasExtension(prefix)
          BY <1>3, <2>1, <4>2
        <5> QED BY <5>1, <5>2
      <4> QED BY <4>1, <4>2
    <3>2. CASE c # c0
      <4>1. c \in Entries
        BY <1>5, <3>2
      <4> QED BY <1>2, <1>6, <2>1, <4>1 DEF EntriesMatchFolders
    <3> QED BY <3>1, <3>2
  <2>3. ASSUME NEW c \in DOMAIN path' \ Entries' PROVE IsNone(path'[c].folder)
    BY <1>2, <1>5 DEF EntriesMatchFolders
  <2>4. DOMAIN folderLookup' \subseteq DOMAIN pathLookup' \cup {Root}
    BY <1>2, <2>1 DEF EntriesMatchFolders
  <2> QED BY <2>2, <2>3, <2>4 DEF EntriesMatchFolders
<1>14. RefsInBounds'
  <2>1. \A c \in DOMAIN path' : ~IsUnresolved(path'[c].folder)
    BY <1>1, <1>2, Kinds DEF RefsInBounds
  <2>2. \A c \in DOMAIN path' : ~IsUnresolved(path'[c].next)
    BY DEF Linked, NoneUnresolved
  <2> QED BY <2>1, <2>2 DEF RefsInBounds
<1>15. ListsAreComplete'
  <2>1. ASSUME NEW f \in DOMAIN folder'
        PROVE  IsSet(folder'[f].children)
                 /\ Cells(folder'[f].children.cells) = ChildrenOf(f)'
    <3>1. CASE f = current
      <4>1. folder'[f].children.cells = Append(cells, c0)
        BY <1>0, <3>1 DEF Set
      <4>2. Cells(Append(cells, c0)) = Cells(cells) \cup {c0}
        <5>1. cells \in Seq(DOMAIN path \cup {c0})
          <6>1. DOMAIN path \subseteq DOMAIN path \cup {c0}
            OBVIOUS
          <6> QED BY <1>1, <6>1, SeqMonotonic
        <5>2. /\ Len(Append(cells, c0)) = Len(cells) + 1
              /\ Append(cells, c0)[Len(cells) + 1] = c0
              /\ \A i \in 1..Len(cells) : Append(cells, c0)[i] = cells[i]
              /\ Len(cells) \in Nat
          BY <5>1, AppendElement, LenProperties
        <5> QED BY <5>2 DEF Cells
      <4> QED BY <1>1, <1>7, <1>9, <3>1, <4>1, <4>2 DEF Settled
    <3>2. CASE f # current /\ f \in DOMAIN folder
      BY <1>1, <1>2, <1>7, <3>2 DEF ListsAreComplete, Settled
    <3>3. CASE f \notin DOMAIN folder
      <4>1. made /\ f = f0 /\ folder'[f].children.cells = <<>>
            /\ IsSet(folder'[f].children)
        BY <3>3 DEF Set, IsSet
      <4>2. Cells(<<>>) = {}
        BY DEF Cells
      <4> QED BY <1>8, <4>1, <4>2
    <3> QED BY <3>1, <3>2, <3>3
  <2> QED BY <2>1 DEF ListsAreComplete
<1>16. \A f \in DOMAIN folder : ChildrenOf(f)' # {}
  BY <1>2, <1>7 DEF NoFolderIsEmpty
<1> QED
  BY <1>9, <1>10, <1>11, <1>12, <1>13, <1>14, <1>15, <1>16

\* What add_file does to make a folder.
LEMMA MadeFolder ==
  ASSUME TypeOK, Invariant, CarefulInvariant, MakeFolder,
         NEW prefix, prefix = SubSeq(file, 1, depth),
         NEW cells, cells = folder[current].children.cells
  PROVE  /\ pc = "add" /\ depth < Len(file) /\ prefix \notin DOMAIN pathLookup
         /\ pathLookup' = Insert(pathLookup, prefix, guid + 1)
         /\ folderLookup' = Insert(folderLookup, prefix, guid)
         /\ current' = guid /\ depth' = depth + 1
         /\ UNCHANGED <<folders, paths, disk, pc, file>>
         /\ guid \notin DOMAIN folder /\ guid + 1 \notin DOMAIN path
         /\ Linked'
         /\ DOMAIN folder' = DOMAIN folder \cup {guid}
         /\ folder'[current].children = Set(Append(cells, guid + 1))
         /\ folder'[current].fullPath = folder[current].fullPath
         /\ \A f \in DOMAIN folder : f # current => folder'[f] = folder[f]
         /\ folder'[guid] = NewFolder(prefix)
         /\ DOMAIN path' = DOMAIN path \cup {guid + 1}
         /\ path'[guid + 1] = NewPath(prefix, Resolved(guid))
         /\ \A c \in DOMAIN path :
              path'[c].fullPath = path[c].fullPath /\ path'[c].folder = path[c].folder
<1>1. pc = "add" /\ depth < Len(file) /\ ChildrenNamed(current, file[depth]) = {}
  BY DEF MakeFolder, Descending
<1>2. /\ IsOpen /\ TreeOK /\ Linked /\ current \in DOMAIN folder
      /\ depth \in 1..Len(file) /\ Len(file) \in Nat
      /\ cells \in Seq(DOMAIN path)
      /\ prefix # Root /\ ~HasExtension(prefix) /\ Len(prefix) = depth
      /\ WellNamed(file) /\ file \notin DOMAIN pathLookup
  BY <1>1, AddingAt
<1>3. prefix \notin DOMAIN pathLookup
  BY <1>1, ChildOfThatName
<1>4. /\ folder' = PushChild(Insert(folder, guid, NewFolder(prefix)), current, guid + 1)
      /\ path' = LinkLast(Insert(path, guid + 1, NewPath(prefix, Resolved(guid))),
                          current, guid + 1)
      /\ pathLookup' = Insert(pathLookup, prefix, guid + 1)
      /\ folderLookup' = Insert(folderLookup, prefix, guid)
      /\ current' = guid /\ depth' = depth + 1
      /\ UNCHANGED <<folders, paths, disk, pc, file>>
  BY <1>2 DEF MakeFolder, tableVars
<1>5. guid \notin DOMAIN folder /\ guid + 1 \notin DOMAIN path
  BY TableCells
<1>6. Linked'
  <2>1. ~Panic
    BY <1>1, <1>4 DEF Panic
  <2> QED BY <1>2, <2>1, LinkedMakeFolder
<1>7. /\ DOMAIN folder' = DOMAIN folder \cup {guid}
      /\ folder'[current].children = Set(Append(cells, guid + 1))
      /\ folder'[current].fullPath = folder[current].fullPath
      /\ \A f \in DOMAIN folder : f # current => folder'[f] = folder[f]
      /\ folder'[guid] = NewFolder(prefix)
  <2> DEFINE heap == Insert(folder, guid, NewFolder(prefix))
  <2>1. /\ DOMAIN heap = DOMAIN folder \cup {guid} /\ heap[guid] = NewFolder(prefix)
        /\ \A f \in DOMAIN folder : heap[f] = folder[f]
    BY <1>5 DEF Insert
  <2> HIDE DEF heap
  <2>2. /\ DOMAIN folder' = DOMAIN heap
        /\ folder'[current].children = Set(Append(cells, guid + 1))
        /\ folder'[current].fullPath = folder[current].fullPath
        /\ \A g \in DOMAIN heap : g # current => folder'[g] = heap[g]
    <3>1. folder' = PushChild(heap, current, guid + 1)
      BY <1>4 DEF heap
    <3> QED BY <1>2, <2>1, <3>1, PushedChildFields
  <2> QED BY <1>2, <1>5, <2>1, <2>2
<1>8. /\ DOMAIN path' = DOMAIN path \cup {guid + 1}
      /\ path'[guid + 1] = NewPath(prefix, Resolved(guid))
      /\ \A c \in DOMAIN path :
           path'[c].fullPath = path[c].fullPath /\ path'[c].folder = path[c].folder
  <2>1. folder[current].children.cells \in Seq(DOMAIN path)
    BY <1>2
  <2>2. PICK c0, new : c0 = guid + 1 /\ new = NewPath(prefix, Resolved(guid))
    OBVIOUS
  <2>5. PICK heap : heap = Insert(path, c0, new)
    OBVIOUS
  <2>3. c0 \notin DOMAIN path /\ path' = LinkLast(heap, current, c0)
    BY <1>4, <1>5, <2>2, <2>5
  <2>4. /\ DOMAIN path' = DOMAIN path \cup {c0} /\ path'[c0] = new
        /\ \A c \in DOMAIN path :
             path'[c].fullPath = path[c].fullPath /\ path'[c].folder = path[c].folder
    <3> QED BY <1>2, <2>1, <2>5, <2>3, LinkedChildFields
  <2> QED BY <2>2, <2>4
<1> QED
  BY <1>1, <1>3, <1>4, <1>5, <1>6, <1>7, <1>8

LEMMA CarefulMakeFolder ==
  ASSUME TypeOK, Invariant, CarefulInvariant, MakeFolder
  PROVE  CarefulInvariant'
<1>0. PICK prefix, cells : prefix = SubSeq(file, 1, depth)
                             /\ cells = folder[current].children.cells
  OBVIOUS
<1>1. /\ pc = "add" /\ depth < Len(file) /\ prefix \notin DOMAIN pathLookup
      /\ pathLookup' = Insert(pathLookup, prefix, guid + 1)
      /\ folderLookup' = Insert(folderLookup, prefix, guid)
      /\ current' = guid /\ depth' = depth + 1
      /\ UNCHANGED <<folders, paths, disk, pc, file>>
      /\ guid \notin DOMAIN folder /\ guid + 1 \notin DOMAIN path
      /\ Linked'
      /\ DOMAIN folder' = DOMAIN folder \cup {guid}
      /\ folder'[current].children = Set(Append(cells, guid + 1))
      /\ folder'[current].fullPath = folder[current].fullPath
      /\ \A f \in DOMAIN folder : f # current => folder'[f] = folder[f]
      /\ folder'[guid] = NewFolder(prefix)
      /\ DOMAIN path' = DOMAIN path \cup {guid + 1}
      /\ path'[guid + 1] = NewPath(prefix, Resolved(guid))
      /\ \A c \in DOMAIN path :
           path'[c].fullPath = path[c].fullPath /\ path'[c].folder = path[c].folder
  BY <1>0, MadeFolder
<1>2. /\ current \in DOMAIN folder /\ depth \in 1..Len(file) /\ Len(file) \in Nat
      /\ prefix # Root /\ Len(prefix) = depth
      /\ WellNamed(file) /\ file \notin DOMAIN pathLookup
  BY <1>0, <1>1, AddingAt
<1>3. /\ FoldersNamed' /\ PathsNamed' /\ PathsInFolders' /\ EntriesMatchFolders'
      /\ RefsInBounds' /\ ListsAreComplete' /\ Settled'
      /\ \A f \in DOMAIN folder : ChildrenOf(f)' # {}
  <2>1. PICK c0 : c0 = guid + 1
    OBVIOUS
  <2>2. PICK f0 : f0 = guid
    OBVIOUS
  <2>3. /\ path'[c0].fullPath = prefix /\ path'[c0].folder = Resolved(f0)
        /\ folder'[f0].fullPath = prefix /\ folder'[f0].children = Set(<<>>)
        /\ c0 \notin DOMAIN path /\ f0 \notin DOMAIN folder
    BY <1>1, <2>1, <2>2 DEF NewPath, NewFolder
  <2>4. PICK made \in BOOLEAN : made
    OBVIOUS
  <2> QED
    BY <1>0, <1>1, <2>1, <2>2, <2>3, <2>4, TreeGrows
<1>4. NoFolderIsEmpty'
  BY <1>1, <1>3 DEF NoFolderIsEmpty
<1>5. AddOK'
  <2>1. WellNamed(file')
    BY <1>1, <1>2 DEF WellNamed
  <2>2. file \notin DOMAIN pathLookup'
    <3>1. DOMAIN pathLookup' = DOMAIN pathLookup \cup {prefix}
      BY <1>1 DEF Insert
    <3>2. file # prefix
      BY <1>1, <1>2
    <3> QED BY <1>2, <3>1, <3>2
  <2>3. folder'[guid].fullPath = prefix
    BY <1>1 DEF NewFolder
  <2>4. depth' # 1 /\ SubSeq(file', 1, depth' - 1) = prefix
    <3>1. depth + 1 # 1 /\ (depth + 1) - 1 = depth
      BY <1>2
    <3> QED BY <1>0, <1>1, <3>1
  <2> QED BY <1>1, <1>3, <2>1, <2>2, <2>3, <2>4 DEF AddOK
<1> QED
  BY <1>1, <1>3, <1>4, <1>5
  DEF CarefulInvariant, TreeOK, PushOK, NoPanic

\* What add_file does to make the file.
LEMMA MadeFile ==
  ASSUME TypeOK, Invariant, CarefulInvariant, MakeFile,
         NEW cells, cells = folder[current].children.cells
  PROVE  /\ pc = "add" /\ depth = Len(file) /\ pc' = "idle"
         /\ SubSeq(file, 1, depth) = file /\ HasExtension(file)
         /\ file \notin DOMAIN pathLookup
         /\ pathLookup' = Insert(pathLookup, file, guid)
         /\ UNCHANGED <<folders, paths, folderLookup, disk>>
         /\ guid \notin DOMAIN path /\ guid \notin DOMAIN folder
         /\ Linked'
         /\ DOMAIN folder' = DOMAIN folder
         /\ folder'[current].children = Set(Append(cells, guid))
         /\ folder'[current].fullPath = folder[current].fullPath
         /\ \A f \in DOMAIN folder : f # current => folder'[f] = folder[f]
         /\ DOMAIN path' = DOMAIN path \cup {guid}
         /\ path'[guid] = NewPath(file, None)
         /\ \A c \in DOMAIN path :
              path'[c].fullPath = path[c].fullPath /\ path'[c].folder = path[c].folder
<1>1. /\ pc = "add" /\ depth = Len(file) /\ pc' = "idle"
      /\ path' = LinkLast(Insert(path, guid, NewPath(file, None)), current, guid)
      /\ folder' = PushChild(folder, current, guid)
      /\ pathLookup' = Insert(pathLookup, file, guid)
      /\ UNCHANGED <<folders, paths, folderLookup, disk>>
  BY DEF MakeFile, Landing, tableVars
<1>2. /\ IsOpen /\ TreeOK /\ Linked /\ current \in DOMAIN folder
      /\ cells \in Seq(DOMAIN path)
      /\ SubSeq(file, 1, depth) = file /\ HasExtension(file)
      /\ file \notin DOMAIN pathLookup
  BY <1>1, AddingAt
<1>3. guid \notin DOMAIN path /\ guid \notin DOMAIN folder
  BY TableCells
<1>4. Linked'
  BY <1>2, LinkedMakeFile
<1>5. /\ DOMAIN folder' = DOMAIN folder
      /\ folder'[current].children = Set(Append(cells, guid))
      /\ folder'[current].fullPath = folder[current].fullPath
      /\ \A f \in DOMAIN folder : f # current => folder'[f] = folder[f]
  BY <1>1, <1>2, PushedChildFields
<1>6. /\ DOMAIN path' = DOMAIN path \cup {guid}
      /\ path'[guid] = NewPath(file, None)
      /\ \A c \in DOMAIN path :
           path'[c].fullPath = path[c].fullPath /\ path'[c].folder = path[c].folder
  <2>1. folder[current].children.cells \in Seq(DOMAIN path)
    BY <1>2
  <2>2. PICK new : new = NewPath(file, None)
    OBVIOUS
  <2>5. PICK heap : heap = Insert(path, guid, new)
    OBVIOUS
  <2>3. path' = LinkLast(heap, current, guid)
    BY <1>1, <2>2, <2>5
  <2>4. /\ DOMAIN path' = DOMAIN path \cup {guid} /\ path'[guid] = new
        /\ \A c \in DOMAIN path :
             path'[c].fullPath = path[c].fullPath /\ path'[c].folder = path[c].folder
    <3>1. current \in DOMAIN folder /\ guid \notin DOMAIN path
      BY <1>2, <1>3
    <3> QED BY <2>1, <2>5, <2>3, <3>1, LinkedChildFields
  <2> QED BY <2>2, <2>4
<1> QED
  BY <1>1, <1>2, <1>3, <1>4, <1>5, <1>6

LEMMA CarefulMakeFile ==
  ASSUME TypeOK, Invariant, CarefulInvariant, MakeFile
  PROVE  CarefulInvariant'
<1>0. PICK cells : cells = folder[current].children.cells
  OBVIOUS
<1>1. /\ pc = "add" /\ depth = Len(file) /\ pc' = "idle"
      /\ SubSeq(file, 1, depth) = file /\ HasExtension(file)
      /\ file \notin DOMAIN pathLookup
      /\ pathLookup' = Insert(pathLookup, file, guid)
      /\ UNCHANGED <<folders, paths, folderLookup, disk>>
      /\ guid \notin DOMAIN path /\ guid \notin DOMAIN folder
      /\ Linked'
      /\ DOMAIN folder' = DOMAIN folder
      /\ folder'[current].children = Set(Append(cells, guid))
      /\ folder'[current].fullPath = folder[current].fullPath
      /\ \A f \in DOMAIN folder : f # current => folder'[f] = folder[f]
      /\ DOMAIN path' = DOMAIN path \cup {guid}
      /\ path'[guid] = NewPath(file, None)
      /\ \A c \in DOMAIN path :
           path'[c].fullPath = path[c].fullPath /\ path'[c].folder = path[c].folder
  BY <1>0, MadeFile
<1>2. /\ FoldersNamed' /\ PathsNamed' /\ PathsInFolders' /\ EntriesMatchFolders'
      /\ RefsInBounds' /\ ListsAreComplete' /\ Settled'
      /\ \A f \in DOMAIN folder : ChildrenOf(f)' # {}
  <2>1. PICK c0, f0 : c0 = guid /\ f0 = guid
    OBVIOUS
  <2>2. PICK prefix : prefix = SubSeq(file, 1, depth)
    OBVIOUS
  <2>3. PICK made \in BOOLEAN : ~made
    OBVIOUS
  <2>4. path'[c0].fullPath = prefix /\ path'[c0].folder = None
    <3>1. NewPath(file, None).fullPath = file /\ NewPath(file, None).folder = None
      BY DEF NewPath
    <3>2. prefix = file
      BY <1>1, <2>2
    <3> QED BY <1>1, <2>1, <3>1, <3>2
  <2> QED
    BY <1>0, <1>1, <2>1, <2>2, <2>3, <2>4, TreeGrows
<1>3. NoFolderIsEmpty'
  BY <1>1, <1>2 DEF NoFolderIsEmpty
<1> QED
  BY <1>1, <1>2, <1>3 DEF CarefulInvariant, TreeOK, AddOK, PushOK, NoPanic

-----------------------------------------------------------------------------
(* Reading. *)

\* A list stays one when its members are renamed.
Renamed(C, cell) == {cell[c] : c \in C}

LEMMA ListRenamed ==
  ASSUME NEW C, NEW first, NEW after, IsList(C, first, after),
         NEW cell, NEW after2,
         \A c \in C : after2[cell[c]] = Renamed(after[c], cell)
  PROVE  IsList(Renamed(C, cell), cell[first], after2)
<1> DEFINE D == Renamed(C, cell)
<1>1. /\ first \in C /\ \A c \in C : after[c] \subseteq C
      /\ \A S \in SUBSET C :
           first \in S /\ (\A c \in S : after[c] \subseteq S) => S = C
  BY DEF IsList
<1>2. cell[first] \in D
  BY <1>1 DEF Renamed
<1>3. \A d \in D : after2[d] \subseteq D
  BY <1>1 DEF Renamed
<1>4. ASSUME NEW S \in SUBSET D, cell[first] \in S, \A d \in S : after2[d] \subseteq S
      PROVE  S = D
  <2> DEFINE T == {c \in C : cell[c] \in S}
  <2>1. first \in T
    BY <1>1, <1>4
  <2>2. ASSUME NEW c \in T, NEW d \in after[c] PROVE d \in T
    <3>1. d \in C
      BY <1>1
    <3>2. cell[d] \in after2[cell[c]]
      BY DEF Renamed
    <3> QED BY <1>4, <3>1, <3>2
  <2>3. T = C
    <3>1. T \in SUBSET C /\ \A c \in T : after[c] \subseteq T
      BY <2>2
    <3> HIDE DEF T
    <3> QED BY <1>1, <2>1, <3>1
  <2> QED BY <2>3 DEF Renamed
<1> QED
  BY <1>2, <1>3, <1>4 DEF IsList

\* The cells made by Read are numbered like the entries they are parsed from.
LEMMA ReadCells ==
  ASSUME TypeOK, Read
  PROVE  /\ Len(disk.folders) \in Nat /\ Len(folders') = Len(disk.folders)
         /\ Len(disk.paths) \in Nat /\ Len(paths') = Len(disk.paths)
         /\ \A i \in 1..Len(disk.folders) :
              /\ disk.folders[i] \in FolderEntry
              /\ folders'[i] \in DOMAIN folder'
              /\ folders'[i] = guid + i - 1
              /\ folder'[folders'[i]] = ParseFolder(disk.folders[i])
         /\ \A f \in DOMAIN folder' : \E i \in 1..Len(disk.folders) : f = folders'[i]
         /\ \A i \in 1..Len(disk.paths) :
              /\ disk.paths[i] \in PathEntry
              /\ paths'[i] \in DOMAIN path'
              /\ paths'[i] = (guid + Len(disk.folders)) + i - 1
              /\ path'[paths'[i]] = ParsePath(disk.paths[i])
         /\ \A c \in DOMAIN path' : \E i \in 1..Len(disk.paths) : c = paths'[i]
         /\ \A i, h \in 1..Len(disk.paths) : paths'[i] = paths'[h] => i = h
<1> DEFINE nf == Len(disk.folders)
           np == Len(disk.paths)
           F == guid..(guid + nf - 1)
           P == (guid + nf)..(guid + nf + np - 1)
<1>1. disk.folders \in Seq(FolderEntry) /\ disk.paths \in Seq(PathEntry) /\ guid \in Nat
  BY DEF TypeOK, Image
<1>2. /\ nf \in Nat /\ np \in Nat
      /\ \A i \in 1..nf : disk.folders[i] \in FolderEntry
      /\ \A i \in 1..np : disk.paths[i] \in PathEntry
  BY <1>1, LenProperties, ElementOfSeq
<1>3. /\ folder' = [g \in F |-> ParseFolder(disk.folders[g - guid + 1])]
      /\ path' = [g \in P |-> ParsePath(disk.paths[g - guid - nf + 1])]
      /\ folders' = [i \in 1..nf |-> guid + i - 1]
      /\ paths' = [i \in 1..np |-> guid + nf + i - 1]
      /\ DOMAIN folder' = F /\ DOMAIN path' = P
  BY DEF Read
<1>4. Len(folders') = nf /\ Len(paths') = np
  BY <1>2, <1>3
<1>5. guid \in Nat /\ nf \in Nat /\ np \in Nat
  BY <1>1, <1>2
<1> HIDE DEF nf, np
<1>6. ASSUME NEW i \in 1..nf
      PROVE  folders'[i] = guid + i - 1 /\ folders'[i] \in F /\ folders'[i] - guid + 1 = i
  <2>1. folders'[i] = guid + i - 1
    BY <1>3
  <2> QED BY <1>5, <2>1
<1>7. ASSUME NEW i \in 1..np
      PROVE  /\ paths'[i] = (guid + nf) + i - 1 /\ paths'[i] \in P
             /\ paths'[i] - guid - nf + 1 = i
  <2>1. paths'[i] = guid + nf + i - 1
    BY <1>3
  <2> QED BY <1>5, <2>1
<1>8. ASSUME NEW g \in F PROVE \E i \in 1..nf : g = folders'[i]
  <2>1. g - guid + 1 \in 1..nf /\ guid + (g - guid + 1) - 1 = g
    BY <1>5
  <2> QED BY <1>3, <2>1
<1>9. ASSUME NEW g \in P PROVE \E i \in 1..np : g = paths'[i]
  <2>1. g - guid - nf + 1 \in 1..np /\ guid + nf + (g - guid - nf + 1) - 1 = g
    BY <1>5
  <2> QED BY <1>3, <2>1
<1>10. \A i, h \in 1..np : paths'[i] = paths'[h] => i = h
  BY <1>5, <1>7
<1> HIDE DEF F, P
<1>11. ASSUME NEW i \in 1..nf PROVE folder'[folders'[i]] = ParseFolder(disk.folders[i])
  BY <1>3, <1>6
<1>12. ASSUME NEW i \in 1..np PROVE path'[paths'[i]] = ParsePath(disk.paths[i])
  BY <1>3, <1>7
<1> QED
  BY <1>2, <1>3, <1>4, <1>6, <1>7, <1>8, <1>9, <1>10, <1>11, <1>12 DEF nf, np

\* A tree of entries is read as a tree of cells.
LEMMA CarefulRead ==
  ASSUME TypeOK, Invariant, CarefulInvariant, Read
  PROVE  CarefulInvariant'
<1>0. PICK nf, np : nf = Len(disk.folders) /\ np = Len(disk.paths)
  OBVIOUS
<1>1. /\ nf \in Nat /\ np \in Nat /\ Len(folders') = nf /\ Len(paths') = np
      /\ \A i \in 1..nf :
           /\ disk.folders[i] \in FolderEntry
           /\ folders'[i] \in DOMAIN folder' /\ folders'[i] = guid + i - 1
           /\ folder'[folders'[i]] = ParseFolder(disk.folders[i])
      /\ \A f \in DOMAIN folder' : \E i \in 1..nf : f = folders'[i]
      /\ \A i \in 1..np :
           /\ disk.paths[i] \in PathEntry
           /\ paths'[i] \in DOMAIN path' /\ paths'[i] = (guid + nf) + i - 1
           /\ path'[paths'[i]] = ParsePath(disk.paths[i])
      /\ \A c \in DOMAIN path' : \E i \in 1..np : c = paths'[i]
      /\ \A i, h \in 1..np : paths'[i] = paths'[h] => i = h
  BY <1>0, ReadCells
<1>2. /\ pc' = "idle" /\ disk' = disk /\ IsTree(disk) /\ np <= INVALID_INDEX
      /\ folderLookup' = LookupOf(disk.folders, guid, {})
      /\ pathLookup' = LookupOf(disk.paths, guid + nf, {Blank})
  BY <1>0 DEF Read, CarefulInvariant, Invariant, DiskIsForest, IsForest
<1> DEFINE F == 1..nf
           P == 1..np
           E == EntriesIn(disk)
           folderPath(f) == disk.folders[f].fullPath
           fullPath(i) == disk.paths[i].fullPath
<1>3. E = {i \in P : fullPath(i) # Blank}
  BY <1>0 DEF EntriesIn
<1>4. /\ \E f \in F : folderPath(f) = Root
      /\ \A f, g \in F : folderPath(f) = folderPath(g) => f = g
      /\ \A i, h \in E : fullPath(i) = fullPath(h) => i = h
      /\ \A f \in F :
           /\ folderPath(f) # Blank
           /\ folderPath(f) = Root \/ \E i \in E : fullPath(i) = folderPath(f)
           /\ IsList(ChildrenIn(disk, f), disk.folders[f].first + 1, AfterIn(disk))
      /\ \A i \in E :
           /\ fullPath(i) # Root
           /\ \E f \in F : i \in ChildrenIn(disk, f)
           /\ disk.paths[i].isFolder <=> \E f \in F : folderPath(f) = fullPath(i)
           /\ disk.paths[i].isFolder \/ HasExtension(fullPath(i))
      /\ \A i \in P :
           /\ fullPath(i) = Blank => ~disk.paths[i].isFolder
           /\ disk.paths[i].next = INVALID_INDEX \/ disk.paths[i].next < np
  BY <1>0, <1>2 DEF IsTree
<1>5. ASSUME NEW f \in F
      PROVE  /\ folder'[folders'[f]].fullPath = folderPath(f)
             /\ ~IsSet(folder'[folders'[f]].children)
             /\ folder'[folders'[f]].children.index = disk.folders[f].first
             /\ disk.folders[f].first \in Nat
  <2>1. disk.folders[f] \in FolderEntry
        /\ folder'[folders'[f]] = ParseFolder(disk.folders[f])
    BY <1>1
  <2>2. disk.folders[f].first \in Nat
    BY <2>1 DEF FolderEntry
  <2> QED BY <2>1, <2>2 DEF ParseFolder, Start, IsSet
<1>6. ASSUME NEW i \in P
      PROVE  /\ path'[paths'[i]].fullPath = fullPath(i)
             /\ ~IsCell(path'[paths'[i]].folder)
             /\ IsNone(path'[paths'[i]].folder) <=> ~disk.paths[i].isFolder
             /\ disk.paths[i].next \in Nat
             /\ \/ disk.paths[i].next = INVALID_INDEX /\ path'[paths'[i]].next = None
                \/ /\ disk.paths[i].next < np
                   /\ path'[paths'[i]].next = Unresolved(disk.paths[i].next)
  <2>1. /\ path'[paths'[i]] = ParsePath(disk.paths[i]) /\ disk.paths[i].next \in Nat
        /\ disk.paths[i].isFolder \in BOOLEAN
    BY <1>1 DEF PathEntry
  <2>2. /\ path'[paths'[i]].fullPath = fullPath(i)
        /\ path'[paths'[i]].folder
             = IF disk.paths[i].isFolder THEN Unresolved(INVALID_INDEX) ELSE None
        /\ path'[paths'[i]].next = IF disk.paths[i].next = INVALID_INDEX THEN None
                                   ELSE Unresolved(disk.paths[i].next)
    BY <2>1 DEF ParsePath
  <2>3. /\ ~IsNone(Unresolved(INVALID_INDEX)) /\ ~IsCell(Unresolved(INVALID_INDEX))
        /\ IsNone(None) /\ ~IsCell(None)
    BY Kinds DEF Unresolved, IsNone, IsCell
  <2>4. disk.paths[i].next = INVALID_INDEX \/ disk.paths[i].next < np
    BY <1>4
  <2>5. ~IsCell(path'[paths'[i]].folder)
        /\ (IsNone(path'[paths'[i]].folder) <=> ~disk.paths[i].isFolder)
    BY <2>1, <2>2, <2>3
  <2>6. \/ disk.paths[i].next = INVALID_INDEX /\ path'[paths'[i]].next = None
        \/ /\ disk.paths[i].next < np
           /\ path'[paths'[i]].next = Unresolved(disk.paths[i].next)
    BY <2>2, <2>4
  <2> QED BY <2>1, <2>2, <2>5, <2>6
<1>7. /\ \A f \in F : folderPath(f) \in FullPaths
      /\ \A i \in P : fullPath(i) \in FullPaths
  BY <1>1 DEF FolderEntry, PathEntry
<1>8. /\ DOMAIN folderLookup' = {folderPath(f) : f \in F}
      /\ \A f \in F : folderLookup'[folderPath(f)] = folders'[f]
  <2>1. \A i, h \in 1..Len(disk.folders) :
          disk.folders[i].fullPath = disk.folders[h].fullPath
            /\ disk.folders[i].fullPath \notin {} => i = h
    BY <1>0, <1>4
  <2>2. /\ \A p \in DOMAIN LookupOf(disk.folders, guid, {}) :
             p \notin {} /\ \E i \in 1..Len(disk.folders) : p = disk.folders[i].fullPath
        /\ \A i \in 1..Len(disk.folders) :
             disk.folders[i].fullPath \notin {} =>
               /\ disk.folders[i].fullPath \in DOMAIN LookupOf(disk.folders, guid, {})
               /\ LookupOf(disk.folders, guid, {})[disk.folders[i].fullPath]
                    = guid + i - 1
    <3>1. Len(disk.folders) \in Nat
      BY <1>0, <1>1
    <3> QED BY <2>1, <3>1, LookupIsInverse
  <2> HIDE DEF folderPath
  <2>3. \A f \in F : f \in 1..Len(disk.folders) /\ disk.folders[f].fullPath = folderPath(f)
                   /\ folders'[f] = guid + f - 1
    BY <1>0, <1>1 DEF folderPath
  <2>4. \A f \in 1..Len(disk.folders) : f \in F
    BY <1>0
  <2> HIDE DEF F
  <2>5. \A p \in DOMAIN folderLookup' : \E f \in F : p = folderPath(f)
    BY ZenonT(60), <1>2, <2>2, <2>3, <2>4
  <2>6. \A f \in F : /\ folderPath(f) \in DOMAIN folderLookup'
                    /\ folderLookup'[folderPath(f)] = folders'[f]
    BY <1>2, <2>2, <2>3
  <2> QED BY <2>5, <2>6
<1>9. /\ DOMAIN pathLookup' = {fullPath(i) : i \in E}
      /\ \A i \in E : pathLookup'[fullPath(i)] = paths'[i]
  <2>1. \A i, h \in 1..Len(disk.paths) :
          disk.paths[i].fullPath = disk.paths[h].fullPath
            /\ disk.paths[i].fullPath \notin {Blank} => i = h
    BY <1>0, <1>3, <1>4
  <2>2. /\ \A p \in DOMAIN LookupOf(disk.paths, guid + nf, {Blank}) :
             /\ p \notin {Blank}
             /\ \E i \in 1..Len(disk.paths) : p = disk.paths[i].fullPath
        /\ \A i \in 1..Len(disk.paths) :
             disk.paths[i].fullPath \notin {Blank} =>
               /\ disk.paths[i].fullPath \in DOMAIN LookupOf(disk.paths, guid + nf, {Blank})
               /\ LookupOf(disk.paths, guid + nf, {Blank})[disk.paths[i].fullPath]
                    = (guid + nf) + i - 1
    <3>1. Len(disk.paths) \in Nat
      BY <1>0, <1>1
    <3> QED BY <2>1, <3>1, LookupIsInverse
  <2>3. \A p \in DOMAIN pathLookup' : \E i \in E : p = fullPath(i)
    BY <1>0, <1>2, <1>3, <2>2
  <2>4. \A i \in E : i \in 1..Len(disk.paths) /\ disk.paths[i].fullPath \notin {Blank}
                     /\ paths'[i] = (guid + nf) + i - 1
    BY <1>0, <1>1, <1>3
  <2> HIDE DEF fullPath, E
  <2>5. \A i \in E : /\ fullPath(i) \in DOMAIN pathLookup'
                    /\ pathLookup'[fullPath(i)] = paths'[i]
    BY <1>2, <2>2, <2>4 DEF fullPath
  <2> QED BY <2>3, <2>5
<1> HIDE DEF F, P, E, folderPath, fullPath
<1>10. Entries' = {paths'[i] : i \in E}
  <2>1. \A i \in P : paths'[i] \in Entries' <=> i \in E
    BY <1>1, <1>3, <1>6 DEF Entries, P
  <2>2. \A c \in Entries' : \E i \in P : c = paths'[i]
    BY <1>1 DEF Entries, P
  <2>3. E \subseteq P
    BY <1>3
  <2> QED BY <2>1, <2>2, <2>3
<1>11. \A i \in E : i \in P /\ fullPath(i) # Blank /\ paths'[i] \in DOMAIN path'
                    /\ path'[paths'[i]].fullPath = fullPath(i)
  BY <1>1, <1>3, <1>6 DEF P
<1>12. ASSUME NEW f \in F, NEW g, g = folders'[f]
       PROVE  ChildrenOf(g)' = {paths'[i] : i \in ChildrenIn(disk, f)}
  <2>1. ChildrenOf(g)'
          = {c \in Entries' :
               Parent(path'[c].fullPath) = Prefix(folder'[g].fullPath)}
    BY DEF ChildrenOf
  <2>2. ChildrenIn(disk, f) = {i \in E : Parent(fullPath(i)) = Prefix(folderPath(f))}
    BY DEF ChildrenIn, E, fullPath, folderPath
  <2>3. folder'[g].fullPath = folderPath(f)
    BY <1>5, <1>12
  <2> QED BY <1>10, <1>11, <2>1, <2>2, <2>3
<1>13. FoldersNamed'
  <2>1. Root \in DOMAIN folderLookup'
    BY <1>4, <1>8
  <2>2. DOMAIN folderLookup' = {folder'[g].fullPath : g \in DOMAIN folder'}
    <3>1. \A f \in F : folders'[f] \in DOMAIN folder'
                      /\ folder'[folders'[f]].fullPath = folderPath(f)
      BY <1>1, <1>5 DEF F
    <3>2. \A g \in DOMAIN folder' : \E f \in F : g = folders'[f]
      BY <1>1 DEF F
    <3> QED BY <1>8, <3>1, <3>2
  <2>3. ASSUME NEW g \in DOMAIN folder'
        PROVE  folder'[g].fullPath # Blank /\ folderLookup'[folder'[g].fullPath] = g
    <3>1. PICK f \in F : g = folders'[f]
      BY <1>1 DEF F
    <3> QED BY <1>4, <1>5, <1>8, <3>1
  <2> QED BY <2>1, <2>2, <2>3 DEF FoldersNamed
<1>14. PathsNamed'
  <2>1. DOMAIN pathLookup' = {path'[c].fullPath : c \in Entries'}
    BY <1>9, <1>10, <1>11
  <2>2. \A c \in Entries' : pathLookup'[path'[c].fullPath] = c
    BY <1>9, <1>10, <1>11
  <2> QED BY <2>1, <2>2 DEF PathsNamed
<1>15. PathsInFolders'
  <2>1. ASSUME NEW i \in E
        PROVE  /\ path'[paths'[i]].fullPath # Root
               /\ \E g \in DOMAIN folder' : paths'[i] \in ChildrenOf(g)'
    <3>1. PICK f \in F : i \in ChildrenIn(disk, f)
      BY <1>4
    <3>2. PICK g \in DOMAIN folder' : g = folders'[f]
      BY <1>1 DEF F
    <3>3. paths'[i] \in ChildrenOf(g)'
      BY <1>12, <3>1, <3>2
    <3> QED BY <1>4, <1>11, <3>3
  <2> QED BY <1>10, <2>1 DEF PathsInFolders
<1>16. EntriesMatchFolders'
  <2>1. ASSUME NEW i \in E
        PROVE  IF IsNone(path'[paths'[i]].folder)
                 THEN /\ path'[paths'[i]].fullPath \notin DOMAIN folderLookup'
                      /\ HasExtension(path'[paths'[i]].fullPath)
                 ELSE /\ path'[paths'[i]].fullPath \in DOMAIN folderLookup'
                      /\ ~IsCell(path'[paths'[i]].folder)
    <3>1. fullPath(i) \in DOMAIN folderLookup' <=> disk.paths[i].isFolder
      BY <1>4, <1>8
    <3> QED BY <1>4, <1>6, <1>11, <3>1
  <2>2. ASSUME NEW c \in DOMAIN path' \ Entries' PROVE IsNone(path'[c].folder)
    <3>1. PICK i \in P : c = paths'[i]
      BY <1>1 DEF P
    <3>2. fullPath(i) = Blank
      BY <1>3, <1>10, <3>1
    <3> QED BY <1>4, <1>6, <3>1, <3>2
  <2>3. DOMAIN folderLookup' \subseteq DOMAIN pathLookup' \cup {Root}
    BY <1>4, <1>8, <1>9
  <2> QED BY <1>10, <2>1, <2>2, <2>3 DEF EntriesMatchFolders
<1>17. ~Settled'
  <2>1. PICK f \in F : folderPath(f) = Root
    BY <1>4
  <2>2. folders'[f] \in DOMAIN folder' /\ ~IsSet(folder'[folders'[f]].children)
    BY <1>1, <1>5 DEF F
  <2> QED BY <2>2 DEF Settled
<1>18. RefsInBounds'
  <2>1. ASSUME NEW c \in DOMAIN path', IsUnresolved(path'[c].next)
        PROVE  InBounds(paths', path'[c].next.index)
    <3>1. PICK i \in P : c = paths'[i]
      BY <1>1 DEF P
    <3>2. disk.paths[i].next < np /\ path'[c].next = Unresolved(disk.paths[i].next)
      BY <1>6, <2>1, <3>1, Kinds
    <3>3. path'[c].next.index = disk.paths[i].next
      BY <3>2 DEF Unresolved
    <3> QED BY <1>1, <3>2, <3>3 DEF InBounds
  <2> QED BY <1>2, <1>17, <2>1 DEF RefsInBounds
<1>19. ASSUME NEW i \in P
       PROVE  After'[paths'[i]] = {paths'[n] : n \in AfterIn(disk)[i]}
  <2>1. AfterIn(disk)[i] = {n \in P : n = disk.paths[i].next + 1}
    BY <1>0 DEF AfterIn, P
  <2>2. After'[paths'[i]]
          = {d \in DOMAIN path' :
               \/ path'[paths'[i]].next = Resolved(d)
               \/ /\ IsUnresolved(path'[paths'[i]].next)
                  /\ InBounds(paths', path'[paths'[i]].next.index)
                  /\ d = CellAt(paths', path'[paths'[i]].next.index)}
    BY <1>1 DEF After, P
  <2>3. CASE disk.paths[i].next = INVALID_INDEX /\ path'[paths'[i]].next = None
    <3>1. After'[paths'[i]] = {}
      BY <2>2, <2>3, Kinds
    <3>2. \A n \in P : n # disk.paths[i].next + 1
      BY <1>1, <1>2, <2>3 DEF P, INVALID_INDEX
    <3> QED BY <2>1, <3>1, <3>2
  <2>4. CASE /\ disk.paths[i].next < np
             /\ path'[paths'[i]].next = Unresolved(disk.paths[i].next)
    <3>1. /\ IsUnresolved(path'[paths'[i]].next)
          /\ path'[paths'[i]].next.index = disk.paths[i].next
          /\ \A d : path'[paths'[i]].next # Resolved(d)
      BY <2>4 DEF Unresolved, IsUnresolved, Resolved
    <3>2. /\ InBounds(paths', disk.paths[i].next)
          /\ disk.paths[i].next + 1 \in P
          /\ CellAt(paths', disk.paths[i].next) = paths'[disk.paths[i].next + 1]
      <4>1. disk.paths[i].next \in Nat /\ np \in Nat /\ Len(paths') = np
        BY <1>1, <1>6
      <4>2. disk.paths[i].next + 1 \in P
        BY <2>4, <4>1 DEF P
      <4> QED BY <2>4, <4>1, <4>2 DEF InBounds, CellAt
    <3>3. paths'[disk.paths[i].next + 1] \in DOMAIN path'
      BY <1>1, <3>2 DEF P
    <3>4. After'[paths'[i]] = {paths'[disk.paths[i].next + 1]}
      BY <2>2, <3>1, <3>2, <3>3
    <3>5. AfterIn(disk)[i] = {disk.paths[i].next + 1}
      BY <2>1, <3>2
    <3> QED BY <3>4, <3>5
  <2> QED BY <1>6, <2>3, <2>4
<1>20. ASSUME NEW g \in DOMAIN folder'
       PROVE  /\ ~IsSet(folder'[g].children)
              /\ InBounds(paths', folder'[g].children.index)
              /\ IsList(ChildrenOf(g)', CellAt(paths', folder'[g].children.index), After')
              /\ ChildrenOf(g)' # {}
  <2>1. PICK f \in F : g = folders'[f]
    BY <1>1 DEF F
  <2>2. PICK first : first = disk.folders[f].first
    OBVIOUS
  <2>3. ~IsSet(folder'[g].children) /\ folder'[g].children.index = first /\ first \in Nat
    BY <1>5, <2>1, <2>2
  <2>4. IsList(ChildrenIn(disk, f), first + 1, AfterIn(disk))
    BY <1>4, <2>2
  <2>5. first + 1 \in ChildrenIn(disk, f) /\ ChildrenIn(disk, f) \subseteq P
    BY <1>11, <2>4 DEF IsList, ChildrenIn, E
  <2>6. InBounds(paths', first) /\ CellAt(paths', first) = paths'[first + 1]
    BY <1>1, <2>3, <2>5 DEF InBounds, CellAt, P
  <2>8. ChildrenOf(g)' = {paths'[i] : i \in ChildrenIn(disk, f)}
    BY <1>12, <2>1
  <2>7. IsList(ChildrenOf(g)', paths'[first + 1], After')
    <3>1. \A i \in ChildrenIn(disk, f) :
            After'[paths'[i]] = {paths'[n] : n \in AfterIn(disk)[i]}
      BY <1>19, <2>5
    <3>2. PICK C, D, cell, after, after2, head :
            /\ C = ChildrenIn(disk, f) /\ after = AfterIn(disk) /\ cell = paths'
            /\ D = ChildrenOf(g)' /\ after2 = After' /\ head = first + 1
      OBVIOUS
    <3>3. D = Renamed(C, cell)
      BY <2>8, <3>2 DEF Renamed
    <3>4. \A c \in C : after2[cell[c]] = Renamed(after[c], cell)
      BY <3>1, <3>2 DEF Renamed
    <3>5. IsList(C, head, after)
      BY <2>4, <3>2
    <3>6. IsList(D, cell[head], after2)
      BY <3>3, <3>4, <3>5, ListRenamed
    <3> QED BY <3>2, <3>6
  <2>9. ChildrenOf(g)' # {}
    BY <2>5, <2>8
  <2> QED BY <2>3, <2>6, <2>7, <2>8, <2>9
<1>21. ListsAreComplete' /\ NoFolderIsEmpty'
  BY <1>20 DEF ListsAreComplete, NoFolderIsEmpty
<1> QED
  BY <1>2, <1>13, <1>14, <1>15, <1>16, <1>18, <1>21
  DEF CarefulInvariant, TreeOK, AddOK, PushOK, NoPanic
-----------------------------------------------------------------------------
(* Writing. *)

\* The image is what a writer that has pushed everything writes.
Writes(image) ==
  Pushed /\ target # "engine" /\ Serialisable /\ image = WrittenImage

\* The entries of the image written, dF and dP, and the cells they are made of,
\* ft and pt.
IsWritten(image, ft, pt, nf, np, dF, dP) ==
  /\ dF = image.folders /\ dP = image.paths
  /\ image.folderKeys = DOMAIN folderLookup
  /\ image.pathKeys = DOMAIN pathLookup
  /\ image.pathLinks = np
  /\ nf \in Nat /\ np \in Nat /\ np <= INVALID_INDEX
  /\ Len(dF) = nf /\ Len(dP) = np
  /\ \A f \in 1..nf :
       ft[f] \in DOMAIN folder /\ dF[f] = WriteFolder(folder[ft[f]])
  /\ \A f \in DOMAIN folder : \E i \in 1..nf : f = ft[i]
  /\ \A f, g \in 1..nf : ft[f] = ft[g] => f = g
  /\ \A i \in 1..np :
       /\ pt[i] \in Entries /\ pt[i] \in DOMAIN path
       /\ dP[i] = WritePath(path[pt[i]])
  /\ \A c \in Entries :
       /\ \E i \in 1..np : c = pt[i]
       /\ HashKeyIndex(GetIndex(pathMaker, c)) = GetIndex(pathMaker, c)
       /\ GetIndex(pathMaker, c) + 1 \in 1..np
       /\ GetIndex(pathMaker, c) \in Nat
       /\ pt[GetIndex(pathMaker, c) + 1] = c
  /\ \A i, h \in 1..np : pt[i] = pt[h] => i = h

LEMMA WrittenFields ==
  /\ \A f : WriteFolder(f).fullPath = f.fullPath
  /\ \A f : f.children.cells # <<>> =>
       WriteFolder(f).first = GetIndex(pathMaker, f.children.cells[1])
  /\ \A p : /\ WritePath(p).fullPath = p.fullPath
            /\ WritePath(p).isFolder <=> ~IsNone(p.folder)
            /\ WritePath(p).next =
                 IF IsNone(p.next) THEN INVALID_INDEX
                 ELSE HashKeyIndex(GetIndex(pathMaker, p.next.cell))
BY DEF WriteFolder, WritePath

LEMMA WrittenEntries ==
  ASSUME TypeOK, Invariant, CarefulInvariant, NEW image, Writes(image)
  PROVE  \E ft, pt, nf, np, dF, dP : IsWritten(image, ft, pt, nf, np, dF, dP)
<1> DEFINE ft == folderMaker.table
           pt == pathMaker.table
           nf == Len(ft)
           np == Len(pt)
           dF == image.folders
           dP == image.paths
<1>1. image = WrittenImage /\ Pushed /\ target # "engine"
  BY DEF Writes
<1>2. Cells(ft) = DOMAIN folder /\ Cells(pt) = Entries
  BY <1>1, CarefulWriter
<1>3. MakerOK(folderMaker) /\ MakerOK(pathMaker) /\ nf \in Nat /\ np \in Nat
      /\ np <= MaxTable
  <2>1. ft \in Seq(DOMAIN folder) /\ pt \in Seq(DOMAIN path)
    BY DEF TypeOK, IsMaker
  <2> QED BY <2>1, LenProperties DEF Invariant, MakersOK
<1>4. np <= INVALID_INDEX
  BY <1>3, ConstantsOK DEF INVALID_INDEX
<1>5. /\ Len(dF) = nf /\ Len(dP) = np
      /\ \A f \in 1..nf : dF[f] = WriteFolder(folder[ft[f]])
      /\ \A i \in 1..np : dP[i] = WritePath(path[pt[i]])
      /\ image.folderKeys = DOMAIN folderLookup /\ image.pathKeys = DOMAIN pathLookup
      /\ image.pathLinks = np
  BY <1>1, <1>3 DEF WrittenImage
<1>6. /\ \A f, g \in 1..nf : ft[f] = ft[g] => f = g
      /\ \A i, h \in 1..np : pt[i] = pt[h] => i = h
  BY <1>3, MakerInjective
<1>7. ASSUME NEW c \in Entries
      PROVE  /\ \E i \in 1..np : c = pt[i]
             /\ HashKeyIndex(GetIndex(pathMaker, c)) = GetIndex(pathMaker, c)
             /\ GetIndex(pathMaker, c) + 1 \in 1..np
             /\ GetIndex(pathMaker, c) \in Nat
             /\ pt[GetIndex(pathMaker, c) + 1] = c
  <2>1. HasCell(pathMaker, c)
    BY <1>2, <1>3 DEF HasCell, MakerOK
  <2>2. PICK i \in 1..np : c = pt[i]
    BY <1>2 DEF Cells
  <2>3. GetIndex(pathMaker, c) = i - 1
    BY <1>3, <2>2 DEF GetIndex, MakerOK
  <2> QED BY <1>3, <2>1, <2>2, <2>3, IndexSurvives
<1>8. \A f \in DOMAIN folder : \E i \in 1..nf : f = ft[i]
  BY <1>2 DEF Cells
<1>9. (\A f \in 1..nf : ft[f] \in DOMAIN folder) /\ \A i \in 1..np : pt[i] \in Entries
  BY <1>2 DEF Cells
<1>10. \A c \in Entries : c \in DOMAIN path
  BY DEF Entries
<1> HIDE DEF ft, pt, nf, np, dF, dP
<1>11. dF = image.folders /\ dP = image.paths
  BY DEF dF, dP
<1>12. IsWritten(image, ft, pt, nf, np, dF, dP)
  BY <1>3, <1>4, <1>5, <1>6, <1>7, <1>8, <1>9, <1>10, <1>11, Zenon DEF IsWritten
<1> QED
  BY <1>12

\* The next entry of an entry is the entry of the next cell.
LEMMA WrittenNext ==
  ASSUME TypeOK, Invariant, CarefulInvariant, NEW image, Writes(image),
         NEW ft, NEW pt, NEW nf, NEW np, NEW dF, NEW dP,
         IsWritten(image, ft, pt, nf, np, dF, dP), NEW i \in 1..np
  PROVE  \/ path[pt[i]].next = None /\ dP[i].next = INVALID_INDEX
         \/ /\ dP[i].next \in Nat /\ dP[i].next + 1 \in 1..np
            /\ path[pt[i]].next = Resolved(pt[dP[i].next + 1])
<1>1. /\ \A n \in 1..np :
           /\ pt[n] \in Entries /\ pt[n] \in DOMAIN path
           /\ dP[n] = WritePath(path[pt[n]])
      /\ \A c \in Entries : \E n \in 1..np : c = pt[n]
      /\ \A n, h \in 1..np : pt[n] = pt[h] => n = h
  BY Zenon DEF IsWritten
<1>2. pc = "push" /\ Pushed /\ target # "engine"
  BY DEF Writes, Pushed
<1>3. \A c \in Entries :
        /\ HashKeyIndex(GetIndex(pathMaker, c)) = GetIndex(pathMaker, c)
        /\ GetIndex(pathMaker, c) + 1 \in 1..np
        /\ GetIndex(pathMaker, c) \in Nat
        /\ pt[GetIndex(pathMaker, c) + 1] = c
  BY Zenon DEF IsWritten
<1>4. /\ pt[i] \in DOMAIN path
      /\ dP[i].next = IF IsNone(path[pt[i]].next) THEN INVALID_INDEX
                      ELSE HashKeyIndex(GetIndex(pathMaker, path[pt[i]].next.cell))
  BY <1>1, WrittenFields
<1>5. CASE IsNone(path[pt[i]].next)
  BY <1>4, <1>5, NextType
<1>6. CASE ~IsNone(path[pt[i]].next)
  <2>0. PICK d : d = path[pt[i]].next.cell
    OBVIOUS
  <2>1. IsCell(path[pt[i]].next) /\ HasCell(pathMaker, d)
    <3>1. pt[i] \in Cells(pathMaker.table)
      BY <1>1, <1>2, CarefulWriter
    <3> QED BY <1>6, <2>0, <3>1 DEF Writes, Serialisable
  <2>2. path[pt[i]].next = Resolved(d)
    BY <1>4, <2>0, <2>1, NextType
  <2>3. d \in Entries
    <3>1. d \in Cells(pathMaker.table)
      BY <2>1 DEF Invariant, MakersOK, MakerOK, HasCell
    <3> QED BY <1>2, <3>1, CarefulWriter
  <2>4. dP[i].next = GetIndex(pathMaker, d)
    BY <1>3, <1>4, <1>6, <2>0, <2>3
  <2> QED BY <1>3, <2>2, <2>3, <2>4
<1> QED
  BY <1>5, <1>6

\* The m entries s of the table dP, with cells pt, form the list that begins
\* with the index "first", and are those of the cells.
IsListAt(s, m, first, np, dP, pt, cells) ==
  /\ Len(s) = m /\ s[1] = first + 1
  /\ \A n \in 1..m : s[n] \in 1..np /\ pt[s[n]] = cells[n]
  /\ \A n, h \in 1..m : s[n] = s[h] => n = h
  /\ \A n \in 1..m : dP[s[n]].next = IF n < m THEN s[n + 1] - 1 ELSE INVALID_INDEX

\* The list of a folder's entry is that of its cells.
LEMMA WrittenList ==
  ASSUME TypeOK, Invariant, CarefulInvariant, NEW image, Writes(image),
         NEW ft, NEW pt, NEW nf, NEW np, NEW dF, NEW dP,
         IsWritten(image, ft, pt, nf, np, dF, dP), NEW f \in 1..nf,
         NEW cells, cells = folder[ft[f]].children.cells, NEW m, m = Len(cells)
  PROVE  /\ m \in Nat /\ m >= 1
         /\ Cells(cells) = ChildrenOf(ft[f])
         /\ \A n \in 1..m : cells[n] \in ChildrenOf(ft[f])
         /\ \E s \in Seq(1..np) : IsListAt(s, m, dF[f].first, np, dP, pt, cells)
<1>1. pc = "push" /\ IsOpen /\ TreeOK /\ Settled
  BY DEF Writes, Pushed, IsOpen, CarefulInvariant, PushOK
<1>2. ListsAreComplete /\ NoFolderIsEmpty
  BY <1>1, TreeParts
<1>3. ft[f] \in DOMAIN folder /\ dF[f] = WriteFolder(folder[ft[f]])
  BY Zenon DEF IsWritten
<1>4. \A c \in Entries :
        /\ GetIndex(pathMaker, c) + 1 \in 1..np
        /\ GetIndex(pathMaker, c) \in Nat
        /\ pt[GetIndex(pathMaker, c) + 1] = c
  BY Zenon DEF IsWritten
<1>5. \A i, h \in 1..np : pt[i] = pt[h] => i = h
  BY Zenon DEF IsWritten
<1>6. /\ IsSet(folder[ft[f]].children) /\ cells \in Seq(DOMAIN path)
      /\ Cells(cells) = ChildrenOf(ft[f]) /\ cells # <<>>
  <2>1. IsSet(folder[ft[f]].children)
    BY <1>1, <1>3 DEF Settled
  <2>2. cells \in Seq(DOMAIN path)
    BY <1>3, <2>1, TableCells DEF IsSet, SearchFolder, ReferenceSetOf
  <2>3. Cells(cells) = ChildrenOf(ft[f]) /\ ChildrenOf(ft[f]) # {}
    BY <1>1, <1>2, <1>3, <2>1 DEF ListsAreComplete, NoFolderIsEmpty
  <2>4. cells # <<>>
    BY <2>2, <2>3, LenProperties, EmptySeq DEF Cells
  <2> QED BY <2>1, <2>2, <2>3, <2>4
<1>7. /\ m \in Nat /\ m >= 1
      /\ \A n \in 1..m : cells[n] \in Entries /\ cells[n] \in ChildrenOf(ft[f])
  <2>1. m \in Nat /\ m # 0
    BY <1>6, LenProperties, EmptySeq
  <2>2. \A n \in 1..m : cells[n] \in ChildrenOf(ft[f])
    BY <1>6 DEF Cells
  <2> QED BY <2>1, <2>2 DEF ChildrenOf
<1>8. PICK s : s = [n \in 1..m |-> GetIndex(pathMaker, cells[n]) + 1]
  OBVIOUS
<1>9. \A n \in 1..m : s[n] \in 1..np /\ pt[s[n]] = cells[n]
  BY <1>4, <1>7, <1>8
<1>10. s \in Seq(1..np) /\ Len(s) = m
  <2>1. s \in [1..m -> 1..np] /\ DOMAIN s = 1..m
    BY <1>8, <1>9
  <2>2. m \in Nat
    BY <1>7
  <2>3. s \in Seq(1..np)
    <3>1. \A S, x : x \in Nat /\ s \in [1..x -> S] => s \in Seq(S)
      BY SeqDef
    <3> QED BY <2>1, <2>2, <3>1
  <2> QED BY <2>1, <2>2, <2>3, LenProperties
<1>11. \A n \in 1..m : path[cells[n]].next = IF n < m THEN Resolved(cells[n + 1]) ELSE None
  BY <1>3, <1>6 DEF Invariant, HeapOK, ChildrenAreLinked
<1>12. ASSUME NEW n \in 1..m
       PROVE  dP[s[n]].next = IF n < m THEN s[n + 1] - 1 ELSE INVALID_INDEX
  <2>0. s[n] \in 1..np /\ pt[s[n]] = cells[n]
    BY <1>9
  <2>1. \/ path[cells[n]].next = None /\ dP[s[n]].next = INVALID_INDEX
        \/ /\ dP[s[n]].next \in Nat /\ dP[s[n]].next + 1 \in 1..np
           /\ path[cells[n]].next = Resolved(pt[dP[s[n]].next + 1])
    BY SMTT(60), <2>0, WrittenNext
  <2>2. \A d : Resolved(d) # None /\ Resolved(d).cell = d
    BY Kinds DEF Resolved, None
  <2>3. CASE n < m
    <3>1. n + 1 \in 1..m /\ path[cells[n]].next = Resolved(cells[n + 1])
      BY <1>7, <1>11, <2>3
    <3>2. /\ dP[s[n]].next \in Nat /\ dP[s[n]].next + 1 \in 1..np
          /\ pt[dP[s[n]].next + 1] = cells[n + 1]
      BY <2>1, <2>2, <3>1
    <3>3. s[n + 1] \in 1..np /\ pt[s[n + 1]] = cells[n + 1]
      BY <1>9, <3>1
    <3>4. dP[s[n]].next + 1 = s[n + 1]
      BY <1>5, <3>2, <3>3
    <3> QED BY <2>3, <3>2, <3>4
  <2>4. CASE ~(n < m)
    BY <1>11, <2>1, <2>2, <2>4
  <2> QED BY <2>3, <2>4
<1>13. s[1] = dF[f].first + 1
  <2>1. 1 \in 1..m /\ s[1] = GetIndex(pathMaker, cells[1]) + 1
    BY <1>7, <1>8
  <2>2. dF[f].first = GetIndex(pathMaker, cells[1])
    BY <1>3, <1>6, WrittenFields
  <2> QED BY <2>1, <2>2
<1>14. ASSUME NEW n \in 1..m, NEW h \in 1..m, s[n] = s[h] PROVE n = h
  <2>1. cells[n] = cells[h]
    BY <1>9, <1>14
  <2> QED BY <1>3, <1>6, <2>1 DEF Invariant, HeapOK, OneOwner
<1>15. IsListAt(s, m, dF[f].first, np, dP, pt, cells)
  BY <1>9, <1>10, <1>12, <1>13, <1>14 DEF IsListAt
<1> QED
  BY <1>6, <1>7, <1>10, <1>15

\* What the writer writes is a tree because the heap is one.
LEMMA WrittenTree ==
  ASSUME TypeOK, Invariant, CarefulInvariant, NEW image, Writes(image)
  PROVE  IsTree(image) /\ Cardinality(image.pathKeys) = Len(image.paths)
<1>0. PICK ft, pt, nf, np, dF, dP : IsWritten(image, ft, pt, nf, np, dF, dP)
  BY WrittenEntries
<1>1. /\ dF = image.folders /\ dP = image.paths /\ image.pathLinks = np
      /\ image.folderKeys = DOMAIN folderLookup
      /\ image.pathKeys = DOMAIN pathLookup
      /\ nf \in Nat /\ np \in Nat /\ np <= INVALID_INDEX
      /\ Len(dF) = nf /\ Len(dP) = np
  BY <1>0, Zenon DEF IsWritten
<1>2. /\ \A f \in 1..nf :
           ft[f] \in DOMAIN folder /\ dF[f] = WriteFolder(folder[ft[f]])
      /\ \A f \in DOMAIN folder : \E i \in 1..nf : f = ft[i]
      /\ \A f, g \in 1..nf : ft[f] = ft[g] => f = g
  BY <1>0, Zenon DEF IsWritten
<1>3. /\ \A i \in 1..np :
           /\ pt[i] \in Entries /\ pt[i] \in DOMAIN path
           /\ dP[i] = WritePath(path[pt[i]])
      /\ \A c \in Entries : \E i \in 1..np : c = pt[i]
      /\ \A i, h \in 1..np : pt[i] = pt[h] => i = h
  BY <1>0, Zenon DEF IsWritten
<1>4. \A c \in Entries :
        /\ HashKeyIndex(GetIndex(pathMaker, c)) = GetIndex(pathMaker, c)
        /\ GetIndex(pathMaker, c) + 1 \in 1..np
        /\ GetIndex(pathMaker, c) \in Nat
        /\ pt[GetIndex(pathMaker, c) + 1] = c
  BY <1>0, Zenon DEF IsWritten
<1>5. /\ Pushed /\ target # "engine"
      /\ pc = "push" /\ IsOpen /\ TreeOK /\ Settled
  BY DEF Writes, Pushed, IsOpen, CarefulInvariant, PushOK
<1>6. /\ FoldersNamed /\ PathsNamed /\ PathsInFolders /\ EntriesMatchFolders
      /\ ListsAreComplete /\ NoFolderIsEmpty
  BY <1>5, TreeParts
<1>7. /\ \A f \in DOMAIN folder :
           /\ folder[f].fullPath \in DOMAIN folderLookup
           /\ folderLookup[folder[f].fullPath] = f
           /\ folder[f].fullPath # Blank
      /\ \A p \in DOMAIN folderLookup :
           folderLookup[p] \in DOMAIN folder /\ folder[folderLookup[p]].fullPath = p
  BY <1>5, TreeParts
<1>8. /\ \A c \in Entries :
           /\ path[c].fullPath \in DOMAIN pathLookup
           /\ pathLookup[path[c].fullPath] = c
           /\ path[c].fullPath # Blank
      /\ \A p \in DOMAIN pathLookup :
           pathLookup[p] \in Entries /\ path[pathLookup[p]].fullPath = p
  BY <1>5, TreeParts
<1>9. \A f \in 1..nf : dF[f].fullPath = folder[ft[f]].fullPath
  BY <1>2, WrittenFields
<1>10. \A i \in 1..np : /\ dP[i].fullPath = path[pt[i]].fullPath
                        /\ dP[i].isFolder <=> ~IsNone(path[pt[i]].folder)
  BY <1>3, WrittenFields
<1>11. EntriesIn(image) = 1..np
  <2>1. \A i \in 1..np : dP[i].fullPath # Blank
    BY <1>3, <1>8, <1>10
  <2> QED BY <1>1, <2>1 DEF EntriesIn
<1>12. ASSUME NEW f \in 1..nf
       PROVE  ChildrenIn(image, f) = {i \in 1..np : pt[i] \in ChildrenOf(ft[f])}
  <2>1. ChildrenIn(image, f)
          = {i \in 1..np : Parent(dP[i].fullPath) = Prefix(dF[f].fullPath)}
    BY <1>1, <1>11, Zenon DEF ChildrenIn
  <2>2. \A i \in 1..np : pt[i] \in ChildrenOf(ft[f])
                         <=> Parent(path[pt[i]].fullPath) = Prefix(folder[ft[f]].fullPath)
    BY <1>3 DEF ChildrenOf
  <2> QED BY <1>9, <1>10, <2>1, <2>2
<1>13. ASSUME NEW i \in 1..np
       PROVE  \/ path[pt[i]].next = None /\ dP[i].next = INVALID_INDEX
              \/ /\ dP[i].next \in Nat /\ dP[i].next + 1 \in 1..np
                 /\ path[pt[i]].next = Resolved(pt[dP[i].next + 1])
  BY <1>0, WrittenNext
<1>14. PICK after : after = AfterIn(image)
  OBVIOUS
<1>15. ASSUME NEW i \in 1..np
       PROVE  after[i] = {n \in 1..np : n = dP[i].next + 1}
  <2>1. after = [h \in 1..np |-> {n \in 1..np : n = dP[h].next + 1}]
    BY <1>1, <1>14, Zenon DEF AfterIn
  <2> QED BY <2>1
<1>16. ASSUME NEW f \in 1..nf
       PROVE  IsList(ChildrenIn(image, f), dF[f].first + 1, after)
  <2>0. PICK cells, m : cells = folder[ft[f]].children.cells /\ m = Len(cells)
    OBVIOUS
  <2>1. /\ m \in Nat /\ m >= 1 /\ Cells(cells) = ChildrenOf(ft[f])
        /\ \A n \in 1..m : cells[n] \in ChildrenOf(ft[f])
    BY <1>0, <2>0, WrittenList
  <2>a. PICK s \in Seq(1..np) : IsListAt(s, m, dF[f].first, np, dP, pt, cells)
    BY <1>0, <2>0, WrittenList
  <2>2. /\ Len(s) = m /\ s[1] = dF[f].first + 1
        /\ \A n \in 1..m : s[n] \in 1..np /\ pt[s[n]] = cells[n]
        /\ \A n \in 1..m : dP[s[n]].next = IF n < m THEN s[n + 1] - 1
                                           ELSE INVALID_INDEX
    BY <2>a, Zenon DEF IsListAt
  <2>3. s # <<>>
    BY <2>1, <2>2, EmptySeq
  <2>4. ASSUME NEW n \in 1..(m - 1) PROVE after[s[n]] = {s[n + 1]}
    <3>1. n \in 1..m /\ n + 1 \in 1..m /\ n < m
      BY <2>1
    <3>2. s[n] \in 1..np /\ s[n + 1] \in 1..np /\ dP[s[n]].next = s[n + 1] - 1
      BY <2>2, <3>1
    <3>3. after[s[n]] = {h \in 1..np : h = dP[s[n]].next + 1}
      BY <1>15, <3>2
    <3> QED BY <3>2, <3>3
  <2>5. after[LastOf(s)] = {}
    <3>1. m \in 1..m /\ ~(m < m) /\ LastOf(s) = s[m]
      BY <2>1, <2>2 DEF LastOf
    <3>2. s[m] \in 1..np /\ dP[s[m]].next = INVALID_INDEX
      BY <2>2, <3>1
    <3>3. after[s[m]] = {h \in 1..np : h = INVALID_INDEX + 1}
      BY <1>15, <3>2
    <3> QED BY <1>1, <3>1, <3>3 DEF INVALID_INDEX
  <2>6. ChildrenIn(image, f) = Cells(s)
    <3>1. ASSUME NEW i \in 1..np, pt[i] \in ChildrenOf(ft[f]) PROVE i \in Cells(s)
      <4>0. pt[i] \in Cells(cells)
        BY <2>1, <3>1
      <4>1. PICK n \in 1..m : pt[i] = cells[n]
        BY <2>0, <4>0 DEF Cells
      <4>2. s[n] \in 1..np /\ pt[s[n]] = pt[i]
        BY <2>2, <4>1
      <4>3. i = s[n]
        BY <1>3, <4>2
      <4> QED BY <2>2, <4>3 DEF Cells
    <3>2. ASSUME NEW i \in Cells(s) PROVE i \in 1..np /\ pt[i] \in ChildrenOf(ft[f])
      <4>1. PICK n \in 1..m : i = s[n]
        BY <2>2 DEF Cells
      <4> QED BY <2>1, <2>2, <4>1
    <3> QED BY <1>12, <3>1, <3>2
  <2>7. \A n \in 1..(Len(s) - 1) : after[s[n]] = {s[n + 1]}
    BY <2>2, <2>4
  <2>8. PICK C : C = ChildrenIn(image, f)
    OBVIOUS
  <2>9. IsList(C, s[1], after)
    BY <2>3, <2>5, <2>6, <2>7, <2>8, ListIsSequence
  <2> QED BY <2>2, <2>8, <2>9
<1>17. Aligned(image) /\ Cardinality(image.pathKeys) = np
  <2>1. Cardinality(DOMAIN folderLookup) = nf
    <3>1. PICK s, T : s = [i \in 1..nf |-> folder[ft[i]].fullPath] /\ T = DOMAIN folderLookup
      OBVIOUS
    <3>2. \A i \in 1..nf : s[i] = folder[ft[i]].fullPath
      BY <3>1
    <3>3. \A i \in 1..nf : s[i] \in T
      BY <1>2, <1>7, <3>1, <3>2
    <3>4. ASSUME NEW p \in T PROVE \E i \in 1..nf : p = s[i]
      <4>1. PICK i \in 1..nf : folderLookup[p] = ft[i]
        BY <1>2, <1>7, <3>1
      <4> QED BY <1>7, <3>1, <3>2, <4>1
    <3>5. ASSUME NEW i \in 1..nf, NEW h \in 1..nf, s[i] = s[h] PROVE i = h
      <4>1. ft[i] = ft[h]
        BY <1>2, <1>7, <3>2, <3>5
      <4> QED BY <1>2, <4>1
    <3>6. nf \in Nat
      BY <1>1
    <3>7. Cardinality(T) = nf
      BY <3>3, <3>4, <3>5, <3>6, Counted
    <3> QED BY <3>1, <3>7
  <2>2. Cardinality(DOMAIN pathLookup) = np
    <3>1. PICK s, T : s = [i \in 1..np |-> path[pt[i]].fullPath] /\ T = DOMAIN pathLookup
      OBVIOUS
    <3>2. \A i \in 1..np : s[i] = path[pt[i]].fullPath
      BY <3>1
    <3>3. \A i \in 1..np : s[i] \in T
      BY <1>3, <1>8, <3>1, <3>2
    <3>4. ASSUME NEW p \in T PROVE \E i \in 1..np : p = s[i]
      <4>1. PICK i \in 1..np : pathLookup[p] = pt[i]
        BY <1>3, <1>8, <3>1
      <4> QED BY <1>8, <3>1, <3>2, <4>1
    <3>5. ASSUME NEW i \in 1..np, NEW h \in 1..np, s[i] = s[h] PROVE i = h
      <4>1. pt[i] = pt[h]
        BY <1>3, <1>8, <3>2, <3>5
      <4> QED BY <1>3, <4>1
    <3>6. np \in Nat
      BY <1>1
    <3>7. Cardinality(T) = np
      BY <3>3, <3>4, <3>5, <3>6, Counted
    <3> QED BY <3>1, <3>7
  <2> QED BY <1>1, <2>1, <2>2 DEF Aligned
<1>18. \E f \in 1..nf : dF[f].fullPath = Root
  <2>1. Root \in DOMAIN folderLookup
    BY <1>6 DEF FoldersNamed
  <2>2. PICK f \in 1..nf : folderLookup[Root] = ft[f]
    BY <1>2, <1>7, <2>1
  <2> QED BY <1>7, <1>9, <2>1, <2>2
<1>19. ASSUME NEW f \in 1..nf, NEW g \in 1..nf, dF[f].fullPath = dF[g].fullPath
       PROVE  f = g
  <2>1. ft[f] = ft[g]
    BY <1>2, <1>7, <1>9, <1>19
  <2> QED BY <1>2, <2>1
<1>20. ASSUME NEW i \in 1..np, NEW h \in 1..np, dP[i].fullPath = dP[h].fullPath
       PROVE  i = h
  <2>1. pt[i] = pt[h]
    BY <1>3, <1>8, <1>10, <1>20
  <2> QED BY <1>3, <2>1
<1>21. ASSUME NEW f \in 1..nf
       PROVE  /\ dF[f].fullPath # Blank
              /\ dF[f].fullPath = Root \/ \E i \in 1..np : dP[i].fullPath = dF[f].fullPath
  <2>1. dF[f].fullPath \in DOMAIN folderLookup /\ dF[f].fullPath # Blank
    BY <1>2, <1>7, <1>9
  <2>2. dF[f].fullPath \in DOMAIN pathLookup \cup {Root}
    BY <1>6, <2>1 DEF EntriesMatchFolders
  <2>3. ASSUME dF[f].fullPath \in DOMAIN pathLookup
        PROVE  \E i \in 1..np : dP[i].fullPath = dF[f].fullPath
    <3>1. PICK c \in Entries : path[c].fullPath = dF[f].fullPath
      BY <1>8, <2>3
    <3> QED BY <1>3, <1>10, <3>1
  <2> QED BY <2>1, <2>2, <2>3
<1>22. ASSUME NEW i \in 1..np
       PROVE  /\ dP[i].fullPath # Root
              /\ \E f \in 1..nf : i \in ChildrenIn(image, f)
              /\ dP[i].isFolder <=> \E f \in 1..nf : dF[f].fullPath = dP[i].fullPath
              /\ dP[i].isFolder \/ HasExtension(dP[i].fullPath)
              /\ dP[i].fullPath # Blank
  <2>1. /\ pt[i] \in Entries /\ dP[i].fullPath = path[pt[i]].fullPath
        /\ dP[i].isFolder <=> ~IsNone(path[pt[i]].folder)
    BY <1>3, <1>10
  <2>2. \E f \in 1..nf : i \in ChildrenIn(image, f)
    <3>1. PICK g \in DOMAIN folder : pt[i] \in ChildrenOf(g)
      BY <1>6, <2>1 DEF PathsInFolders
    <3>2. PICK f \in 1..nf : g = ft[f]
      BY <1>2
    <3> QED BY <1>12, <3>1, <3>2
  <2>3. (\E f \in 1..nf : dF[f].fullPath = dP[i].fullPath)
           => dP[i].fullPath \in DOMAIN folderLookup
    BY <1>2, <1>7, <1>9
  <2>4. ASSUME dP[i].fullPath \in DOMAIN folderLookup
        PROVE  \E f \in 1..nf : dF[f].fullPath = dP[i].fullPath
    <3>1. PICK f \in 1..nf : folderLookup[dP[i].fullPath] = ft[f]
      BY <1>2, <1>7, <2>4
    <3> QED BY <1>7, <1>9, <2>4, <3>1
  <2>5. path[pt[i]].fullPath # Root
    BY <1>6, <2>1 DEF PathsInFolders
  <2>6. IF IsNone(path[pt[i]].folder)
          THEN /\ path[pt[i]].fullPath \notin DOMAIN folderLookup
               /\ HasExtension(path[pt[i]].fullPath)
          ELSE path[pt[i]].fullPath \in DOMAIN folderLookup
    BY <1>6, <2>1 DEF EntriesMatchFolders
  <2> QED BY <1>8, <2>1, <2>2, <2>3, <2>4, <2>5, <2>6
<1>23. \A i \in 1..np : dP[i].next = INVALID_INDEX \/ dP[i].next < np
  BY <1>1, <1>13
<1>24. IsTree(image)
  <2>1. \A f \in 1..Len(image.folders) :
          IsList(ChildrenIn(image, f), image.folders[f].first + 1, AfterIn(image))
    BY <1>1, <1>14, <1>16
  <2>2. \E f \in 1..Len(image.folders) : image.folders[f].fullPath = Root
    BY <1>1, <1>18
  <2>3. \A f, g \in 1..Len(image.folders) :
          image.folders[f].fullPath = image.folders[g].fullPath => f = g
    BY <1>1, <1>19
  <2>4. \A i, h \in EntriesIn(image) : image.paths[i].fullPath = image.paths[h].fullPath => i = h
    BY <1>1, <1>11, <1>20
  <2>5. \A f \in 1..Len(image.folders) :
          /\ image.folders[f].fullPath # Blank
          /\ \/ image.folders[f].fullPath = Root
             \/ \E i \in EntriesIn(image) : image.paths[i].fullPath = image.folders[f].fullPath
    BY <1>1, <1>11, <1>21
  <2>6. \A i \in EntriesIn(image) :
          /\ image.paths[i].fullPath # Root
          /\ \E f \in 1..Len(image.folders) : i \in ChildrenIn(image, f)
          /\ image.paths[i].isFolder
               <=> \E f \in 1..Len(image.folders) : image.folders[f].fullPath = image.paths[i].fullPath
          /\ image.paths[i].isFolder \/ HasExtension(image.paths[i].fullPath)
    BY <1>1, <1>11, <1>22
  <2>7. \A i \in 1..Len(image.paths) :
          /\ image.paths[i].fullPath = Blank => ~image.paths[i].isFolder
          /\ image.paths[i].next = INVALID_INDEX \/ image.paths[i].next < Len(image.paths)
    BY <1>1, <1>22, <1>23
  <2> QED
    BY <1>17, <2>1, <2>2, <2>3, <2>4, <2>5, <2>6, <2>7, Zenon
    DEF IsTree
<1> QED
  BY <1>1, <1>17, <1>24

LEMMA CarefulWrite ==
  ASSUME TypeOK, Invariant, CarefulInvariant, Write
  PROVE  CarefulInvariant'
<1>1. PICK image : image = disk'
  OBVIOUS
<1>2. Writes(image)
  BY <1>1 DEF Writes, Write
<1>3. IsTree(disk')
  BY <1>1, <1>2, WrittenTree
<1>4. pc' = "closed"
  BY DEF Write
<1> QED
  BY <1>3, <1>4 DEF CarefulInvariant, TreeOK, IsOpen, AddOK, PushOK, NoPanic, IsTree

-----------------------------------------------------------------------------
(* The theorems. *)

LEMMA CarefulInit ==
  CarefulClient /\ Init => CarefulInvariant
BY DEF CarefulClient, Init, CarefulInvariant, NoPanic, TreeOK, IsOpen, AddOK, PushOK

LEMMA CarefulStutters ==
  TypeOK /\ CarefulInvariant /\ UNCHANGED vars => CarefulInvariant'
<1> SUFFICES ASSUME TypeOK, CarefulInvariant, UNCHANGED vars PROVE CarefulInvariant'
  OBVIOUS
<1> USE DEF vars, heapVars, tableVars, lookupVars, addVars, walkVars, makerVars
<1>1. UNCHANGED <<folder, path, folders, paths, folderLookup, pathLookup, disk, pc,
                  file, depth, current, k, j, folderMaker, pathMaker, target>>
  OBVIOUS
<1>2. TreeOK'
  <2>1. (FoldersNamed <=> FoldersNamed') /\ (RefsInBounds <=> RefsInBounds')
        /\ (EntriesMatchFolders <=> EntriesMatchFolders')
        /\ (PathsNamed <=> PathsNamed')
    BY DEF FoldersNamed, RefsInBounds, Settled, EntriesMatchFolders, Entries, PathsNamed
  <2>2. Entries' = Entries /\ (\A f : ChildrenOf(f)' = ChildrenOf(f)) /\ After' = After
    BY DEF Entries, ChildrenOf, After
  <2>3. (PathsInFolders <=> PathsInFolders') /\ (NoFolderIsEmpty <=> NoFolderIsEmpty')
        /\ (ListsAreComplete <=> ListsAreComplete')
    BY <2>2 DEF PathsInFolders, NoFolderIsEmpty, ListsAreComplete, IsList
  <2> QED BY <2>1, <2>3 DEF CarefulInvariant, TreeOK, IsOpen
<1>3. AddOK'
  BY DEF CarefulInvariant, AddOK, Settled
<1>4. PushOK'
  BY DEF CarefulInvariant, PushOK, Settled, Listed, Cells, HasCell
<1> QED
  BY <1>2, <1>3, <1>4 DEF CarefulInvariant, NoPanic

LEMMA CarefulStep ==
  ASSUME Liberties = {}, TypeOK, Invariant, CarefulInvariant, Next
  PROVE  CarefulInvariant'
<1>2. CASE ResolveStep
  BY <1>2, CarefulWalk, CarefulWalkStop DEF ResolveStep
<1>3. CASE AddStep
  BY <1>3, CarefulDescend, CarefulMakeFolder, CarefulMakeFile, CarefulNoAddPanic
  DEF AddStep
<1>4. CASE WriterStep
  BY <1>4, CarefulPushFolder, CarefulPushPath, CarefulPushNext, CarefulReorganize,
     CarefulWrite, CarefulNoWritePanic
  DEF WriterStep
<1>5. CASE ClientStep
  <2>1. CASE \E f \in Files : AddFile(f)
    BY <2>1, CarefulAddFile
  <2>2. CASE \E p \in DOMAIN folderLookup : ListFolder(folderLookup[p])
    <3>1. PICK f : ListFolder(f)
      BY <2>2
    <3> QED BY <3>1, CarefulListFolder
  <2>3. CASE \E t \in {"engine", "memory", "directory"} : FromEngine(t)
    BY <2>3, CarefulFromEngine
  <2> QED
    BY <1>5, <2>1, <2>2, <2>3, CarefulRead, CarefulNeverGarbled, CarefulResolvePaths,
       CarefulNoResolvePathsPanic
    DEF ClientStep
<1> QED
  BY <1>2, <1>3, <1>4, <1>5 DEF Next, CallStep

\* A careful client's program keeps CarefulInvariant.
THEOREM CarefulInvariantHolds == CarefulClient /\ Spec => []CarefulInvariant
<1>1. CarefulClient /\ Init => CarefulInvariant
  BY CarefulInit
<1>2. CarefulClient /\ TypeOK /\ Invariant /\ CarefulInvariant /\ [Next]_vars
        => CarefulInvariant'
  BY CarefulStep, CarefulStutters DEF CarefulClient
<1>3. Spec => []TypeOK /\ []Invariant
  BY TypeCorrect, InvariantHolds, PTL
<1> SUFFICES ASSUME CarefulClient PROVE Spec => []CarefulInvariant
  OBVIOUS
<1>4. Init => CarefulInvariant
  BY <1>1
<1>5. TypeOK /\ Invariant /\ CarefulInvariant /\ [Next]_vars => CarefulInvariant'
  BY <1>2
<1> QED
  BY <1>3, <1>4, <1>5, PTL DEF Spec

\* NoPanic: no call of a careful client's program panics, and every image it
\* writes is read back as it was.
THEOREM CarefulNeverPanics == CarefulClient /\ Spec => []NoPanic
<1>1. CarefulInvariant => NoPanic
  BY DEF CarefulInvariant
<1> QED
  BY <1>1, CarefulInvariantHolds, PTL

\* Between calls every entry is in a vector.
LEMMA CarefulChildren ==
  ASSUME TypeOK, CarefulInvariant, pc = "idle", Settled
  PROVE  /\ Children = Entries
         /\ \A f \in DOMAIN folder : Cells(folder[f].children.cells) = ChildrenOf(f)
<1>1. /\ PathsInFolders
      /\ \A f \in DOMAIN folder : Cells(folder[f].children.cells) = ChildrenOf(f)
  BY TreeParts DEF CarefulInvariant, IsOpen, ListsAreComplete, Settled
<1> QED
  BY <1>1 DEF Children, PathsInFolders, ChildrenOf

\* LookupIsTree: of a careful client's engine the hash -> path lookup knows the
\* paths that the folders list, each under its own path, and no other.
THEOREM CarefulLookup == CarefulClient /\ Spec => []LookupIsTree
<1>1. TypeOK /\ CarefulInvariant => LookupIsTree
  <2> SUFFICES ASSUME TypeOK, CarefulInvariant, pc = "idle", Settled
               PROVE  /\ DOMAIN pathLookup = {path[c].fullPath : c \in Children}
                      /\ \A p \in DOMAIN pathLookup :
                           pathLookup[p] \in Children /\ path[pathLookup[p]].fullPath = p
    BY DEF LookupIsTree
  <2>1. Children = Entries
    BY CarefulChildren
  <2>2. PathsNamed /\ \A p \in DOMAIN pathLookup :
                        pathLookup[p] \in Entries /\ path[pathLookup[p]].fullPath = p
    BY TreeParts DEF CarefulInvariant, IsOpen
  <2> QED BY <2>1, <2>2 DEF PathsNamed
<1> QED
  BY <1>1, TypeCorrect, CarefulInvariantHolds, PTL

\* FolderRefsAgree: the reference of a path entry and the hash -> folder lookup
\* lead to one folder, and a folder's children have it as parent.
THEOREM CarefulRefsAgree == CarefulClient /\ Spec => []FolderRefsAgree
<1>1. TypeOK /\ CarefulInvariant => FolderRefsAgree
  <2> SUFFICES ASSUME TypeOK, CarefulInvariant, pc = "idle", Settled
               PROVE  /\ \A c \in Children :
                           IsCell(path[c].folder) =>
                             /\ path[c].fullPath \in DOMAIN folderLookup
                             /\ folderLookup[path[c].fullPath] = path[c].folder.cell
                      /\ \A p \in DOMAIN folderLookup :
                           \A c \in Cells(folder[folderLookup[p]].children.cells) :
                             Parent(path[c].fullPath) = IF p = Root THEN Blank ELSE p
    BY DEF FolderRefsAgree
  <2>1. /\ Children = Entries
        /\ \A f \in DOMAIN folder : Cells(folder[f].children.cells) = ChildrenOf(f)
    BY CarefulChildren
  <2>2. /\ EntriesMatchFolders
        /\ \A p \in DOMAIN folderLookup :
             folderLookup[p] \in DOMAIN folder /\ folder[folderLookup[p]].fullPath = p
    BY TreeParts DEF CarefulInvariant, IsOpen
  <2>3. ASSUME NEW c \in Entries, IsCell(path[c].folder)
        PROVE  /\ path[c].fullPath \in DOMAIN folderLookup
               /\ folderLookup[path[c].fullPath] = path[c].folder.cell
    BY <2>2, <2>3 DEF EntriesMatchFolders, IsNone, IsCell
  <2> QED BY <2>1, <2>2, <2>3 DEF ChildrenOf, Prefix
<1> QED
  BY <1>1, TypeCorrect, CarefulInvariantHolds, PTL

-----------------------------------------------------------------------------
(* The list of an image. *)

\* Following the links for n steps is a function.
IsHops(h, n, first, entries) ==
  h = [i \in 0..n |->
         IF i = 0 THEN first
         ELSE IF h[i - 1] < n THEN entries[h[i - 1] + 1].next
         ELSE h[i - 1]]

LEMMA HopsExist ==
  ASSUME NEW n \in Nat, NEW first, NEW entries
  PROVE  \E h : IsHops(h, n, first, entries)
<1> USE DEF IsHops
<1> DEFINE HasHops(m) ==
                \E h : h = [i \in 0..m |->
                              IF i = 0 THEN first
                              ELSE IF h[i - 1] < n THEN entries[h[i - 1] + 1].next
                              ELSE h[i - 1]]
           T == {m \in Nat : ~HasHops(m)}
<1>1. SUFFICES ASSUME T # {} PROVE FALSE
  OBVIOUS
<1>2. PICK m \in T : \A l \in T : ~(l < m)
  <2>1. T \subseteq Nat
    OBVIOUS
  <2> HIDE DEF T
  <2> QED BY <1>1, <2>1, FirstOf
<1>3. m # 0
  <2>1. ASSUME m = 0 PROVE HasHops(m)
    <3>1. \A h : h = [i \in 0..0 |-> first] =>
            h = [i \in 0..0 |-> IF i = 0 THEN first
                                ELSE IF h[i - 1] < n THEN entries[h[i - 1] + 1].next
                                ELSE h[i - 1]]
      OBVIOUS
    <3> QED BY <2>1, <3>1
  <2> QED BY <1>2, <2>1
<1>4. m \in Nat /\ m - 1 \in Nat /\ m - 1 < m
  BY <1>2, <1>3
<1>5. HasHops(m - 1)
  BY <1>2, <1>4
<1>6. PICK h : h = [i \in 0..(m - 1) |->
                      IF i = 0 THEN first
                      ELSE IF h[i - 1] < n THEN entries[h[i - 1] + 1].next
                      ELSE h[i - 1]]
  BY <1>5
<1>7. PICK last : last = IF h[m - 1] < n THEN entries[h[m - 1] + 1].next ELSE h[m - 1]
  OBVIOUS
<1>8. PICK g : g = [i \in 0..m |-> IF i = m THEN last ELSE h[i]]
  OBVIOUS
<1>9. ASSUME NEW i \in 0..m
      PROVE  g[i] = IF i = 0 THEN first
                    ELSE IF g[i - 1] < n THEN entries[g[i - 1] + 1].next
                    ELSE g[i - 1]
  <2>1. CASE i = m
    <3>1. m - 1 \in 0..m /\ m - 1 # m
      BY <1>4
    <3>2. g[i] = last /\ g[i - 1] = h[m - 1]
      BY <1>8, <2>1, <3>1
    <3> QED BY <1>3, <1>7, <2>1, <3>2
  <2>2. CASE i # m
    <3>1. i \in 0..(m - 1) /\ (i # 0 => i - 1 \in 0..m /\ i - 1 # m)
      BY <1>4, <2>2
    <3>2. g[i] = h[i] /\ (i # 0 => g[i - 1] = h[i - 1])
      BY <1>8, <2>2, <3>1
    <3> QED BY <1>6, <3>1, <3>2
  <2> QED BY <2>1, <2>2
<1>10. HasHops(m)
  <2>1. g = [i \in 0..m |-> IF i = 0 THEN first
                            ELSE IF g[i - 1] < n THEN entries[g[i - 1] + 1].next
                            ELSE g[i - 1]]
    BY <1>8, <1>9
  <2> QED BY <2>1
<1> QED
  BY <1>2, <1>10

\* The m entries s of an image of n paths are the list that begins with "first",
\* and those of the cells.
IsListIn(image, n, first, m, s, pt, cells) ==
  /\ n \in Nat /\ n = Len(image.paths) /\ n <= INVALID_INDEX
  /\ first \in Nat /\ m \in Nat /\ m >= 1
  /\ IsListAt(s, m, first, n, image.paths, pt, cells)

\* Hops goes from entry to entry and stays outside the table.
LEMMA HopsAre ==
  ASSUME NEW image, NEW n \in Nat, n = Len(image.paths), NEW first
  PROVE  IsHops(Hops(image, first), n, first, image.paths)
<1> DEFINE hop[i \in 0..n] ==
             IF i = 0 THEN first
             ELSE IF hop[i - 1] < n THEN image.paths[hop[i - 1] + 1].next
             ELSE hop[i - 1]
<1>1. Hops(image, first) = hop
  BY DEF Hops
<1>2. \E h : IsHops(h, n, first, image.paths)
  BY HopsExist
<1>3. hop = CHOOSE h : IsHops(h, n, first, image.paths)
  BY DEF IsHops
<1> HIDE DEF hop
<1> QED
  BY <1>1, <1>2, <1>3

LEMMA HopsGoOn ==
  ASSUME NEW h, NEW n \in Nat, NEW first, NEW entries, IsHops(h, n, first, entries)
  PROVE  /\ h[0] = first
         /\ \A i \in 1..n : h[i] = IF h[i - 1] < n THEN entries[h[i - 1] + 1].next
                                   ELSE h[i - 1]
BY DEF IsHops

\* Following the links finds each entry in order, and then the end.
LEMMA HopsOfList ==
  ASSUME NEW image, NEW n, NEW first, NEW m, NEW s, NEW pt, NEW cells,
         IsListIn(image, n, first, m, s, pt, cells)
  PROVE  /\ m <= n
         /\ \A i \in 0..n : Hops(image, first)[i]
                              = IF i < m THEN s[i + 1] - 1 ELSE INVALID_INDEX
         /\ {i \in 0..n : Hops(image, first)[i] < n} = 0..(m - 1)
<1>s. /\ n \in Nat /\ n = Len(image.paths) /\ n <= INVALID_INDEX
      /\ first \in Nat /\ m \in Nat /\ m >= 1
      /\ \A i \in 1..m : s[i] \in 1..n
      /\ \A i, h \in 1..m : s[i] = s[h] => i = h
      /\ first = s[1] - 1
      /\ \A i \in 1..m : image.paths[s[i]].next
                           = IF i < m THEN s[i + 1] - 1 ELSE INVALID_INDEX
  BY DEF IsListIn, IsListAt
<1> USE <1>s
<1> DEFINE hop == Hops(image, first)
<1>0. /\ \A a, b \in Int : /\ IsFiniteSet(a..b)
                         /\ Cardinality(a..b) = IF a > b THEN 0 ELSE b - a + 1
      /\ Cardinality(1..m) = m /\ Cardinality(1..n) = n /\ IsFiniteSet(1..n)
  <2>1. \A a, b \in Int : /\ IsFiniteSet(a..b)
                         /\ Cardinality(a..b) = IF a > b THEN 0 ELSE b - a + 1
    BY FS_Interval
  <2>2. /\ IsFiniteSet(1..n)
        /\ Cardinality(1..m) = IF 1 > m THEN 0 ELSE m - 1 + 1
        /\ Cardinality(1..n) = IF 1 > n THEN 0 ELSE n - 1 + 1
    <3>1. 1 \in Int /\ m \in Int /\ n \in Int
      OBVIOUS
    <3> QED BY <2>1, <3>1, Zenon
  <2> QED BY SMTT(60), <2>1, <2>2
<1>3. /\ hop[0] = first
      /\ \A i \in 1..n : hop[i] = IF hop[i - 1] < n THEN image.paths[hop[i - 1] + 1].next
                                  ELSE hop[i - 1]
  <2>1. IsHops(hop, n, first, image.paths)
    BY HopsAre
  <2> HIDE DEF hop
  <2> QED BY <2>1, HopsGoOn
<1> HIDE DEF hop
<1>4. m <= n
  <2> DEFINE F == [i \in 1..m |-> s[i]]
  <2>1. F \in Injection(1..m, 1..n)
    BY DEF Injection, IsInjective
  <2>2. Cardinality(1..m) = m /\ Cardinality(1..n) = n /\ IsFiniteSet(1..n)
    BY <1>0
  <2> HIDE DEF F
  <2>4. Cardinality(1..m) <= Cardinality(1..n)
    BY <2>1, <2>2, FS_Injection
  <2> QED BY <2>2, <2>4
<1>5. \A i \in 0..n : hop[i] = IF i < m THEN s[i + 1] - 1 ELSE INVALID_INDEX
  <2> DEFINE Right(i) == hop[i] = IF i < m THEN s[i + 1] - 1 ELSE INVALID_INDEX
             T == {i \in Nat : i <= n /\ ~Right(i)}
  <2>1. SUFFICES ASSUME T # {} PROVE FALSE
    OBVIOUS
  <2>2. PICK i \in T : \A l \in T : ~(l < i)
    <3>1. T \subseteq Nat
      OBVIOUS
    <3> HIDE DEF T
    <3> QED BY <2>1, <3>1, FirstOf
  <2>3. i # 0
    BY <1>3, <2>2
  <2>4. i \in 1..n /\ i - 1 \in Nat /\ i - 1 < i /\ i - 1 <= n /\ (i - 1) + 1 = i
    BY <2>2, <2>3
  <2>5. Right(i - 1)
    BY <2>2, <2>4
  <2>6. hop[i] = IF hop[i - 1] < n THEN image.paths[hop[i - 1] + 1].next ELSE hop[i - 1]
    BY <1>3, <2>4
  <2>7. CASE i - 1 < m
    <3>1. i \in 1..m /\ s[i] \in 1..n /\ hop[i - 1] = s[i] - 1
      BY <2>4, <2>5, <2>7
    <3>2. hop[i - 1] < n /\ hop[i - 1] + 1 = s[i]
      BY <3>1
    <3>3. hop[i] = image.paths[s[i]].next
      BY <2>6, <3>2
    <3> QED BY <2>2, <3>1, <3>3
  <2>8. CASE ~(i - 1 < m)
    <3>1. hop[i - 1] = INVALID_INDEX /\ ~(i < m)
      BY <2>4, <2>5, <2>8
    <3>2. ~(INVALID_INDEX < n)
      BY DEF INVALID_INDEX
    <3> QED BY <2>2, <2>6, <3>1, <3>2
  <2> QED BY <2>7, <2>8
<1>6. {i \in 0..n : hop[i] < n} = 0..(m - 1)
  <2>1. ASSUME NEW i \in 0..n PROVE hop[i] < n <=> i < m
    <3>1. CASE i < m
      <4>1. i + 1 \in 1..m
        BY <3>1
      <4> QED BY <1>5, <3>1, <4>1
    <3>2. CASE ~(i < m)
      BY <1>5, <3>2 DEF INVALID_INDEX
    <3> QED BY <3>1, <3>2
  <2>2. \A i \in 0..n : i < m <=> i \in 0..(m - 1)
    OBVIOUS
  <2>3. 0..(m - 1) \subseteq 0..n
    BY <1>4
  <2> QED BY <2>1, <2>2, <2>3, Zenon
<1> QED
  BY <1>4, <1>5, <1>6 DEF hop

LEMMA ListOfEntries ==
  ASSUME NEW image, NEW n, NEW first, NEW m, NEW s, NEW pt, NEW cells,
         IsListIn(image, n, first, m, s, pt, cells)
  PROVE  ListFrom(image, first) = [i \in 1..m |-> image.paths[s[i]].fullPath]
<1>s. /\ n \in Nat /\ n = Len(image.paths) /\ n <= INVALID_INDEX
      /\ first \in Nat /\ m \in Nat /\ m >= 1
      /\ \A i \in 1..m : s[i] \in 1..n
      /\ \A i, h \in 1..m : s[i] = s[h] => i = h
      /\ first = s[1] - 1
      /\ \A i \in 1..m : image.paths[s[i]].next
                           = IF i < m THEN s[i + 1] - 1 ELSE INVALID_INDEX
  BY DEF IsListIn, IsListAt
<1> USE <1>s
<1> DEFINE hop == Hops(image, first)
<1>1. ListFrom(image, first)
        = [i \in 1..Cardinality({i \in 0..n : hop[i] < n}) |->
             image.paths[hop[i - 1] + 1].fullPath]
  BY DEF ListFrom
<1>2. /\ m <= n
      /\ \A i \in 0..n : hop[i] = IF i < m THEN s[i + 1] - 1 ELSE INVALID_INDEX
      /\ {i \in 0..n : hop[i] < n} = 0..(m - 1)
  BY HopsOfList
<1> HIDE DEF hop
<1>3. Cardinality(0..(m - 1)) = m
  <2>1. 0 \in Int /\ m - 1 \in Int /\ ~(0 > m - 1) /\ (m - 1) - 0 + 1 = m
    OBVIOUS
  <2>2. Cardinality(0..(m - 1)) = IF 0 > m - 1 THEN 0 ELSE (m - 1) - 0 + 1
    BY <2>1, FS_Interval
  <2> QED BY <2>1, <2>2
<1>4. ASSUME NEW i \in 1..m
      PROVE  image.paths[hop[i - 1] + 1].fullPath = image.paths[s[i]].fullPath
  <2>1. i - 1 \in 0..n /\ i - 1 < m /\ (i - 1) + 1 = i
    BY <1>2
  <2>2. hop[i - 1] + 1 = s[i]
    BY SMTT(60), <1>2, <2>1
  <2> QED BY <2>2
<1> QED
  BY ZenonT(60), <1>1, <1>2, <1>3, <1>4

-----------------------------------------------------------------------------
(* The listing of an image and of an engine. *)

\* LiveListing, of any lookup and cells.
ListingOf(lookup, hf, hp) ==
  [p \in DOMAIN lookup |->
     LET cells == hf[lookup[p]].children.cells
     IN [i \in 1..Len(cells) |-> hp[cells[i]].fullPath]]

\* Each entry of the image, of nf folders and np paths, has its cell, ft and pt,
\* and each list is that of the vector.
Matches(image, nf, np, lookup, hf, hp, ft, pt) ==
  /\ nf \in Nat /\ nf = Len(image.folders)
  /\ np \in Nat /\ np = Len(image.paths) /\ np <= INVALID_INDEX
  /\ \A i \in 1..nf : /\ image.folders[i].fullPath \in DOMAIN lookup
                      /\ lookup[image.folders[i].fullPath] = ft[i]
                      /\ image.folders[i].first \in Nat
  /\ \A p \in DOMAIN lookup : \E i \in 1..nf : p = image.folders[i].fullPath
  /\ \A i, h \in 1..nf :
       image.folders[i].fullPath = image.folders[h].fullPath => i = h
  /\ \A i \in 1..np : hp[pt[i]].fullPath = image.paths[i].fullPath
  /\ \A i \in 1..nf : \A cells :
       cells = hf[ft[i]].children.cells =>
         \E m \in Nat : \E s \in Seq(1..np) :
           /\ m >= 1 /\ m = Len(cells)
           /\ IsListAt(s, m, image.folders[i].first, np, image.paths, pt, cells)

\* The names of the first m cells of a vector.
NamesOf(hp, cells, m) == [i \in 1..m |-> hp[cells[i]].fullPath]

LEMMA ListOfCells ==
  ASSUME NEW image, NEW n, NEW first, NEW m, NEW s, NEW pt, NEW cells,
         IsListIn(image, n, first, m, s, pt, cells),
         NEW hp, \A i \in 1..n : hp[pt[i]].fullPath = image.paths[i].fullPath
  PROVE  ListFrom(image, first) = NamesOf(hp, cells, m)
<1>1. \A i \in 1..m : s[i] \in 1..n /\ pt[s[i]] = cells[i]
  BY DEF IsListIn, IsListAt
<1>2. ListFrom(image, first) = [i \in 1..m |-> image.paths[s[i]].fullPath]
  BY ListOfEntries
<1>3. \A i \in 1..m : image.paths[s[i]].fullPath = hp[cells[i]].fullPath
  BY <1>1
<1> QED
  BY <1>2, <1>3 DEF NamesOf

\* Then the listings are the same.
LEMMA SameListing ==
  ASSUME NEW image, NEW nf, NEW np, NEW lookup, NEW hf, NEW hp, NEW ft, NEW pt,
         Matches(image, nf, np, lookup, hf, hp, ft, pt)
  PROVE  StoredListing(image) = ListingOf(lookup, hf, hp)
<1> DEFINE F == 1..Len(image.folders)
           at(p) == CHOOSE i \in F : image.folders[i].fullPath = p
           listed(p) == LET cells == hf[lookup[p]].children.cells
                        IN [i \in 1..Len(cells) |-> hp[cells[i]].fullPath]
           stored == {image.folders[i].fullPath : i \in F}
<1>1. StoredListing(image) = [p \in stored |-> ListFrom(image, image.folders[at(p)].first)]
  BY DEF StoredListing
<1>2. ListingOf(lookup, hf, hp) = [p \in DOMAIN lookup |-> listed(p)]
  BY DEF ListingOf
<1>3. F = 1..nf
  BY DEF Matches
<1>4. stored = DOMAIN lookup
  <2>1. \A i \in F : image.folders[i].fullPath \in DOMAIN lookup
    BY <1>3 DEF Matches
  <2>2. \A p \in DOMAIN lookup : \E i \in F : p = image.folders[i].fullPath
    BY <1>3 DEF Matches
  <2> HIDE DEF F
  <2> QED BY <2>1, <2>2
<1>5. ASSUME NEW i \in F PROVE at(image.folders[i].fullPath) = i
  <2>1. \A h \in F : image.folders[h].fullPath = image.folders[i].fullPath => h = i
    BY SMTT(60), <1>3 DEF Matches
  <2> QED BY <2>1
<1>6. ASSUME NEW i \in F PROVE ListFrom(image, image.folders[i].first)
                                 = listed(image.folders[i].fullPath)
  <2>0. PICK cells, first : cells = hf[ft[i]].children.cells /\ first = image.folders[i].first
    OBVIOUS
  <2>1. /\ np \in Nat /\ np = Len(image.paths) /\ np <= INVALID_INDEX
        /\ lookup[image.folders[i].fullPath] = ft[i] /\ first \in Nat
        /\ \A h \in 1..np : hp[pt[h]].fullPath = image.paths[h].fullPath
    BY <1>3, <2>0 DEF Matches
  <2>2. PICK m \in Nat, s \in Seq(1..np) :
          m >= 1 /\ m = Len(cells) /\ IsListAt(s, m, first, np, image.paths, pt, cells)
    BY <1>3, <2>0 DEF Matches
  <2>3. ListFrom(image, first) = NamesOf(hp, cells, m)
    <3>1. IsListIn(image, np, first, m, s, pt, cells)
      BY <2>1, <2>2, Zenon DEF IsListIn
    <3>2. \A h \in 1..np : hp[pt[h]].fullPath = image.paths[h].fullPath
      BY <2>1
    <3> QED BY <3>1, <3>2, ListOfCells
  <2>4. listed(image.folders[i].fullPath) = NamesOf(hp, cells, Len(cells))
    BY <2>0, <2>1 DEF NamesOf
  <2> QED BY ZenonT(60), <2>0, <2>2, <2>3, <2>4
<1>7. ASSUME NEW p \in stored
      PROVE  ListFrom(image, image.folders[at(p)].first) = listed(p)
  <2>1. PICK i \in F : p = image.folders[i].fullPath
    OBVIOUS
  <2> HIDE DEF at, listed
  <2> QED BY <1>5, <1>6, <2>1
<1> HIDE DEF at, listed, stored
<1> QED
  BY <1>1, <1>2, <1>4, <1>7

-----------------------------------------------------------------------------
(* An engine is as it was read until it is resolved. *)

LEMMA AsReadByRead ==
  ASSUME TypeOK, CarefulInvariant, Read
  PROVE  AsRead' /\ ~Settled'
<1>0. PICK nf, np, dF, dP : nf = Len(disk.folders) /\ np = Len(disk.paths)
                            /\ dF = disk.folders /\ dP = disk.paths
  OBVIOUS
<1>1. /\ nf \in Nat /\ np \in Nat /\ Len(folders') = nf /\ Len(paths') = np
      /\ \A i \in 1..nf : /\ folders'[i] \in DOMAIN folder'
                          /\ folder'[folders'[i]] = ParseFolder(dF[i])
      /\ \A f \in DOMAIN folder' : \E i \in 1..nf : f = folders'[i]
      /\ \A i \in 1..np : /\ paths'[i] \in DOMAIN path'
                          /\ path'[paths'[i]] = ParsePath(dP[i])
      /\ \A c \in DOMAIN path' : \E i \in 1..np : c = paths'[i]
      /\ \A i, h \in 1..np : paths'[i] = paths'[h] => i = h
  BY <1>0, ReadCells
<1>2. disk' = disk
  BY DEF Read
<1>3. Cells(folders') = DOMAIN folder' /\ Cells(paths') = DOMAIN path'
  <2>1. Cells(folders') = DOMAIN folder'
    <3>1. \A i \in 1..nf : folders'[i] \in DOMAIN folder'
      BY <1>1
    <3>2. \A f \in DOMAIN folder' : \E i \in 1..nf : f = folders'[i]
      BY <1>1
    <3>3. Cells(folders') = {folders'[i] : i \in 1..nf}
      BY <1>1 DEF Cells
    <3> QED BY <3>1, <3>2, <3>3
  <2>2. Cells(paths') = DOMAIN path'
    <3>1. \A i \in 1..np : paths'[i] \in DOMAIN path'
      BY <1>1
    <3>2. \A c \in DOMAIN path' : \E i \in 1..np : c = paths'[i]
      BY <1>1
    <3>3. Cells(paths') = {paths'[i] : i \in 1..np}
      BY <1>1 DEF Cells
    <3> QED BY <3>1, <3>2, <3>3
  <2> QED BY <2>1, <2>2
<1>4. ASSUME NEW i \in 1..nf
      PROVE  /\ ~IsSet(folder'[folders'[i]].children)
             /\ folder'[folders'[i]].children.index = dF[i].first
             /\ folder'[folders'[i]].fullPath = dF[i].fullPath
  <2>1. folder'[folders'[i]] = ParseFolder(dF[i])
    BY <1>1
  <2>2. /\ ParseFolder(dF[i]).children = Start(dF[i].first)
        /\ ParseFolder(dF[i]).fullPath = dF[i].fullPath
    BY DEF ParseFolder
  <2> QED BY <2>1, <2>2 DEF Start, IsSet
<1>5. ASSUME NEW i \in 1..np
      PROVE  /\ path'[paths'[i]].fullPath = dP[i].fullPath
             /\ Refers(paths', path'[paths'[i]].next, dP[i].next)
  <2>1. path'[paths'[i]] = ParsePath(dP[i])
    BY <1>1
  <2>2. /\ ParsePath(dP[i]).next = IF dP[i].next = INVALID_INDEX THEN None
                                   ELSE Unresolved(dP[i].next)
        /\ ParsePath(dP[i]).fullPath = dP[i].fullPath
    BY DEF ParsePath
  <2> QED BY <2>1, <2>2 DEF Refers
<1>6. AsRead'
  <2>1. /\ \A i \in 1..Len(folders') :
             /\ folder'[folders'[i]].fullPath = disk'.folders[i].fullPath
             /\ IF IsSet(folder'[folders'[i]].children)
                  THEN folder'[folders'[i]].children.cells[1]
                         = CellAt(paths', disk'.folders[i].first)
                  ELSE folder'[folders'[i]].children.index = disk'.folders[i].first
        /\ \A i \in 1..Len(paths') :
             /\ path'[paths'[i]].fullPath = disk'.paths[i].fullPath
             /\ Refers(paths', path'[paths'[i]].next, disk'.paths[i].next)
    BY <1>0, <1>1, <1>2, <1>4, <1>5
  <2>2. /\ Len(folders') = Len(disk'.folders) /\ Len(paths') = Len(disk'.paths)
        /\ \A m, n \in 1..Len(paths') : paths'[m] = paths'[n] => m = n
    BY <1>0, <1>1, <1>2
  <2> QED BY <1>3, <2>1, <2>2, Zenon DEF AsRead
<1>7. ~Settled'
  <2>1. \E f \in 1..nf : TRUE
    BY <1>0 DEF CarefulInvariant, IsTree
  <2>2. PICK f \in 1..nf : TRUE
    BY <2>1
  <2>3. folders'[f] \in DOMAIN folder' /\ ~IsSet(folder'[folders'[f]].children)
    BY <1>1, <1>4
  <2> QED BY <2>3 DEF Settled
<1> QED
  BY <1>6, <1>7

\* resolve's first loop leaves each reference to the same entry.
LEMMA AsReadByResolvePaths ==
  ASSUME TypeOK, CarefulInvariant, ResolvePaths, AsRead
  PROVE  AsRead'
<1>1. /\ path' = [c \in DOMAIN path |->
                    IF c \in Cells(paths) THEN ResolvePath(path[c]) ELSE path[c]]
      /\ UNCHANGED <<folder, folders, paths, disk>>
  BY DEF ResolvePaths, tableVars
<1>2. \A c \in DOMAIN path :
        /\ path'[c].fullPath = path[c].fullPath
        /\ path'[c].next = path[c].next \/ path'[c].next = Resolve(path[c].next, paths)
  <2>1. ASSUME NEW c \in DOMAIN path
        PROVE  /\ ResolvePath(path[c]).fullPath = path[c].fullPath
               /\ ResolvePath(path[c]).next = Resolve(path[c].next, paths)
    <3>1. path[c] \in SearchPath(DOMAIN folder, DOMAIN path)
      BY TableCells
    <3> QED BY <3>1 DEF ResolvePath, SearchPath
  <2> QED BY <1>1, <2>1
<1>3. ASSUME NEW i \in 1..Len(paths)
      PROVE  /\ path'[paths[i]].fullPath = disk.paths[i].fullPath
             /\ Refers(paths, path'[paths[i]].next, disk.paths[i].next)
  <2>1. /\ paths[i] \in DOMAIN path /\ path[paths[i]].fullPath = disk.paths[i].fullPath
        /\ Refers(paths, path[paths[i]].next, disk.paths[i].next)
    BY TableCells DEF AsRead
  <2>2. ASSUME NEW n, Refers(paths, path[paths[i]].next, n)
        PROVE  Refers(paths, Resolve(path[paths[i]].next, paths), n)
    BY <2>2 DEF Refers, Resolve, IsUnresolved, Unresolved, Resolved, None
  <2> QED BY <1>2, <2>1, <2>2
<1>4. DOMAIN path' = DOMAIN path
  BY <1>1
<1> QED
  BY <1>1, <1>3, <1>4 DEF AsRead

\* A folder whose list has been walked was not resolved yet.
LEMMA WalkStopBegins ==
  ASSUME TypeOK, Invariant, CarefulInvariant, WalkStop
  PROVE  /\ folders[k] \in DOMAIN folder /\ Begins(folders[k], walked[1])
         /\ IsOpen /\ ~Settled
<1>1. walked # <<>> /\ pc = "walk" /\ IsOpen /\ Linked
  BY CarefulLinked DEF WalkStop, Walking, CarefulInvariant, IsOpen
<1>2. Begins(folders[k], walked[1])
  BY <1>1 DEF Linked, WalkOK
<1>3. folders[k] \in DOMAIN folder
  BY TableCells DEF WalkStop, Walking, TypeOK
<1> QED
  BY <1>1, <1>2, <1>3 DEF Begins, Settled

\* The vector that resolve puts in the index's place begins with its cell.
LEMMA AsReadByWalkStop ==
  ASSUME TypeOK, Invariant, CarefulInvariant, WalkStop, AsRead
  PROVE  AsRead'
<1>1. /\ folder' = [folder EXCEPT ![folders[k]].children = Set(walked)]
      /\ UNCHANGED <<path, folders, paths, disk>>
  BY DEF WalkStop, tableVars
<1>2. folders[k] \in DOMAIN folder
  BY WalkStopBegins
<1>3. ~IsSet(folder[folders[k]].children)
      /\ walked[1] = CellAt(paths, folder[folders[k]].children.index)
  BY WalkStopBegins DEF Begins
<1>4. /\ DOMAIN folder' = DOMAIN folder
      /\ \A f \in DOMAIN folder : folder'[f].fullPath = folder[f].fullPath
      /\ folder'[folders[k]].children = Set(walked)
      /\ \A f \in DOMAIN folder : f # folders[k] => folder'[f] = folder[f]
  <2>1. folder[folders[k]] \in SearchFolder(DOMAIN path)
    BY <1>2, TableCells
  <2> QED BY <1>1, <1>2, <2>1 DEF SearchFolder
<1>5. IsSet(Set(walked)) /\ Set(walked).cells = walked
  BY DEF IsSet, Set
<1>6. ASSUME NEW i \in 1..Len(folders)
      PROVE  /\ folder'[folders[i]].fullPath = disk.folders[i].fullPath
             /\ IF IsSet(folder'[folders[i]].children)
                  THEN folder'[folders[i]].children.cells[1]
                         = CellAt(paths, disk.folders[i].first)
                  ELSE folder'[folders[i]].children.index = disk.folders[i].first
  <2>1. /\ folders[i] \in DOMAIN folder
        /\ folder[folders[i]].fullPath = disk.folders[i].fullPath
        /\ IF IsSet(folder[folders[i]].children)
             THEN folder[folders[i]].children.cells[1]
                    = CellAt(paths, disk.folders[i].first)
             ELSE folder[folders[i]].children.index = disk.folders[i].first
    BY TableCells DEF AsRead
  <2>2. CASE folders[i] = folders[k]
    BY <1>3, <1>4, <1>5, <2>1, <2>2
  <2>3. CASE folders[i] # folders[k]
    BY <1>4, <2>1, <2>3
  <2> QED BY <2>2, <2>3
<1> QED
  BY <1>1, <1>4, <1>6 DEF AsRead

\* A step that leaves the listing and what it is made of alone.
Quiet ==
  /\ IsOpen /\ IsOpen'
  /\ UNCHANGED <<folder, path, folderLookup, disk>>
  /\ Settled \/ UNCHANGED <<folders, paths>>

\* The steps of a careful client's program that are not.
LEMMA StepKinds ==
  ASSUME CarefulClient, TypeOK, CarefulInvariant, AsStored, Next, NoPanic'
  PROVE  \/ Quiet \/ ResolvePaths \/ Read \/ WalkStop
         \/ MakeFolder \/ MakeFile \/ Write
<1> USE DEF heapVars, tableVars, lookupVars
<1>1. Liberties = {} /\ PushOK /\ AddOK
  BY DEF CarefulClient, CarefulInvariant
<1>2. ~Panic /\ ~ReadGarbled
  BY DEF NoPanic, Panic, ReadGarbled
<1>3. CASE ResolveStep
  <2>1. CASE WalkStop
    BY <2>1
  <2>2. CASE WalkSkip \/ WalkStart \/ WalkHop \/ ResolveReturns
    BY <1>2, <2>2
    DEF WalkSkip, WalkStart, WalkHop, ResolveReturns, Walking, Quiet, IsOpen
  <2> QED BY <1>3, <2>1, <2>2 DEF ResolveStep
<1>4. CASE AddStep
  <2>1. CASE Descend
    <3>1. PICK child \in ChildrenNamed(current, file[depth]) :
            IF IsCell(path[child].folder)
              THEN UNCHANGED <<heapVars, tableVars, lookupVars, disk, pc>>
              ELSE Panic
      BY <2>1 DEF Descend
    <3>2. UNCHANGED <<folder, path, folders, paths, folderLookup, disk, pc>>
      BY <1>2, <3>1
    <3> QED BY <2>1, <3>2 DEF Descend, Descending, Quiet, IsOpen
  <2>2. CASE AddFilePanics
    BY <1>2, <2>2 DEF AddFilePanics
  <2> QED BY <1>4, <2>1, <2>2 DEF AddStep
<1>5. CASE WriterStep
  <2>1. CASE PushFolder \/ PushPath
    BY <1>2, <2>1 DEF PushFolder, PushPath, Pushing, Quiet, IsOpen
  <2>2. CASE PushNext \/ Reorganize
    BY <1>1, <2>2 DEF PushNext, Reorganize, Pushing, Pushed, Quiet, IsOpen, PushOK
  <2>3. CASE WritePanics
    BY <1>2, <2>3 DEF WritePanics
  <2> QED BY <1>5, <2>1, <2>2, <2>3 DEF WriterStep
<1>6. CASE ClientStep
  <2>1. CASE \E f \in Files : AddFile(f)
    <3>1. PICK f \in Files : AddFile(f)
      BY <2>1
    <3>2. pc = "idle" /\ pc' = "add"
          /\ UNCHANGED <<folder, path, folders, paths, folderLookup, disk>>
      BY <1>2, <3>1 DEF AddFile
    <3> QED BY <3>2 DEF Quiet, IsOpen
  <2>2. CASE \E p \in DOMAIN folderLookup : ListFolder(folderLookup[p])
    <3>1. PICK p \in DOMAIN folderLookup : ListFolder(folderLookup[p])
      BY <2>2
    <3>2. /\ pc = "idle" /\ pc' = "idle" /\ folderLookup[p] \notin Cells(folders)
          /\ UNCHANGED <<folder, path, folderLookup, disk>>
      BY <3>1 DEF ListFolder
    <3>3. folderLookup[p] \in DOMAIN folder
      BY DEF TypeOK, IsMap
    <3>4. Settled
      BY <3>2, <3>3 DEF AsStored, AsRead, IsOpen
    <3> QED BY <3>2, <3>4 DEF Quiet, IsOpen
  <2>3. CASE \E t \in {"engine", "memory", "directory"} : FromEngine(t)
    BY <2>3 DEF FromEngine, Quiet, IsOpen
  <2>4. CASE ResolvePathsPanics
    BY <1>2, <2>4 DEF ResolvePathsPanics
  <2> QED
    BY <1>2, <1>6, <2>1, <2>2, <2>3, <2>4 DEF ClientStep
<1> QED
  BY <1>3, <1>4, <1>5, <1>6 DEF Next, CallStep

\* AsStored is inductive, relative to a careful client's invariant.
LEMMA AsStoredStep ==
  ASSUME CarefulClient, TypeOK, Invariant, CarefulInvariant, AsStored, Next,
         CarefulInvariant'
  PROVE  AsStored'
<1>1. CASE Quiet
  <2>1. (Settled' <=> Settled) /\ (~Settled => UNCHANGED <<folders, paths>>)
    BY <1>1 DEF Quiet, Settled
  <2>2. CASE Settled
    BY <2>1, <2>2 DEF AsStored
  <2>3. CASE ~Settled
    <3>1. AsRead
      BY <1>1, <2>3 DEF AsStored, Quiet
    <3>2. AsRead'
      BY <1>1, <2>1, <2>3, <3>1 DEF AsRead, Quiet
    <3> QED BY <3>2 DEF AsStored
  <2> QED BY <2>2, <2>3
<1>2. CASE ResolvePaths
  <2>1. IsOpen /\ (Settled' <=> Settled)
    BY <1>2 DEF ResolvePaths, IsOpen, Settled
  <2>2. AsRead => AsRead'
    BY <1>2, AsReadByResolvePaths
  <2> QED BY <2>1, <2>2 DEF AsStored
<1>3. CASE Read
  BY <1>3, AsReadByRead DEF AsStored
<1>4. CASE WalkStop
  BY <1>4, WalkStopBegins, AsReadByWalkStop DEF AsStored
<1>5. CASE MakeFolder
  <2>1. pc' = "add"
    <3>1. pc' # "panicked" /\ pc = "add"
      BY <1>5 DEF CarefulInvariant, NoPanic, MakeFolder, Descending
    <3> QED BY <1>5, <3>1 DEF MakeFolder, Panic
  <2> QED BY <2>1 DEF CarefulInvariant, AddOK, AsStored
<1>6. CASE MakeFile
  <2>0. PICK cells : cells = folder[current].children.cells
    OBVIOUS
  <2>1. /\ DOMAIN folder' = DOMAIN folder
        /\ folder'[current].children = Set(Append(cells, guid))
        /\ \A f \in DOMAIN folder : f # current => folder'[f] = folder[f]
    BY <1>6, <2>0, MadeFile
  <2>2. Settled
    BY <1>6 DEF MakeFile, Landing, CarefulInvariant, AddOK
  <2>3. Settled'
    BY <2>1, <2>2 DEF Settled, IsSet, Set
  <2> QED BY <2>3 DEF AsStored
<1>7. CASE Write
  BY <1>7 DEF Write, AsStored, IsOpen
<1> QED
  BY <1>1, <1>2, <1>3, <1>4, <1>5, <1>6, <1>7, StepKinds DEF CarefulInvariant

-----------------------------------------------------------------------------
(* The listing of an engine. *)

\* Once it is resolved, and before anything is added, it is the image's.
LEMMA ResolvedMatches ==
  ASSUME TypeOK, Invariant, CarefulInvariant, AsRead, IsOpen, pc # "add", Settled
  PROVE  Matches(disk, Len(disk.folders), Len(disk.paths),
                 folderLookup, folder, path, folders, paths)
<1>0. PICK nf, np, dF, dP : nf = Len(disk.folders) /\ np = Len(disk.paths)
                            /\ dF = disk.folders /\ dP = disk.paths
  OBVIOUS
<1>1. /\ nf \in Nat /\ np \in Nat
      /\ \A i \in 1..nf : dF[i].first \in Nat
      /\ \A i \in 1..np : dP[i].next \in Nat
  <2>1. dF \in Seq(FolderEntry) /\ dP \in Seq(PathEntry)
    BY <1>0 DEF TypeOK, Image
  <2>2. nf \in Nat /\ np \in Nat
    BY <1>0, <2>1, LenProperties
  <2>3. ASSUME NEW i \in 1..nf PROVE dF[i] \in FolderEntry
    BY <1>0, <2>1, ElementOfSeq
  <2>4. ASSUME NEW i \in 1..np PROVE dP[i] \in PathEntry
    BY <1>0, <2>1, ElementOfSeq
  <2> QED BY <2>2, <2>3, <2>4 DEF FolderEntry, PathEntry
<1>2. np <= INVALID_INDEX
  BY <1>0 DEF Invariant, DiskIsForest, IsForest
<1>3. /\ Len(folders) = nf /\ Len(paths) = np
      /\ Cells(folders) = DOMAIN folder /\ Cells(paths) = DOMAIN path
  BY <1>0 DEF AsRead
<1>4. \A m, n \in 1..np : paths[m] = paths[n] => m = n
  BY <1>3 DEF AsRead
<1>5. \A i \in 1..nf :
        /\ folder[folders[i]].fullPath = dF[i].fullPath
        /\ IsSet(folder[folders[i]].children) =>
             folder[folders[i]].children.cells[1] = CellAt(paths, dF[i].first)
  BY <1>0, <1>3 DEF AsRead
<1>6. \A i \in 1..np : /\ path[paths[i]].fullPath = dP[i].fullPath
                       /\ Refers(paths, path[paths[i]].next, dP[i].next)
  BY <1>0, <1>3 DEF AsRead
<1>7. /\ TreeOK /\ ListsAreComplete /\ NoFolderIsEmpty
      /\ \A f \in DOMAIN folder : /\ folder[f].fullPath \in DOMAIN folderLookup
                                  /\ folderLookup[folder[f].fullPath] = f
      /\ \A p \in DOMAIN folderLookup :
           folderLookup[p] \in DOMAIN folder /\ folder[folderLookup[p]].fullPath = p
  BY TreeParts DEF CarefulInvariant
<1>8. /\ \A i, h \in 1..nf : dF[i].fullPath = dF[h].fullPath => i = h
      /\ \A i \in 1..nf : dF[i].first + 1 \in 1..np
      /\ \A i \in 1..np : dP[i].next = INVALID_INDEX \/ dP[i].next < np
  BY <1>0 DEF CarefulInvariant, IsTree, IsList, ChildrenIn, EntriesIn
<1>9. \A i \in 1..nf : /\ dF[i].fullPath \in DOMAIN folderLookup
                       /\ folderLookup[dF[i].fullPath] = folders[i]
  <2>1. \A i \in 1..nf : folders[i] \in DOMAIN folder
    BY <1>3, TableCells
  <2> QED BY <1>5, <1>7, <2>1
<1>10. ASSUME NEW p \in DOMAIN folderLookup
       PROVE  \E i \in 1..nf : p = dF[i].fullPath
  <2>1. folderLookup[p] \in Cells(folders) /\ folder[folderLookup[p]].fullPath = p
    BY <1>3, <1>7
  <2>2. PICK i \in 1..nf : folderLookup[p] = folders[i]
    BY <1>3, <2>1 DEF Cells
  <2> QED BY <1>5, <2>1, <2>2
<1>11. ASSUME NEW f \in 1..nf, NEW cells, cells = folder[folders[f]].children.cells
       PROVE  \E m \in Nat : \E s \in Seq(1..np) :
                /\ m >= 1 /\ m = Len(cells)
                /\ IsListAt(s, m, dF[f].first, np, dP, paths, cells)
  <2>1. folders[f] \in DOMAIN folder /\ IsSet(folder[folders[f]].children)
    BY <1>3, TableCells DEF Settled
  <2>2. cells \in Seq(DOMAIN path) /\ cells # <<>>
    <3>1. cells \in Seq(DOMAIN path)
      BY <1>11, <2>1, TableCells DEF IsSet, SearchFolder, ReferenceSetOf
    <3>2. Cells(cells) = ChildrenOf(folders[f]) /\ ChildrenOf(folders[f]) # {}
      BY <1>7, <1>11, <2>1 DEF ListsAreComplete, NoFolderIsEmpty
    <3> QED BY <3>1, <3>2, LenProperties, EmptySeq DEF Cells
  <2>3. PICK m : m = Len(cells)
    OBVIOUS
  <2>4. m \in Nat /\ m >= 1 /\ \A n \in 1..m : cells[n] \in DOMAIN path
    BY <2>2, <2>3, LenProperties, EmptySeq
  <2>5. PICK s : s = [n \in 1..m |-> CHOOSE i \in 1..np : paths[i] = cells[n]]
    OBVIOUS
  <2>6. ASSUME NEW n \in 1..m PROVE s[n] \in 1..np /\ paths[s[n]] = cells[n]
    <3>1. \E i \in 1..np : paths[i] = cells[n]
      BY <1>3, <2>4 DEF Cells
    <3> QED BY <2>5, <3>1
  <2>7. s \in Seq(1..np) /\ Len(s) = m
    <3>1. s \in [1..m -> 1..np] /\ DOMAIN s = 1..m
      BY <2>5, <2>6
    <3>2. m \in Nat
      BY <2>4
    <3>3. s \in Seq(1..np)
      BY <3>1, <3>2, SeqDef
    <3> QED BY <3>1, <3>2, <3>3, LenProperties
  <2>8. ASSUME NEW n \in 1..m, NEW h \in 1..m, s[n] = s[h] PROVE n = h
    <3>1. cells[n] = cells[h]
      BY <2>6, <2>8
    <3> QED BY <1>11, <2>1, <2>3, <3>1 DEF Invariant, HeapOK, OneOwner
  <2>9. s[1] = dF[f].first + 1
    <3>1. 1 \in 1..m /\ cells[1] = CellAt(paths, dF[f].first)
      BY <1>5, <1>11, <2>1, <2>4
    <3>2. paths[s[1]] = paths[dF[f].first + 1] /\ s[1] \in 1..np
      BY <2>6, <3>1 DEF CellAt
    <3> QED BY <1>4, <1>8, <3>2
  <2>10. \A n \in 1..m : path[cells[n]].next = IF n < m THEN Resolved(cells[n + 1]) ELSE None
    BY <1>11, <2>1, <2>3 DEF Invariant, HeapOK, ChildrenAreLinked
  <2>11. ASSUME NEW n \in 1..m
         PROVE  dP[s[n]].next = IF n < m THEN s[n + 1] - 1 ELSE INVALID_INDEX
    <3>0. PICK i, d : i = s[n] /\ d = dP[i].next
      OBVIOUS
    <3>1. /\ i \in 1..np /\ d \in Nat /\ (d = INVALID_INDEX \/ d < np)
          /\ Refers(paths, path[cells[n]].next, d)
      BY <1>1, <1>6, <1>8, <2>6, <3>0
    <3>2. \A c : Resolved(c) # None /\ Resolved(c).cell = c /\ \A x : Resolved(c) # Unresolved(x)
                 /\ \A y : None # Unresolved(y)
      BY Kinds DEF Resolved, None, Unresolved
    <3>3. CASE n < m
      <4>1. n + 1 \in 1..m /\ path[cells[n]].next = Resolved(cells[n + 1])
        BY <2>4, <2>10, <3>3
      <4>2. d # INVALID_INDEX /\ cells[n + 1] = CellAt(paths, d)
        BY <3>1, <3>2, <4>1 DEF Refers
      <4>3. paths[s[n + 1]] = paths[d + 1] /\ d + 1 \in 1..np /\ s[n + 1] \in 1..np
        BY <1>1, <2>6, <3>1, <4>1, <4>2 DEF CellAt
      <4>4. s[n + 1] = d + 1
        BY <1>4, <4>3
      <4> QED BY <3>0, <3>1, <3>3, <4>4
    <3>4. CASE ~(n < m)
      <4>1. path[cells[n]].next = None
        BY <2>10, <3>4
      <4>2. d = INVALID_INDEX
        BY <3>1, <3>2, <4>1 DEF Refers
      <4> QED BY <3>0, <3>4, <4>2
    <3> QED BY <3>3, <3>4
  <2>12. IsListAt(s, m, dF[f].first, np, dP, paths, cells)
    BY <2>6, <2>7, <2>8, <2>9, <2>11 DEF IsListAt
  <2> QED BY <2>3, <2>4, <2>7, <2>12
<1>12. \A i \in 1..np : path[paths[i]].fullPath = dP[i].fullPath
  BY <1>6
<1>13. Matches(disk, nf, np, folderLookup, folder, path, folders, paths)
  BY <1>0, <1>1, <1>2, <1>8, <1>9, <1>10, <1>11, <1>12, Zenon DEF Matches
<1> QED
  BY <1>0, <1>13

LEMMA ResolvedListing ==
  TypeOK /\ Invariant /\ CarefulInvariant /\ AsRead /\ IsOpen /\ pc # "add" /\ Settled
    => LiveListing = StoredListing(disk)
<1> SUFFICES ASSUME TypeOK, Invariant, CarefulInvariant, AsRead, IsOpen, pc # "add",
                    Settled
             PROVE  LiveListing = StoredListing(disk)
  OBVIOUS
<1>1. StoredListing(disk) = ListingOf(folderLookup, folder, path)
  BY ResolvedMatches, SameListing
<1> QED
  BY <1>1 DEF LiveListing, ChildPaths, ListingOf

\* The same in the next state.
LEMMA ResolvedListingNext ==
  (TypeOK /\ Invariant /\ CarefulInvariant /\ AsRead /\ IsOpen /\ pc # "add" /\ Settled
     => LiveListing = StoredListing(disk))'
BY ResolvedListing, PTL

\* What is written is the listing of the engine.
LEMMA WrittenListing ==
  ASSUME TypeOK, Invariant, CarefulInvariant, Write, TypeOK'
  PROVE  StoredListing(disk') = LiveListing
<1>a. PICK image : image = disk'
  OBVIOUS
<1>b. Writes(image)
  BY <1>a DEF Writes, Write
<1>0. PICK ft, pt, nf, np, dF, dP : IsWritten(image, ft, pt, nf, np, dF, dP)
  BY <1>b, WrittenEntries
<1>1. /\ dF = disk'.folders /\ dP = disk'.paths
      /\ nf \in Nat /\ np \in Nat /\ np <= INVALID_INDEX
      /\ Len(dF) = nf /\ Len(dP) = np
  BY <1>0, <1>a, Zenon DEF IsWritten
<1>2. /\ \A f \in 1..nf : dF[f] = WriteFolder(folder[ft[f]]) /\ ft[f] \in DOMAIN folder
      /\ \A f \in DOMAIN folder : \E i \in 1..nf : f = ft[i]
      /\ \A i, h \in 1..nf : ft[i] = ft[h] => i = h
      /\ \A i \in 1..np : dP[i] = WritePath(path[pt[i]])
  BY <1>0, Zenon DEF IsWritten
<1>3. /\ \A i \in 1..nf : dF[i].fullPath = folder[ft[i]].fullPath
      /\ \A i \in 1..np : dP[i].fullPath = path[pt[i]].fullPath
  BY <1>2, WrittenFields
<1>4. /\ \A f \in DOMAIN folder : /\ folder[f].fullPath \in DOMAIN folderLookup
                                  /\ folderLookup[folder[f].fullPath] = f
      /\ \A p \in DOMAIN folderLookup :
           folderLookup[p] \in DOMAIN folder /\ folder[folderLookup[p]].fullPath = p
  BY TreeParts DEF Write, Pushed, IsOpen, CarefulInvariant
<1>5. ASSUME NEW i \in 1..nf
      PROVE  /\ dF[i].fullPath \in DOMAIN folderLookup
             /\ folderLookup[dF[i].fullPath] = ft[i]
             /\ dF[i].first \in Nat
  <2>1. dF \in Seq(FolderEntry)
    BY <1>1 DEF TypeOK, Image
  <2>2. dF[i] \in FolderEntry
    BY <1>1, <2>1, ElementOfSeq
  <2>3. dF[i].first \in Nat
    BY <2>2 DEF FolderEntry
  <2> QED BY <1>2, <1>3, <1>4, <2>3
<1>6. ASSUME NEW p \in DOMAIN folderLookup PROVE \E i \in 1..nf : p = dF[i].fullPath
  BY <1>2, <1>3, <1>4
<1>7. ASSUME NEW i \in 1..nf, NEW h \in 1..nf, dF[i].fullPath = dF[h].fullPath PROVE i = h
  <2>1. ft[i] = ft[h]
    BY <1>5, <1>7
  <2> QED BY <1>2, <2>1
<1>8. ASSUME NEW i \in 1..nf, NEW cells, cells = folder[ft[i]].children.cells
      PROVE  \E m \in Nat : \E s \in Seq(1..np) :
               /\ m >= 1 /\ m = Len(cells)
               /\ IsListAt(s, m, dF[i].first, np, dP, pt, cells)
  <2>1. PICK m : m = Len(cells)
    OBVIOUS
  <2>2. m \in Nat /\ m >= 1
    BY <1>0, <1>b, <1>8, <2>1, WrittenList
  <2>3. PICK s \in Seq(1..np) : IsListAt(s, m, dF[i].first, np, dP, pt, cells)
    BY <1>0, <1>b, <1>8, <2>1, WrittenList
  <2> QED BY <2>1, <2>2, <2>3
<1>9. Matches(disk', nf, np, folderLookup, folder, path, ft, pt)
  BY <1>1, <1>3, <1>5, <1>6, <1>7, <1>8, Zenon DEF Matches
<1>10. StoredListing(disk') = ListingOf(folderLookup, folder, path)
  BY <1>9, SameListing
<1> QED
  BY <1>10 DEF LiveListing, ChildPaths, ListingOf

-----------------------------------------------------------------------------
(* The steps. *)

LEMMA RefineInit == CarefulClient /\ Init => Tree!Init
BY DEF Init, Tree!Init, Live, IsOpen, Tree!NoListing

\* Reading opens, resolving changes nothing, writing saves.
LEMMA RefineRead ==
  ASSUME TypeOK, CarefulInvariant, Read
  PROVE  Tree!Open
<1>1. /\ ~IsOpen /\ IsOpen' /\ disk' = disk
  BY DEF Read, IsOpen
<1>2. ~Settled'
  BY AsReadByRead
<1> QED
  BY <1>1, <1>2 DEF Tree!Open, Live

LEMMA RefineQuiet ==
  ASSUME Quiet
  PROVE  UNCHANGED Tree!vars
<1>1. (Settled' <=> Settled) /\ LiveListing' = LiveListing
  BY DEF Quiet, Settled, LiveListing, ChildPaths
<1> QED
  BY <1>1 DEF Quiet, Tree!vars, Live

LEMMA RefineResolvePaths ==
  ASSUME TypeOK, ResolvePaths
  PROVE  UNCHANGED Tree!vars
<1>1. /\ IsOpen /\ IsOpen' /\ (Settled' <=> Settled)
      /\ UNCHANGED <<folder, folderLookup, disk>>
      /\ path' = [c \in DOMAIN path |->
                    IF c \in Cells(paths) THEN ResolvePath(path[c]) ELSE path[c]]
  BY DEF ResolvePaths, IsOpen, Settled, lookupVars
<1>2. ASSUME NEW c \in DOMAIN path PROVE path'[c].fullPath = path[c].fullPath
  <2>1. path[c] \in SearchPath(DOMAIN folder, DOMAIN path)
    BY TableCells
  <2> QED BY <1>1, <2>1 DEF ResolvePath, SearchPath
<1>3. ASSUME Settled PROVE LiveListing' = LiveListing
  <2>1. ASSUME NEW p \in DOMAIN folderLookup,
               NEW cells, cells = folder[folderLookup[p]].children.cells
        PROVE  \A i \in 1..Len(cells) : path'[cells[i]].fullPath = path[cells[i]].fullPath
    <3>1. folderLookup[p] \in DOMAIN folder
      BY DEF TypeOK, IsMap
    <3>2. cells \in Seq(DOMAIN path)
      BY <1>3, <2>1, <3>1, TableCells DEF Settled, IsSet, SearchFolder, ReferenceSetOf
    <3> QED BY <1>2, <3>2, ElementOfSeq
  <2> QED BY <1>1, <2>1 DEF LiveListing, ChildPaths
<1> QED
  BY <1>1, <1>3 DEF Tree!vars, Live

LEMMA RefineWalkStop ==
  ASSUME TypeOK, Invariant, CarefulInvariant, AsStored, WalkStop,
         TypeOK', Invariant', CarefulInvariant'
  PROVE  UNCHANGED Tree!vars
<1>1. IsOpen /\ ~Settled
  BY WalkStopBegins
<1>2. IsOpen' /\ disk' = disk /\ pc' # "add"
  BY DEF WalkStop, Walking, IsOpen
<1>3. AsRead'
  BY <1>1, AsReadByWalkStop DEF AsStored
<1>4. Settled' => LiveListing' = StoredListing(disk')
  BY <1>2, <1>3, ResolvedListingNext
<1> QED
  BY <1>1, <1>2, <1>4 DEF Tree!vars, Live

LEMMA RefineWrite ==
  ASSUME TypeOK, Invariant, CarefulInvariant, Write, TypeOK'
  PROVE  Tree!Save
<1>1. IsOpen /\ Settled /\ ~IsOpen'
  BY DEF Write, Pushed, IsOpen, CarefulInvariant, PushOK
<1>2. StoredListing(disk') = LiveListing
  BY WrittenListing
<1> QED
  BY <1>1, <1>2 DEF Tree!Save, Live, Tree!NoListing

LEMMA EmptyListing ==
  ASSUME NEW g PROVE [i \in 1..Len(<<>>) |-> g[<<>>[i]]] = <<>>
BY EmptySeq

\* The cell c, whose path is child, is the last child of the current folder now.
Pushes(c, child) ==
  /\ child \in FullPaths /\ c \notin DOMAIN path /\ path'[c].fullPath = child
  /\ \A d \in DOMAIN path : path'[d].fullPath = path[d].fullPath
  /\ folder'[current].children = Set(Append(folder[current].children.cells, c))
  /\ \A f \in DOMAIN folder : f # current => folder'[f] = folder[f]
  /\ \A p \in DOMAIN folderLookup :
       p \in DOMAIN folderLookup' /\ folderLookup'[p] = folderLookup[p]

\* add_file puts the path of the new cell last in the listing of its folder.
LEMMA ListingGrows ==
  ASSUME TypeOK, TreeOK, IsOpen, Settled, current \in DOMAIN folder,
         NEW c0, NEW child, Pushes(c0, child),
         NEW home, home = folder[current].fullPath
  PROVE  /\ home \in DOMAIN folderLookup
         /\ LiveListing'[home] = Append(LiveListing[home], child)
         /\ LiveListing[home] \in Seq(FullPaths)
         /\ \A p \in DOMAIN folderLookup :
              p # home => LiveListing'[p] = LiveListing[p]
<1>1. /\ \A f \in DOMAIN folder : /\ folder[f].fullPath \in DOMAIN folderLookup
                                  /\ folderLookup[folder[f].fullPath] = f
      /\ \A p \in DOMAIN folderLookup :
           folderLookup[p] \in DOMAIN folder /\ folder[folderLookup[p]].fullPath = p
      /\ \A c \in DOMAIN path : path[c].fullPath \in FullPaths
  BY TreeParts
<1>2. \A f \in DOMAIN folder : folder[f].children.cells \in Seq(DOMAIN path)
  BY TableCells DEF Settled, IsSet, SearchFolder, ReferenceSetOf
<1>3. PICK cells, m : cells = folder[current].children.cells /\ m = Len(cells)
  OBVIOUS
<1> USE DEF Pushes
<1>4. /\ cells \in Seq(DOMAIN path) /\ m \in Nat
      /\ \A i \in 1..m : cells[i] \in DOMAIN path
  BY <1>2, <1>3, ElementOfSeq, LenProperties
<1>5. home \in DOMAIN folderLookup /\ folderLookup[home] = current
  BY <1>1
<1>6. PICK h : h = [i \in 1..m |-> path[cells[i]].fullPath]
  OBVIOUS
<1>7. LiveListing[home] = h
  BY <1>3, <1>5, <1>6 DEF LiveListing, ChildPaths
<1>8. h \in Seq(FullPaths) /\ Len(h) = m
  <2>1. \A i \in 1..m : path[cells[i]].fullPath \in FullPaths
    BY <1>1, <1>4
  <2>2. h \in [1..m -> FullPaths]
    BY <1>6, <2>1
  <2>3. \A S, n, s : n \in Nat /\ s \in [1..n -> S] => s \in Seq(S)
    BY SeqDef
  <2>4. h \in Seq(FullPaths)
    BY <1>4, <2>2, <2>3
  <2>5. DOMAIN h = 1..m
    BY <1>6
  <2> QED BY <1>4, <2>4, <2>5, LenProperties
<1>9. PICK new : new = Append(cells, c0)
  OBVIOUS
<1>10. Len(new) = m + 1 /\ new[m + 1] = c0 /\ \A i \in 1..m : new[i] = cells[i]
  <2>1. cells \in Seq(DOMAIN path \cup {c0}) /\ c0 \in DOMAIN path \cup {c0}
    BY <1>4, SeqMonotonic
  <2> QED BY <1>3, <1>9, <2>1, AppendElement
<1>11. LiveListing'[home] = [i \in 1..Len(new) |-> path'[new[i]].fullPath]
  <2>1. home \in DOMAIN folderLookup' /\ folder'[folderLookup'[home]].children.cells = new
    <3>1. folder'[current].children = Set(new) /\ Set(new).cells = new
      BY <1>3, <1>9 DEF Set
    <3>2. home \in DOMAIN folderLookup' /\ folderLookup'[home] = current
      BY <1>5
    <3> QED BY <3>1, <3>2
  <2> QED BY <2>1 DEF LiveListing, ChildPaths
<1>12. \A i \in 1..(m + 1) : path'[new[i]].fullPath = IF i = m + 1 THEN child ELSE h[i]
  BY <1>4, <1>6, <1>10
<1>13. LiveListing'[home] = Append(h, child)
  <2>1. PICK g : g = Append(h, child)
    OBVIOUS
  <2>2. /\ g \in Seq(FullPaths) /\ Len(g) = m + 1 /\ g[m + 1] = child
        /\ \A i \in 1..m : g[i] = h[i]
    BY <1>8, <2>1, AppendElement
  <2>3. g \in [1..(m + 1) -> FullPaths]
    BY <2>2, LenProperties
  <2>4. \A i \in 1..(m + 1) : g[i] = path'[new[i]].fullPath
    BY <1>4, <1>12, <2>2
  <2>5. LiveListing'[home] = [i \in 1..(m + 1) |-> path'[new[i]].fullPath]
    BY <1>10, <1>11
  <2> QED BY ZenonT(60), <2>1, <2>3, <2>4, <2>5
<1>14. ASSUME NEW p \in DOMAIN folderLookup, p # home
       PROVE  LiveListing'[p] = LiveListing[p]
  <2>1. PICK f, fcells : f = folderLookup[p] /\ fcells = folder[f].children.cells
    OBVIOUS
  <2>2. f \in DOMAIN folder /\ f # current
    BY <1>1, <1>14, <2>1
  <2>3. /\ p \in DOMAIN folderLookup' /\ folderLookup'[p] = f
        /\ folder'[f].children.cells = fcells
    BY <2>1, <2>2
  <2>4. \A i \in 1..Len(fcells) : path'[fcells[i]].fullPath = path[fcells[i]].fullPath
    BY <1>2, <2>1, <2>2, ElementOfSeq
  <2>5. /\ LiveListing[p] = [i \in 1..Len(fcells) |-> path[fcells[i]].fullPath]
        /\ LiveListing'[p] = [i \in 1..Len(fcells) |-> path'[fcells[i]].fullPath]
    BY <2>1, <2>3 DEF LiveListing, ChildPaths
  <2> QED BY <2>4, <2>5
<1> QED
  BY <1>5, <1>7, <1>8, <1>13, <1>14

\* A new folder is empty and last in the listing of its parent.
LEMMA RefineMakeFolder ==
  ASSUME TypeOK, Invariant, CarefulInvariant, MakeFolder, CarefulInvariant'
  PROVE  \E p \in DOMAIN Live' \ DOMAIN Live : Tree!AddFolder(p)
<1>0. PICK prefix, cells, home :
        /\ prefix = SubSeq(file, 1, depth) /\ cells = folder[current].children.cells
        /\ home = folder[current].fullPath
  OBVIOUS
<1>1. /\ pc = "add" /\ pc' = "add" /\ depth < Len(file) /\ prefix \notin DOMAIN pathLookup
      /\ folderLookup' = Insert(folderLookup, prefix, guid)
      /\ disk' = disk
      /\ guid \notin DOMAIN folder /\ guid + 1 \notin DOMAIN path
      /\ folder'[current].children = Set(Append(cells, guid + 1))
      /\ folder'[guid] = NewFolder(prefix)
      /\ path'[guid + 1] = NewPath(prefix, Resolved(guid))
      /\ \A f \in DOMAIN folder : f # current => folder'[f] = folder[f]
      /\ \A c \in DOMAIN path : path'[c].fullPath = path[c].fullPath
  BY <1>0, MadeFolder
<1>2. /\ IsOpen /\ IsOpen' /\ Settled /\ Settled' /\ TreeOK /\ current \in DOMAIN folder
      /\ prefix \in FullPaths /\ prefix # Root /\ Len(prefix) = depth
      /\ depth \in 1..Len(file) /\ Len(file) \in Nat /\ file \in FullPaths
      /\ home = IF depth = 1 THEN Root ELSE SubSeq(file, 1, depth - 1)
  <2>1. IsOpen' /\ Settled'
    BY <1>1 DEF CarefulInvariant, AddOK, IsOpen
  <2>2. home = IF depth = 1 THEN Root ELSE SubSeq(file, 1, depth - 1)
    BY <1>0, <1>1 DEF CarefulInvariant, AddOK
  <2> QED BY <1>0, <1>1, <2>1, <2>2, AddingAt
<1>3. prefix \notin DOMAIN folderLookup
  BY <1>1, <1>2, TreeParts DEF EntriesMatchFolders
<1>4. /\ DOMAIN folderLookup' = DOMAIN folderLookup \cup {prefix}
      /\ folderLookup'[prefix] = guid
      /\ \A p \in DOMAIN folderLookup :
           p \in DOMAIN folderLookup' /\ folderLookup'[p] = folderLookup[p]
  BY <1>1, <1>3 DEF Insert
<1>5. /\ home \in DOMAIN folderLookup
      /\ LiveListing'[home] = Append(LiveListing[home], prefix)
      /\ \A p \in DOMAIN folderLookup :
           p # home => LiveListing'[p] = LiveListing[p]
  <2>1. path'[guid + 1].fullPath = prefix
    BY <1>1 DEF NewPath
  <2>2. Pushes(guid + 1, prefix)
    BY <1>0, <1>1, <1>2, <1>4, <2>1, Zenon DEF Pushes
  <2> QED BY <1>0, <1>2, <2>2, ListingGrows
<1>6. LiveListing'[prefix] = <<>>
  <2>1. folder'[folderLookup'[prefix]].children.cells = <<>>
    BY <1>1, <1>4 DEF NewFolder, Set
  <2> QED BY <1>4, <2>1, EmptyListing DEF LiveListing, ChildPaths
<1>7. Tree!FolderOf(prefix) = home
  <2>1. depth # 1 => SubSeq(prefix, 1, depth - 1) = SubSeq(file, 1, depth - 1)
    BY <1>0, <1>2, PrefixOf DEF Parent
  <2> QED BY <1>2, <2>1 DEF Tree!FolderOf
<1>8. Live = LiveListing /\ Live' = LiveListing'
  BY <1>2 DEF Live
<1>9. DOMAIN LiveListing = DOMAIN folderLookup /\ DOMAIN LiveListing' = DOMAIN folderLookup'
  BY DEF LiveListing, ChildPaths
<1>10. LiveListing' = [p \in DOMAIN folderLookup' |-> LiveListing'[p]]
  BY DEF LiveListing, ChildPaths
<1>11. LiveListing' = [p \in DOMAIN LiveListing \cup {prefix} |->
                         IF p = prefix THEN <<>>
                         ELSE IF p = home THEN Append(LiveListing[p], prefix)
                         ELSE LiveListing[p]]
  BY <1>3, <1>4, <1>5, <1>6, <1>9, <1>10
<1>12. StoredListing(disk') = StoredListing(disk)
  BY <1>1
<1>13. Tree!AddFolder(prefix)
  BY <1>2, <1>3, <1>5, <1>7, <1>8, <1>9, <1>11, <1>12 DEF Tree!AddFolder
<1> QED
  BY <1>3, <1>4, <1>8, <1>9, <1>13

\* A new file is last in the listing of its folder.
LEMMA RefineMakeFile ==
  ASSUME TypeOK, Invariant, CarefulInvariant, MakeFile
  PROVE  \E p \in DOMAIN Live' : \E i \in 1..Len(Live'[p]) : Tree!AddFile(Live'[p][i])
<1>0. PICK cells, home :
        cells = folder[current].children.cells /\ home = folder[current].fullPath
  OBVIOUS
<1>1. /\ pc = "add" /\ depth = Len(file) /\ pc' = "idle"
      /\ file \notin DOMAIN pathLookup
      /\ folderLookup' = folderLookup /\ disk' = disk
      /\ guid \notin DOMAIN path
      /\ DOMAIN folder' = DOMAIN folder
      /\ folder'[current].children = Set(Append(cells, guid))
      /\ path'[guid] = NewPath(file, None)
      /\ \A f \in DOMAIN folder : f # current => folder'[f] = folder[f]
      /\ \A c \in DOMAIN path : path'[c].fullPath = path[c].fullPath
  BY <1>0, MadeFile
<1>2. /\ IsOpen /\ IsOpen' /\ Settled /\ TreeOK /\ current \in DOMAIN folder
      /\ file \in FullPaths /\ Len(file) \in Nat
      /\ home = IF depth = 1 THEN Root ELSE SubSeq(file, 1, depth - 1)
      /\ cells \in Seq(DOMAIN path) /\ Cells(cells) = ChildrenOf(current)
  <2>1. IsOpen'
    BY <1>1 DEF IsOpen
  <2>2. home = IF depth = 1 THEN Root ELSE SubSeq(file, 1, depth - 1)
    BY <1>0, <1>1 DEF CarefulInvariant, AddOK
  <2> QED BY <1>0, <1>1, <2>1, <2>2, AddingAt
<1>3. Settled'
  BY <1>1, <1>2 DEF Settled, IsSet, Set
<1>4. /\ home \in DOMAIN folderLookup
      /\ LiveListing'[home] = Append(LiveListing[home], file)
      /\ LiveListing[home] \in Seq(FullPaths)
      /\ \A p \in DOMAIN folderLookup :
           p # home => LiveListing'[p] = LiveListing[p]
  <2>1. path'[guid].fullPath = file
    BY <1>1 DEF NewPath
  <2>2. \A p \in DOMAIN folderLookup :
          p \in DOMAIN folderLookup' /\ folderLookup'[p] = folderLookup[p]
    BY <1>1
  <2>3. Pushes(guid, file)
    BY <1>0, <1>1, <1>2, <2>1, <2>2, Zenon DEF Pushes
  <2> QED BY <1>0, <1>2, <2>3, ListingGrows
<1>5. Tree!FolderOf(file) = home
  BY <1>1, <1>2 DEF Tree!FolderOf
<1>6. /\ Live = LiveListing /\ Live' = LiveListing'
  BY <1>2, <1>3 DEF Live
<1>7. DOMAIN LiveListing = DOMAIN folderLookup /\ DOMAIN LiveListing' = DOMAIN folderLookup
  BY <1>1 DEF LiveListing, ChildPaths
<1>8. LiveListing' = [LiveListing EXCEPT ![home] = Append(LiveListing[home], file)]
  <2>1. /\ LiveListing' = [p \in DOMAIN LiveListing' |-> LiveListing'[p]]
        /\ LiveListing = [p \in DOMAIN LiveListing |-> LiveListing[p]]
    BY DEF LiveListing, ChildPaths
  <2> QED BY <1>4, <1>7, <2>1
<1>9. ASSUME NEW i \in 1..Len(LiveListing[home])
      PROVE  LiveListing[home][i] # file
  <2>1. LiveListing[home] = [n \in 1..Len(cells) |-> path[cells[n]].fullPath]
    <3>1. folderLookup[home] = current
      BY <1>0, <1>2, TreeParts
    <3> QED BY ZenonT(60), <1>0, <1>4, <3>1 DEF LiveListing, ChildPaths
  <2>2. PICK m : m = Len(cells)
    OBVIOUS
  <2>3. m \in Nat /\ \A n \in 1..m : cells[n] \in ChildrenOf(current)
    BY <1>2, <2>2, CellsOfSeq, LenProperties
  <2>4. Len(LiveListing[home]) = m
    BY <1>4, <2>1, <2>2, <2>3, LenProperties
  <2>5. i \in 1..m /\ LiveListing[home][i] = path[cells[i]].fullPath
    BY <2>1, <2>2, <2>4
  <2>6. path[cells[i]].fullPath \in DOMAIN pathLookup
    BY <1>2, <2>3, <2>5, TreeParts DEF ChildrenOf
  <2> QED BY SMTT(60), <1>1, <2>5, <2>6
<1>10. StoredListing(disk') = StoredListing(disk)
  BY <1>1
<1>11. Tree!AddFile(file)
  BY <1>2, <1>4, <1>5, <1>6, <1>7, <1>8, <1>9, <1>10 DEF Tree!AddFile
<1>12. \E i \in 1..Len(LiveListing'[home]) : LiveListing'[home][i] = file
  <2>1. PICK s, n : s = LiveListing[home] /\ n = Len(s)
    OBVIOUS
  <2>2. Len(Append(s, file)) = n + 1 /\ Append(s, file)[n + 1] = file /\ n \in Nat
    BY <1>2, <1>4, <2>1, AppendElement, LenProperties
  <2> QED BY <1>4, <2>1, <2>2
<1> QED
  BY <1>4, <1>6, <1>7, <1>11, <1>12

\* Every step of a careful client's program is a step of the tree or changes
\* nothing there.
LEMMA RefineStep ==
  ASSUME CarefulClient, TypeOK, Invariant, CarefulInvariant, AsStored, Next,
         TypeOK', Invariant', CarefulInvariant'
  PROVE  Tree!Next \/ UNCHANGED Tree!vars
<1>1. CASE Quiet \/ ResolvePaths \/ WalkStop
  BY <1>1, RefineQuiet, RefineResolvePaths, RefineWalkStop
<1>2. CASE Read
  BY <1>2, RefineRead DEF Tree!Next
<1>3. CASE MakeFolder
  BY <1>3, RefineMakeFolder DEF Tree!Next
<1>4. CASE MakeFile
  BY <1>4, RefineMakeFile DEF Tree!Next
<1>5. CASE Write
  BY <1>5, RefineWrite DEF Tree!Next
<1> QED
  BY <1>1, <1>2, <1>3, <1>4, <1>5, StepKinds DEF CarefulInvariant

LEMMA StutterRefines ==
  ASSUME AsStored, UNCHANGED vars
  PROVE  AsStored' /\ UNCHANGED Tree!vars
<1> USE DEF vars, heapVars, tableVars, lookupVars, addVars, walkVars, makerVars
<1>1. /\ UNCHANGED <<folder, path, folders, paths, folderLookup, disk, pc>>
      /\ (IsOpen' <=> IsOpen) /\ (Settled' <=> Settled)
  BY DEF IsOpen, Settled
<1>2. AsRead => AsRead'
  BY <1>1 DEF AsRead
<1>3. LiveListing' = LiveListing /\ StoredListing(disk') = StoredListing(disk)
  BY <1>1 DEF LiveListing, ChildPaths
<1>4. AsStored'
  BY <1>1, <1>2 DEF AsStored
<1>5. Live' = Live
  BY <1>1, <1>3 DEF Live
<1> QED
  BY <1>1, <1>3, <1>4, <1>5 DEF Tree!vars, IsOpen

-----------------------------------------------------------------------------

\* AsStored: until a careful client's engine is resolved it is what was read.
THEOREM CarefulReadsAsStored == CarefulClient /\ Spec => []AsStored
<1> SUFFICES ASSUME CarefulClient PROVE Spec => []AsStored
  OBVIOUS
<1>1. Init => AsStored
  BY DEF Init, AsStored, IsOpen
<1>2. TypeOK /\ Invariant /\ CarefulInvariant /\ AsStored /\ [Next]_vars
        /\ CarefulInvariant' => AsStored'
  BY AsStoredStep, StutterRefines
<1>3. Spec => []TypeOK /\ []Invariant
  BY TypeCorrect, InvariantHolds, PTL
<1>4. Spec => []CarefulInvariant
  <2>1. CarefulClient
    OBVIOUS
  <2> QED BY <2>1, CarefulInvariantHolds, PTL
<1> QED
  BY <1>1, <1>2, <1>3, <1>4, PTL DEF Spec

\* ImplementsTree: a careful client's search filesystem is the tree of
\* SearchTree.  What add_file adds is last in its folder's list and nothing else
\* changes, reorganize and the writer save every list as it is, and reading and
\* resolve give it back.
THEOREM CarefulImplementsTree == CarefulClient /\ Spec => ImplementsTree
<1> SUFFICES ASSUME CarefulClient PROVE Spec => ImplementsTree
  OBVIOUS
<1>1. Init => Tree!Init
  BY RefineInit
<1>2. TypeOK /\ Invariant /\ CarefulInvariant /\ AsStored /\ [Next]_vars
        /\ TypeOK' /\ Invariant' /\ CarefulInvariant' => [Tree!Next]_(Tree!vars)
  BY RefineStep, StutterRefines
<1>3. Spec => []TypeOK /\ []Invariant
  BY TypeCorrect, InvariantHolds, PTL
<1>4. Spec => []CarefulInvariant /\ []AsStored
  <2>1. CarefulClient
    OBVIOUS
  <2> QED BY <2>1, CarefulInvariantHolds, CarefulReadsAsStored, PTL
<1> QED
  BY <1>1, <1>2, <1>3, <1>4, PTL DEF Spec, ImplementsTree, Tree!Spec
=============================================================================
