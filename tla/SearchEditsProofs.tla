-------------------------- MODULE SearchEditsProofs --------------------------
(***************************************************************************)
(* Theorems of SearchEdits: whatever a client adds, rearranges and saves,   *)
(* and wherever its saves fail, what the next one puts on disk as a whole  *)
(* is complete, its lists end, and each of them is what the engine showed. *)
(***************************************************************************)
EXTENDS SearchEditsInvariant, SearchFsProofs

-----------------------------------------------------------------------------
(* The steps there are. *)

\* A step of the engine's own, but not one that consumes it.
EngineStep == Next /\ ~Write /\ ~ReadGarbled /\ UNCHANGED saveVars

LEMMA EditSteps ==
  ASSUME EditTypeOK, EditNext
  PROVE  /\ client' = client
         /\ \/ EngineStep
            \/ \E f \in DOMAIN folder : Rearrange(f)
            \/ BufferImage \/ WriteFile \/ SaveReturns \/ SaveFails
<1>1. client' = client
  BY DEF EditNext, EditedCallStep, EditedClientStep
<1>2. client.files \subseteq Files
  BY ClientsOK DEF EditTypeOK
<1>3. ASSUME ResolveStep, UNCHANGED saveVars PROVE EngineStep
  <2>1. Next /\ pc = "walk"
    BY <1>3 DEF Next, CallStep, ResolveStep, WalkSkip, WalkStart, WalkHop, WalkStop,
               ResolveReturns, Walking
  <2> QED BY <1>3, <2>1 DEF EngineStep, Write, Pushed, ReadGarbled
<1>4. ASSUME AddStep, UNCHANGED saveVars PROVE EngineStep
  <2>1. Next /\ pc = "add"
    BY <1>4 DEF Next, CallStep, AddStep, Descend, MakeFolder, MakeFile, AddFilePanics,
               Descending, Landing
  <2> QED BY <1>4, <2>1 DEF EngineStep, Write, Pushed, ReadGarbled
<1>5. ASSUME PushFolder \/ PushPath \/ PushNext \/ Reorganize \/ WritePanics,
             UNCHANGED saveVars
      PROVE  EngineStep
  <2>1. Next /\ pc = "push" /\ pc' # "closed"
    BY <1>5 DEF Next, CallStep, WriterStep, PushFolder, PushPath, PushNext, Reorganize,
               WritePanics, Pushing, Pushed, Panic
  <2> QED BY <1>5, <2>1 DEF EngineStep, Write, ReadGarbled
<1>6. ASSUME ReadWhole PROVE EngineStep
  <2>1. Next /\ pc = "closed" /\ pc' = "idle" /\ UNCHANGED saveVars
    BY <1>6 DEF ReadWhole, Next, ClientStep, Read
  <2> QED BY <2>1 DEF EngineStep, Write, Pushed, ReadGarbled
<1>7. ASSUME \/ ResolvePaths \/ ResolvePathsPanics
             \/ \E f \in client.files : AddFile(f)
             \/ \E p \in DOMAIN folderLookup : ListFolder(folderLookup[p])
             \/ \E t \in {"engine", "directory"} : FromEngine(t),
             UNCHANGED saveVars
      PROVE  EngineStep
  <2>1. ClientStep
    BY <1>2, <1>7 DEF ClientStep
  <2>2. Next /\ pc = "idle"
    BY <1>7, <2>1 DEF Next, ResolvePaths, ResolvePathsPanics, AddFile, ListFolder, FromEngine
  <2> QED BY <1>7, <2>2 DEF EngineStep, Write, Pushed, ReadGarbled
<1> QED
  BY <1>1, <1>3, <1>4, <1>5, <1>6, <1>7
  DEF EditNext, EditedCallStep, EditedClientStep, SaveStep

\* Which of the engine's variables a step of it leaves alone.
Still ==
  /\ UNCHANGED <<folder, path, guid, folders, paths, folderLookup, pathLookup, disk>>
  /\ \/ Panic
     \/ WalkSkip \/ WalkStart \/ WalkHop \/ ResolveReturns \/ Descend
     \/ PushFolder \/ PushPath \/ PushNext
     \/ \E f \in Files : AddFile(f)
     \/ \E t \in {"engine", "memory", "directory"} : FromEngine(t)

LEMMA EngineSteps ==
  ASSUME EngineStep
  PROVE  \/ Still
         \/ Read \/ ResolvePaths \/ WalkStop
         \/ MakeFolder /\ ~Panic
         \/ MakeFile \/ Reorganize
         \/ \E p \in DOMAIN folderLookup : ListFolder(folderLookup[p])
<1> USE DEF heapVars, tableVars, lookupVars
<1>0. Panic => Still
  BY DEF Panic, Still
<1>1. CASE ResolveStep
  BY <1>0, <1>1 DEF ResolveStep, WalkSkip, WalkStart, WalkHop, ResolveReturns, Still
<1>2. CASE AddStep
  BY <1>0, <1>2 DEF AddStep, Descend, AddFilePanics, Still
<1>3. CASE WriterStep
  BY <1>0, <1>3 DEF WriterStep, PushFolder, PushPath, PushNext, WritePanics, Still,
                    EngineStep
<1>4. CASE ClientStep
  BY <1>0, <1>4 DEF ClientStep, ResolvePathsPanics, AddFile, FromEngine, Still, EngineStep
<1> QED
  BY <1>1, <1>2, <1>3, <1>4 DEF EngineStep, Next, CallStep
-----------------------------------------------------------------------------
(* Edited vectors. *)

\* What a folder's vector is: cells of paths there are.
LEMMA VectorType ==
  ASSUME TypeOK, NEW f \in DOMAIN folder, IsSet(folder[f].children)
  PROVE  /\ Vector(f) \in Seq(DOMAIN path) /\ Len(Vector(f)) \in Nat
         /\ \A i \in 1..Len(Vector(f)) :
              Vector(f)[i] \in DOMAIN path /\ Vector(f)[i] \in Cells(Vector(f))
         /\ \A c \in Cells(Vector(f)) : \E i \in 1..Len(Vector(f)) : c = Vector(f)[i]
         /\ Cells(Vector(f)) \subseteq DOMAIN path
         /\ Vector(f) # <<>> => Len(Vector(f)) \in 1..Len(Vector(f))
<1>1. Vector(f) \in Seq(DOMAIN path)
  BY TableCells DEF IsSet, SearchFolder, ReferenceSetOf, Vector
<1> HIDE DEF Vector
<1> QED
  BY <1>1, CellsOfSeq, LenProperties, ElementOfSeq

\* However a vector is edited, it is one of cells there are.
LEMMA RearrangedType ==
  ASSUME TypeOK, NEW v \in Seq(DOMAIN path), NEW cells \in Rearranged(v)
  PROVE  cells \in Seq(DOMAIN path)
<1>1. Len(v) \in Nat /\ \A i \in 1..Len(v) : v[i] \in DOMAIN path
  BY LenProperties, ElementOfSeq
<1>2. \A m, n \in Nat : m >= 1 /\ n <= Len(v) => SubSeq(v, m, n) \in Seq(DOMAIN path)
  BY SubSeqIsSeq
<1>3. ASSUME NEW m \in 1..Len(v), NEW n \in 1..Len(v)
      PROVE  [v EXCEPT ![m] = v[n], ![n] = v[m]] \in Seq(DOMAIN path)
  <2>1. v \in [1..Len(v) -> DOMAIN path]
    BY LenProperties
  <2>2. [v EXCEPT ![m] = v[n], ![n] = v[m]] \in [1..Len(v) -> DOMAIN path]
    BY <2>1
  <2> QED BY <1>1, <2>2
<1>4. ASSUME NEW i \in 1..Len(v)
      PROVE  SeqOps!RemoveAt(v, i) \in Seq(DOMAIN path)
  <2>1. i - 1 \in Nat /\ i + 1 \in Nat /\ i - 1 <= Len(v) /\ i + 1 >= 1
    BY <1>1
  <2>2. SubSeq(v, 1, i - 1) \in Seq(DOMAIN path) /\ SubSeq(v, i + 1, Len(v)) \in Seq(DOMAIN path)
    BY <1>1, <1>2, <2>1
  <2> QED BY <2>2, ConcatProperties DEF SeqOps!RemoveAt
<1>5. ASSUME NEW i \in 1..(Len(v) + 1), NEW c \in Unlisted
      PROVE  SeqOps!InsertAt(v, i, c) \in Seq(DOMAIN path)
  <2>1. i - 1 \in Nat /\ i - 1 <= Len(v) /\ i >= 1 /\ i \in Nat
    BY <1>1
  <2>2. SubSeq(v, 1, i - 1) \in Seq(DOMAIN path) /\ SubSeq(v, i, Len(v)) \in Seq(DOMAIN path)
    BY <1>1, <1>2, <2>1
  <2>3. <<c>> \in Seq(DOMAIN path)
    BY OneElement DEF Unlisted
  <2> QED BY <2>2, <2>3, ConcatProperties DEF SeqOps!InsertAt
<1>6. CASE cells \in Swapped(v)
  BY <1>3, <1>6 DEF Swapped
<1>7. CASE cells \in Shortened(v)
  BY <1>4, <1>7, EmptySeq DEF Shortened
<1>8. CASE cells \in Lengthened(v)
  BY <1>5, <1>8 DEF Lengthened
<1> QED
  BY <1>6, <1>7, <1>8 DEF Rearranged

\* Two cells that change places leave a vector without repetitions.
LEMMA SwappedOnce ==
  ASSUME NEW P, NEW v \in Seq(P), \A a, b \in 1..Len(v) : v[a] = v[b] => a = b,
         NEW m \in 1..Len(v), NEW n \in 1..Len(v),
         NEW w, w = [v EXCEPT ![m] = v[n], ![n] = v[m]]
  PROVE  /\ w \in Seq(P) /\ Len(w) = Len(v)
         /\ \A a, b \in 1..Len(w) : w[a] = w[b] => a = b
<1>1. Len(v) \in Nat /\ v \in [1..Len(v) -> P]
  BY LenProperties
<1>2. w \in [1..Len(v) -> P]
  BY <1>1
<1>3. w \in Seq(P) /\ Len(w) = Len(v)
  BY <1>1, <1>2
<1>4. \A a \in 1..Len(v) : w[a] = IF a = n THEN v[m] ELSE IF a = m THEN v[n] ELSE v[a]
  BY <1>1
<1> QED
  BY <1>3, <1>4

\* A vector with the same children can only have had two of them swapped.
LEMMA KeptChildren ==
  ASSUME TypeOK, NoChildTwice, NEW f \in SetFolders,
         NEW cells \in Rearranged(Vector(f)), KeepsTheEnd(f, cells)
  PROVE  /\ cells \in Seq(DOMAIN path) /\ Len(cells) = Len(Vector(f))
         /\ \A a, b \in 1..Len(cells) : cells[a] = cells[b] => a = b
         /\ Cells(cells) = Cells(Vector(f)) /\ LastOf(cells) = LastOf(Vector(f))
<1> DEFINE v == Vector(f)
<1>1. /\ v \in Seq(DOMAIN path) /\ Len(v) \in Nat
      /\ \A i \in 1..Len(v) : v[i] \in Cells(v)
      /\ \A a, b \in 1..Len(v) : v[a] = v[b] => a = b
      /\ Cells(v) \subseteq Children
  BY VectorType DEF SetFolders, NoChildTwice, Children, Vector
<1>2. Cells(cells) = Cells(v) /\ LastOf(cells) = LastOf(v)
  BY DEF KeepsTheEnd, Vector
<1> HIDE DEF v
<1>3. cells \in Seq(DOMAIN path)
  BY <1>1, RearrangedType DEF v
<1>4. CASE cells \in Swapped(v)
  BY <1>1, <1>2, <1>4, SwappedOnce DEF Swapped, v
<1>5. ASSUME NEW i \in 1..Len(v), cells = SeqOps!RemoveAt(v, i) PROVE FALSE
  <2> DEFINE a == SubSeq(v, 1, i - 1)
             b == SubSeq(v, i + 1, Len(v))
  <2>0. i \in Nat /\ i >= 1 /\ i <= Len(v) /\ i - 1 \in Nat
    BY <1>1
  <2>1. /\ a \in Seq(DOMAIN path) /\ Len(a) = i - 1
        /\ \A h \in 1..(i - 1) : a[h] = v[h]
    <3>1. /\ Len(a) = IF 1 <= i - 1 THEN i - 1 - 1 + 1 ELSE 0
          /\ \A h \in 1..(i - 1 - 1 + 1) : a[h] = v[1 + h - 1]
          /\ a \in Seq(DOMAIN path)
      BY <1>1, <2>0, SubSeqProperties
    <3> HIDE DEF a
    <3> QED BY <2>0, <3>1
  <2>2. /\ b \in Seq(DOMAIN path) /\ Len(b) = Len(v) - i
        /\ \A h \in 1..(Len(v) - i) : b[h] = v[h + i]
    <3>1. /\ Len(b) = IF i + 1 <= Len(v) THEN Len(v) - (i + 1) + 1 ELSE 0
          /\ \A h \in 1..(Len(v) - (i + 1) + 1) : b[h] = v[i + 1 + h - 1]
          /\ b \in Seq(DOMAIN path)
      BY <1>1, <2>0, SubSeqProperties
    <3> HIDE DEF b
    <3> QED BY <1>1, <2>0, <3>1
  <2>3. cells = a \o b
    BY <1>5 DEF SeqOps!RemoveAt
  <2> HIDE DEF a, b
  <2>4. /\ Len(cells) = Len(v) - 1
        /\ \A h \in 1..Len(cells) : cells[h] = IF h <= i - 1 THEN a[h] ELSE b[h - (i - 1)]
    BY <1>1, <2>0, <2>1, <2>2, <2>3, ConcatProperties
  <2>5. PICK h \in 1..Len(cells) : v[i] = cells[h]
    BY <1>1, <1>2 DEF Cells
  <2>6. CASE h <= i - 1
    <3>1. h \in 1..(i - 1) /\ h \in 1..Len(v) /\ h # i
      BY <1>1, <2>0, <2>4, <2>5, <2>6
    <3>2. v[i] = v[h]
      BY <2>1, <2>4, <2>5, <2>6, <3>1
    <3> QED BY <1>1, <3>1, <3>2
  <2>7. CASE ~(h <= i - 1)
    <3>1. h \in Nat /\ h - (i - 1) \in 1..(Len(v) - i) /\ h - (i - 1) + i \in 1..Len(v)
          /\ h - (i - 1) + i # i
      BY <1>1, <2>0, <2>4, <2>5, <2>7
    <3>2. v[i] = v[h - (i - 1) + i]
      BY <2>2, <2>4, <2>5, <2>7, <3>1
    <3> QED BY <1>1, <3>1, <3>2
  <2> QED BY <2>6, <2>7
<1>6. CASE cells = <<>>
  <2>1. Len(cells) = 0 /\ Cells(cells) = {}
    BY <1>6, EmptySeq DEF Cells
  <2>2. ~\E i \in 1..Len(v) : TRUE
    BY <1>1, <1>2, <2>1
  <2>3. Len(v) = 0
    BY <1>1, <2>2
  <2> QED BY <1>2, <1>3, <2>1, <2>3 DEF v
<1>7. ASSUME NEW i \in 1..(Len(v) + 1), NEW c \in Unlisted, cells = SeqOps!InsertAt(v, i, c)
      PROVE  FALSE
  <2> DEFINE a == SubSeq(v, 1, i - 1)
             b == SubSeq(v, i, Len(v))
  <2>0. i \in Nat /\ i >= 1 /\ i <= Len(v) + 1 /\ i - 1 \in Nat /\ i - 1 <= Len(v)
    BY <1>1
  <2>1. a \in Seq(DOMAIN path) /\ b \in Seq(DOMAIN path)
    BY <1>1, <2>0, SubSeqIsSeq
  <2>2. <<c>> \in Seq(DOMAIN path) /\ Len(<<c>>) = 1 /\ <<c>>[1] = c
    BY OneElement DEF Unlisted
  <2>3. cells = (a \o <<c>>) \o b
    BY <1>7 DEF SeqOps!InsertAt
  <2>4. Len(a) \in Nat /\ Len(b) \in Nat
    BY <2>1, LenProperties
  <2> HIDE DEF a, b
  <2>5. /\ a \o <<c>> \in Seq(DOMAIN path) /\ Len(a \o <<c>>) = Len(a) + 1
        /\ (a \o <<c>>)[Len(a) + 1] = c
    <3>1. Len(a) + 1 \in 1..(Len(a) + 1) /\ ~(Len(a) + 1 <= Len(a)) /\ Len(a) + 1 - Len(a) = 1
      BY <2>4
    <3> QED BY <2>1, <2>2, <2>4, <3>1, ConcatProperties
  <2>6. Len(cells) = Len(a) + 1 + Len(b) /\ cells[Len(a) + 1] = c
    BY <2>1, <2>3, <2>4, <2>5, ConcatProperties
  <2>7. c \in Cells(cells)
    BY <2>4, <2>6 DEF Cells
  <2> QED BY <1>1, <1>2, <2>7 DEF Unlisted
<1> QED
  BY <1>3, <1>4, <1>5, <1>6, <1>7 DEF Rearranged, Shortened, Lengthened, v

\* set_path along a vector without repetitions.
LEMMA LinkedAlongIs ==
  ASSUME NEW heap, NEW P, NEW cells \in Seq(P),
         \A a, b \in 1..Len(cells) : cells[a] = cells[b] => a = b
  PROVE  /\ DOMAIN LinkedAlong(heap, cells) = DOMAIN heap
         /\ \A i \in 1..(Len(cells) - 1) :
              cells[i] \in DOMAIN heap =>
                LinkedAlong(heap, cells)[cells[i]]
                  = [heap[cells[i]] EXCEPT !.next = Resolved(cells[i + 1])]
         /\ \A c \in DOMAIN heap :
              (\A i \in 1..(Len(cells) - 1) : cells[i] # c)
                => LinkedAlong(heap, cells)[c] = heap[c]
<1>1. Len(cells) \in Nat
  BY LenProperties
<1>2. ASSUME NEW i \in 1..(Len(cells) - 1), cells[i] \in DOMAIN heap
      PROVE  LinkedAlong(heap, cells)[cells[i]]
               = [heap[cells[i]] EXCEPT !.next = Resolved(cells[i + 1])]
  <2> DEFINE n == CHOOSE a \in 1..Len(cells) : cells[a] = cells[i]
  <2>1. n = i
    BY <1>1
  <2>2. LinkedAlong(heap, cells)[cells[i]]
          = [heap[cells[i]] EXCEPT !.next = Resolved(cells[1 + n])]
    BY <1>2 DEF LinkedAlong
  <2>3. 1 + n = i + 1
    BY <1>1, <2>1
  <2> QED BY <2>2, <2>3
<1> QED
  BY <1>2 DEF LinkedAlong
-----------------------------------------------------------------------------
(* Type correctness. *)

LEMMA LinkedAlongType ==
  ASSUME TypeOK, NEW cells \in Seq(DOMAIN path),
         \A a, b \in 1..Len(cells) : cells[a] = cells[b] => a = b
  PROVE  LinkedAlong(path, cells) \in [DOMAIN path -> SearchPath(DOMAIN folder, DOMAIN path)]
<1>1. Len(cells) \in Nat /\ \A i \in 1..Len(cells) : cells[i] \in DOMAIN path
  BY LenProperties, ElementOfSeq
<1>2. ASSUME NEW c \in DOMAIN path
      PROVE  LinkedAlong(path, cells)[c] \in SearchPath(DOMAIN folder, DOMAIN path)
  <2>1. path[c] \in SearchPath(DOMAIN folder, DOMAIN path)
    BY TableCells
  <2>2. ASSUME NEW i \in 1..(Len(cells) - 1), cells[i] = c
        PROVE  LinkedAlong(path, cells)[c] \in SearchPath(DOMAIN folder, DOMAIN path)
    <3>1. LinkedAlong(path, cells)[c] = [path[c] EXCEPT !.next = Resolved(cells[i + 1])]
      BY <2>2, LinkedAlongIs
    <3>2. Resolved(cells[i + 1]) \in ReferenceTo(DOMAIN path)
      BY <1>1 DEF Resolved, ReferenceTo
    <3> QED BY <2>1, <3>1, <3>2 DEF SearchPath
  <2>3. CASE \A i \in 1..(Len(cells) - 1) : cells[i] # c
    BY <2>1, <2>3, LinkedAlongIs
  <2> QED BY <2>2, <2>3
<1>3. LinkedAlong(path, cells) = [c \in DOMAIN path |-> LinkedAlong(path, cells)[c]]
  BY DEF LinkedAlong
<1> QED
  BY <1>2, <1>3

\* What a client does to the vector of f, and to the links.
Rearranges(f, cells) ==
  /\ IsSet(folder[f].children)
  /\ cells \in Rearranged(Vector(f))
  /\ cells \in Seq(DOMAIN path)
  /\ folder' = [folder EXCEPT ![f].children = Set(cells)]
  /\ \/ client.edits = "any" /\ UNCHANGED path
     \/ /\ client.edits = "linked"
        /\ Len(cells) = Len(Vector(f))
        /\ \A a, b \in 1..Len(cells) : cells[a] = cells[b] => a = b
        /\ Cells(cells) = Cells(Vector(f)) /\ LastOf(cells) = LastOf(Vector(f))
        /\ path' = LinkedAlong(path, cells)

LEMMA RearrangeIs ==
  ASSUME TypeOK, client.edits = "linked" => NoChildTwice,
         NEW f \in DOMAIN folder, Rearrange(f)
  PROVE  /\ pc = "idle" /\ pc' = "idle" /\ Settled
         /\ UNCHANGED <<guid, folders, paths, folderLookup, pathLookup, disk, file, depth,
                        current, k, walked, j, folderMaker, pathMaker, target, buffer,
                        done, ragged, torn>>
         /\ \E cells : Rearranges(f, cells)
<1>1. /\ pc = "idle" /\ pc' = "idle" /\ Settled
      /\ UNCHANGED <<guid, folders, paths, folderLookup, pathLookup, disk, file, depth,
                     current, k, walked, j, folderMaker, pathMaker, target, buffer,
                     done, ragged, torn>>
  BY DEF Rearrange, tableVars, lookupVars, addVars, walkVars, makerVars, saveVars
<1>2. IsSet(folder[f].children) /\ f \in SetFolders
  BY <1>1 DEF Settled, SetFolders
<1>3. PICK cells \in Rearranged(Vector(f)) :
        /\ folder' = [folder EXCEPT ![f].children = Set(cells)]
        /\ \/ client.edits = "any" /\ UNCHANGED path
           \/ /\ client.edits = "linked"
              /\ KeepsTheEnd(f, cells)
              /\ path' = LinkedAlong(path, cells)
  BY DEF Rearrange, Vector
<1>4. cells \in Seq(DOMAIN path)
  BY <1>2, <1>3, RearrangedType, VectorType
<1>5. Rearranges(f, cells)
  BY <1>2, <1>3, <1>4, KeptChildren DEF Rearranges
<1> QED
  BY <1>1, <1>5

LEMMA TypeRearrange ==
  ASSUME TypeOK, client.edits = "linked" => NoChildTwice,
         NEW f \in DOMAIN folder, Rearrange(f)
  PROVE  TypeOK'
<1>1. /\ pc = "idle" /\ pc' = "idle"
      /\ UNCHANGED <<guid, folders, paths, folderLookup, pathLookup, disk, file, depth,
                     current, k, walked, j, folderMaker, pathMaker, target>>
  BY RearrangeIs
<1>2. PICK cells : Rearranges(f, cells)
  BY RearrangeIs
<1>3. Set(cells) \in ReferenceSetOf(DOMAIN path)
  BY <1>2 DEF Rearranges, Set, ReferenceSetOf
<1>4. /\ DOMAIN folder' = DOMAIN folder
      /\ folder' \in [DOMAIN folder -> SearchFolder(DOMAIN path)]
  <2>1. folder \in [DOMAIN folder -> SearchFolder(DOMAIN path)]
    BY DEF TypeOK, IsMap
  <2>2. [folder[f] EXCEPT !.children = Set(cells)] \in SearchFolder(DOMAIN path)
    BY <1>3, <2>1 DEF SearchFolder
  <2>3. folder' = [folder EXCEPT ![f] = [folder[f] EXCEPT !.children = Set(cells)]]
    BY <1>2 DEF Rearranges
  <2> QED BY <2>1, <2>2, <2>3
<1>5. /\ DOMAIN path' = DOMAIN path
      /\ path' \in [DOMAIN path -> SearchPath(DOMAIN folder, DOMAIN path)]
  <2>1. path \in [DOMAIN path -> SearchPath(DOMAIN folder, DOMAIN path)]
    BY DEF TypeOK, IsMap
  <2>2. CASE UNCHANGED path
    BY <2>1, <2>2
  <2>3. CASE path' = LinkedAlong(path, cells)
                /\ \A a, b \in 1..Len(cells) : cells[a] = cells[b] => a = b
    BY <1>2, <2>3, LinkedAlongType, LinkedAlongIs DEF Rearranges
  <2> QED BY <1>2, <2>2, <2>3 DEF Rearranges
<1> QED
  BY <1>1, <1>4, <1>5 DEF TypeOK, IsMap

\* While a save goes on no step of the engine's is possible.
LEMMA SavingOnlySaves ==
  ASSUME EngineStep \/ BufferImage \/ \E f \in DOMAIN folder : Rearrange(f)
  PROVE  pc # "saving"
<1>1. CASE EngineStep
  BY <1>1
  DEF EngineStep, Next, CallStep, ClientStep, ResolveStep, AddStep, WriterStep,
      WalkSkip, WalkStart, WalkHop, WalkStop, ResolveReturns, Walking, Descend,
      MakeFolder, MakeFile, AddFilePanics, Descending, Landing, PushFolder, PushPath,
      PushNext, Pushing, Reorganize, Write, WritePanics, Pushed, Read, ReadGarbled,
      ResolvePaths, ResolvePathsPanics, AddFile, ListFolder, FromEngine
<1>2. CASE BufferImage
  BY <1>2 DEF BufferImage, Pushed
<1>3. CASE \E f \in DOMAIN folder : Rearrange(f)
  BY <1>3 DEF Rearrange
<1> QED
  BY <1>1, <1>2, <1>3

LEMMA ImageUpdated ==
  ASSUME NEW a \in Image, NEW b \in Image, NEW name \in Cells(FilesInOrder)
  PROVE  [a EXCEPT ![name] = b[name]] \in Image
<1>1. name \in {"folders", "paths", "pathLinks", "folderKeys", "pathKeys"}
  BY DEF Cells, FilesInOrder
<1> QED
  BY <1>1 DEF Image

LEMMA TableCut ==
  ASSUME NEW a \in Image, NEW b \in Image, NEW name \in {"folders", "paths"},
         NEW n \in 0..Len(b[name])
  PROVE  /\ [a EXCEPT ![name] = SubSeq(b[name], 1, n)] \in Image
         /\ Len(SubSeq(b[name], 1, n)) = n
         /\ \A i \in 1..n : SubSeq(b[name], 1, n)[i] = b[name][i]
<1>1. b.folders \in Seq(FolderEntry) /\ b.paths \in Seq(PathEntry)
  BY DEF Image
<1>2. ASSUME NEW S, NEW s \in Seq(S), n \in 0..Len(s)
      PROVE  /\ SubSeq(s, 1, n) \in Seq(S) /\ Len(SubSeq(s, 1, n)) = n
             /\ \A i \in 1..n : SubSeq(s, 1, n)[i] = s[i]
  <2>1. Len(s) \in Nat /\ n \in Nat /\ n <= Len(s)
    BY <1>2, LenProperties
  <2>2. SubSeq(s, 1, n) \in Seq(S)
    BY <2>1, SubSeqIsSeq
  <2>3. /\ Len(SubSeq(s, 1, n)) = IF 1 <= n THEN n - 1 + 1 ELSE 0
        /\ \A i \in 1..(n - 1 + 1) : SubSeq(s, 1, n)[i] = s[1 + i - 1]
    BY <2>1, SubSeqProperties
  <2> QED BY <2>1, <2>2, <2>3
<1>3. CASE name = "folders"
  <2>1. /\ SubSeq(b.folders, 1, n) \in Seq(FolderEntry)
        /\ Len(SubSeq(b.folders, 1, n)) = n
        /\ \A i \in 1..n : SubSeq(b.folders, 1, n)[i] = b.folders[i]
    BY <1>1, <1>2, <1>3
  <2> QED BY <1>3, <2>1 DEF Image
<1>4. CASE name = "paths"
  <2>1. /\ SubSeq(b.paths, 1, n) \in Seq(PathEntry)
        /\ Len(SubSeq(b.paths, 1, n)) = n
        /\ \A i \in 1..n : SubSeq(b.paths, 1, n)[i] = b.paths[i]
    BY <1>1, <1>2, <1>4
  <2> QED BY <1>4, <2>1 DEF Image
<1> QED
  BY <1>3, <1>4

\* What a save does to the disk: a file is as it was, whole, or, if the save
\* fails, a part of a table.
FileWritten == disk' = [disk EXCEPT ![File] = buffer[File]]

FileCut ==
  /\ File \in {"folders", "paths"}
  /\ \E n \in 0..Len(buffer[File]) : disk' = [disk EXCEPT ![File] = SubSeq(buffer[File], 1, n)]

LEMMA SaveSteps ==
  ASSUME EditTypeOK, WriteFile \/ SaveReturns \/ SaveFails
  PROVE  /\ pc = "saving" /\ Consumed
         /\ WriteFile \/ SaveFails => File \in Cells(FilesInOrder)
         /\ UNCHANGED disk \/ FileWritten \/ FileCut
         /\ disk' \in Image /\ ragged' \subseteq {"folders", "paths"} /\ torn' \in Nat
         /\ UNCHANGED <<folder, path, guid, folders, paths, folderLookup, pathLookup,
                        file, depth, current, k, walked, j, folderMaker, pathMaker,
                        target>>
         /\ \/ pc' = "saving" /\ done' \in 0..Len(FilesInOrder) /\ buffer' = buffer
            \/ pc' = "closed" /\ done' = 0 /\ buffer' = NoImage
<1> USE DEF heapVars, tableVars, lookupVars, addVars, walkVars, makerVars
<1>1. pc = "saving" /\ Consumed
  BY DEF WriteFile, SaveReturns, SaveFails, Saving, EditTypeOK
<1>2. Len(FilesInOrder) = 5
  BY DEF FilesInOrder
<1>3. WriteFile \/ SaveFails => File \in Cells(FilesInOrder) /\ done + 1 \in 0..Len(FilesInOrder)
  BY <1>2 DEF WriteFile, SaveFails, Saving, File, EditTypeOK, Cells
<1>4. CASE WriteFile
  BY <1>1, <1>3, <1>4, ImageUpdated DEF WriteFile, EditTypeOK, FileWritten
<1>5. CASE SaveReturns
  BY <1>1, <1>5, <1>3 DEF SaveReturns, Closes, EditTypeOK
<1>6. CASE SaveFails
  <2>1. /\ UNCHANGED disk \/ FileCut
        /\ disk' \in Image /\ ragged' \subseteq {"folders", "paths"}
    <3>1. disk \in Image /\ buffer \in Image /\ ragged \subseteq {"folders", "paths"}
      BY DEF EditTypeOK
    <3>2. CASE UNCHANGED disk /\ UNCHANGED ragged
      BY <3>1, <3>2
    <3>3. CASE File \in {"folders", "paths"} /\ TearTable /\ ~(UNCHANGED disk /\ UNCHANGED ragged)
      <4>1. PICK n \in 0..Len(buffer[File]) :
              /\ disk' = [disk EXCEPT ![File] = SubSeq(buffer[File], 1, n)]
              /\ \/ ragged' = ragged \ {File}
                 \/ n < Len(buffer[File]) /\ ragged' = ragged \cup {File}
        BY <3>3 DEF TearTable
      <4>2. disk' \in Image
        BY <3>1, <3>3, <4>1, TableCut
      <4> QED BY <3>1, <3>3, <4>1, <4>2 DEF FileCut
    <3> QED BY <1>6, <3>2, <3>3 DEF SaveFails
  <2>2. torn' \in Nat
    BY <1>6 DEF SaveFails, EditTypeOK
  <2> QED BY <1>1, <1>3, <1>6, <2>1, <2>2 DEF SaveFails, Closes, EditTypeOK
<1> QED
  BY <1>4, <1>5, <1>6

LEMMA NoImageType == NoImage \in Image
BY EmptySeq DEF NoImage, Image

LEMMA ClosedType ==
  ASSUME Consumed, pc = "closed", disk \in Image
  PROVE  TypeOK
<1>1. DOMAIN EmptyMap = {} /\ \A T : EmptyMap \in [{} -> T]
  BY DEF EmptyMap
<1>2. \A G : IsMaker(NewMaker, G)
  BY NewMakerOK
<1> QED
  BY <1>1, <1>2, EmptySeq DEF Consumed, TypeOK, IsMap

LEMMA EditTypeInit == EditInit => EditTypeOK
<1> SUFFICES ASSUME EditInit PROVE EditTypeOK
  OBVIOUS
<1>1. TypeOK /\ pc = "closed"
  BY TypeInit DEF EditInit, Init
<1>2. 0 \in 0..Len(FilesInOrder)
  BY DEF FilesInOrder
<1> QED
  BY <1>1, <1>2, NoImageType DEF EditInit, EditTypeOK, TypeOK

LEMMA EditTypeStep ==
  ASSUME EditTypeOK, client.edits = "linked" => pc = "saving" \/ NoChildTwice,
         [EditNext]_editVars
  PROVE  EditTypeOK'
<1>1. CASE UNCHANGED editVars
  BY <1>1 DEF editVars, saveVars, EditTypeOK, Consumed, TypeOK, vars, heapVars, tableVars,
               lookupVars, addVars, walkVars, makerVars
<1>2. CASE EditNext
  <2>1. client' = client
    BY <1>2, EditSteps
  <2>2. ASSUME EngineStep PROVE EditTypeOK'
    <3>1. pc # "saving" /\ TypeOK
      BY <2>2, SavingOnlySaves DEF EditTypeOK
    <3>2. TypeOK'
      BY <2>2, <3>1, TypeStep DEF EngineStep
    <3>3. pc' # "saving" /\ disk' \in Image
      BY <3>2 DEF TypeOK
    <3> QED BY <2>1, <2>2, <3>2, <3>3 DEF EditTypeOK, EngineStep, saveVars
  <2>3. ASSUME NEW f \in DOMAIN folder, Rearrange(f) PROVE EditTypeOK'
    <3>1. pc # "saving" /\ TypeOK
      BY <2>3, SavingOnlySaves DEF EditTypeOK
    <3>2. TypeOK' /\ pc' = "idle" /\ UNCHANGED <<disk, buffer, done, ragged, torn>>
      BY <2>3, <3>1, TypeRearrange, RearrangeIs
    <3> QED BY <2>1, <3>2 DEF EditTypeOK
  <2>4. ASSUME BufferImage PROVE EditTypeOK'
    <3>1. pc # "saving" /\ TypeOK
      BY <2>4, SavingOnlySaves DEF EditTypeOK
    <3>2. buffer' \in Image
      BY <2>4, <3>1, WrittenIsImage DEF BufferImage
    <3>3. walked = <<>>
      BY <2>4, <3>1 DEF BufferImage, Pushed, TypeOK
    <3>4. Consumed'
      BY <2>4, <3>1, <3>3 DEF BufferImage, Consumed, TypeOK, addVars
    <3>5. pc' = "saving" /\ done' = 0 /\ 0 \in 0..Len(FilesInOrder)
          /\ UNCHANGED <<disk, ragged, torn>>
      BY <2>4 DEF BufferImage, FilesInOrder
    <3> QED BY <2>1, <3>2, <3>4, <3>5 DEF EditTypeOK
  <2>5. ASSUME WriteFile \/ SaveReturns \/ SaveFails PROVE EditTypeOK'
    <3>1. Consumed'
      BY <2>5, SaveSteps DEF Consumed
    <3>2. CASE pc' = "saving"
      BY <2>1, <2>5, <3>1, <3>2, SaveSteps DEF EditTypeOK
    <3>3. CASE pc' = "closed"
      <4>1. TypeOK'
        <5>1. (pc = "closed")' /\ (disk \in Image)'
          BY <2>5, <3>3, SaveSteps
        <5> QED BY <3>1, <5>1, ClosedType, PTL
      <4>2. 0 \in 0..Len(FilesInOrder)
        BY DEF FilesInOrder
      <4> QED BY <2>1, <2>5, <3>3, <4>1, <4>2, SaveSteps, NoImageType DEF EditTypeOK
    <3> QED BY <2>5, <3>2, <3>3, SaveSteps
  <2> QED
    BY <1>2, <2>2, <2>3, <2>4, <2>5, EditSteps
<1> QED
  BY <1>1, <1>2
-----------------------------------------------------------------------------
(* The engine and the image it was read from. *)

\* What follows a step of the engine that leaves folders and paths alone.
LEMMA StillTables ==
  ASSUME Still
  PROVE  UNCHANGED <<folder, path, guid, folders, paths, folderLookup, pathLookup, disk>>
BY DEF Still

\* What adds a child: a call of add_file, at a folder whose vector is known.
Adds == (MakeFolder /\ ~Panic) \/ MakeFile

LEMMA AddsPushes ==
  ASSUME TypeOK, Adds
  PROVE  /\ \E f0, c0, cells : PushesChild(f0, c0, cells)
         /\ pc = "add" /\ pc' \in {"add", "idle"}
         /\ UNCHANGED <<folders, paths, disk, walked, k, j, folderMaker, pathMaker>>
<1>1. \E f0, c0, cells : PushesChild(f0, c0, cells)
  BY MakeFolderPushes, MakeFilePushes DEF Adds
<1>2. /\ pc = "add" /\ pc' \in {"add", "idle"}
      /\ UNCHANGED <<folders, paths, disk, walked, k, j, folderMaker, pathMaker>>
  BY DEF Adds, MakeFolder, MakeFile, Descending, Landing, tableVars, walkVars, makerVars
<1> QED
  BY <1>1, <1>2

LEMMA PushesSettled ==
  ASSUME TypeOK, NEW f0, NEW c0, NEW cells, PushesChild(f0, c0, cells)
  PROVE  /\ Settled => Settled'
         /\ NoneUnresolved => NoneUnresolved'
<1>1. Settled => Settled'
  BY DEF PushesChild, Settled, IsSet, Set
<1>2. NoneUnresolved => NoneUnresolved'
  BY Kinds DEF PushesChild, NoneUnresolved
<1> QED
  BY <1>1, <1>2

\* Both loops of the writer and those of add_file begin with vectors.
LEMMA SettledStep ==
  ASSUME TypeOK, SoundClients, SessionOK, EngineStep
  PROVE  pc' \in {"add", "push"} => Settled'
<1> USE DEF heapVars, tableVars, lookupVars
<1>1. pc \in {"add", "push"} => Settled
  BY DEF SessionOK
<1>2. CASE Still
  <2>1. Settled <=> Settled'
    BY <1>2, StillTables DEF Settled
  <2>2. pc' \in {"add", "push"} => pc \in {"add", "push"} \/ Settled
    BY <1>2
    DEF Still, Panic, WalkSkip, WalkStart, WalkHop, ResolveReturns, Walking, Descend,
        Descending, PushFolder, PushPath, PushNext, Pushing, AddFile, FromEngine,
        Careful, SoundClients
  <2> QED BY <1>1, <2>1, <2>2
<1>3. CASE Adds
  BY <1>1, <1>3, AddsPushes, PushesSettled
<1>4. CASE Read \/ ResolvePaths \/ WalkStop \/ Reorganize
           \/ \E p \in DOMAIN folderLookup : ListFolder(folderLookup[p])
  <2>1. pc' \notin {"add", "push"}
    BY <1>4 DEF Read, ResolvePaths, WalkStop, Walking, Reorganize, ListFolder
  <2> QED BY <2>1
<1> QED
  BY <1>2, <1>3, <1>4, EngineSteps DEF Adds

\* What reading makes of the image's tables.
LEMMA AsOnDiskRead ==
  ASSUME TypeOK, Read
  PROVE  AsOnDisk' /\ \A f \in DOMAIN folder' : ~IsSet(folder'[f].children)
<1>0. PICK nf, np, dF, dP : nf = Len(disk.folders) /\ np = Len(disk.paths)
                            /\ dF = disk.folders /\ dP = disk.paths
  OBVIOUS
<1>1. /\ nf \in Nat /\ np \in Nat /\ Len(folders') = nf /\ Len(paths') = np
      /\ \A i \in 1..nf : /\ folders'[i] \in DOMAIN folder'
                          /\ folder'[folders'[i]] = ParseFolder(dF[i])
      /\ \A f \in DOMAIN folder' : \E i \in 1..nf : f = folders'[i]
      /\ \A i \in 1..np : /\ paths'[i] \in DOMAIN path'
                          /\ path'[paths'[i]] = ParsePath(dP[i])
      /\ \A c \in DOMAIN path' : \E i \in 1..np : c = paths'[i]
      /\ \A i, h \in 1..np : paths'[i] = paths'[h] => i = h
  BY <1>0, ReadCells
<1>2. disk' = disk
  BY DEF Read
<1>3. Cells(folders') = DOMAIN folder' /\ Cells(paths') = DOMAIN path'
  <2>1. Cells(folders') = DOMAIN folder'
    <3>1. \A i \in 1..nf : folders'[i] \in DOMAIN folder'
      BY <1>1
    <3>2. \A f \in DOMAIN folder' : \E i \in 1..nf : f = folders'[i]
      BY <1>1
    <3>3. Cells(folders') = {folders'[i] : i \in 1..nf}
      BY <1>1 DEF Cells
    <3> QED BY <3>1, <3>2, <3>3
  <2>2. Cells(paths') = DOMAIN path'
    <3>1. \A i \in 1..np : paths'[i] \in DOMAIN path'
      BY <1>1
    <3>2. \A c \in DOMAIN path' : \E i \in 1..np : c = paths'[i]
      BY <1>1
    <3>3. Cells(paths') = {paths'[i] : i \in 1..np}
      BY <1>1 DEF Cells
    <3> QED BY <3>1, <3>2, <3>3
  <2> QED BY <2>1, <2>2
<1>4. ASSUME NEW i \in 1..nf
      PROVE  folder'[folders'[i]].children = Start(dF[i].first)
  <2>1. ParseFolder(dF[i]).children = Start(dF[i].first)
    BY DEF ParseFolder
  <2> QED BY <1>1, <2>1
<1>5. ASSUME NEW i \in 1..np
      PROVE  /\ path'[paths'[i]].fullPath = dP[i].fullPath
             /\ RefersTo(path[paths[i]].next, dP[i].next)'
  <2>1. path'[paths'[i]] = ParsePath(dP[i])
    BY <1>1
  <2>2. /\ ParsePath(dP[i]).fullPath = dP[i].fullPath
        /\ ParsePath(dP[i]).next = IF dP[i].next = INVALID_INDEX
                                     THEN None ELSE Unresolved(dP[i].next)
    BY DEF ParsePath
  <2> QED BY <2>1, <2>2 DEF RefersTo
<1>6. ASSUME NEW f \in DOMAIN folder' PROVE ~IsSet(folder'[f].children)
  <2>1. PICK i \in 1..nf : f = folders'[i]
    BY <1>1
  <2>2. folder'[f].children = Start(dF[i].first)
    BY <1>4, <2>1
  <2> QED BY <2>2 DEF IsSet, Start
<1>7. AsOnDisk'
  <2>1. /\ Len(folders') = Len(disk'.folders) /\ Len(paths') = Len(disk'.paths)
        /\ \A m, n \in 1..Len(paths') : paths'[m] = paths'[n] => m = n
    BY <1>0, <1>1, <1>2
  <2>2. /\ \A i \in 1..Len(folders') :
             folder'[folders'[i]].children = Start(disk'.folders[i].first)
        /\ \A i \in 1..Len(paths') : path'[paths'[i]].fullPath = disk'.paths[i].fullPath
    BY <1>0, <1>1, <1>2, <1>4, <1>5
  <2>3. \A i \in 1..Len(paths') : RefersTo(path[paths[i]].next, disk.paths[i].next)'
    BY <1>0, <1>1, <1>2, <1>5 DEF RefersTo
  <2> QED BY <1>3, <2>1, <2>2, <2>3 DEF AsOnDisk
<1> QED
  BY <1>6, <1>7

\* resolve's first loop finds for each entry the cell of that entry.
LEMMA AsOnDiskResolvePaths ==
  ASSUME TypeOK, ResolvePaths, AsOnDisk
  PROVE  AsOnDisk' /\ NoneUnresolved'
<1>1. /\ path' = [c \in DOMAIN path |->
                    IF c \in Cells(paths) THEN ResolvePath(path[c]) ELSE path[c]]
      /\ UNCHANGED <<folder, folders, paths, disk>>
      /\ \A c \in Cells(paths) : Resolvable(path[c])
  BY DEF ResolvePaths, tableVars
<1>2. Cells(paths) = DOMAIN path
  BY DEF AsOnDisk
<1>3. ASSUME NEW c \in DOMAIN path
      PROVE  /\ path'[c].fullPath = path[c].fullPath
             /\ path'[c].next = Resolve(path[c].next, paths)
             /\ IsUnresolved(path[c].next) => InBounds(paths, path[c].next.index)
  <2>1. path[c] \in SearchPath(DOMAIN folder, DOMAIN path)
    BY TableCells
  <2>2. /\ ResolvePath(path[c]).fullPath = path[c].fullPath
        /\ ResolvePath(path[c]).next = Resolve(path[c].next, paths)
    BY <2>1 DEF ResolvePath, SearchPath
  <2> QED BY <1>1, <1>2, <2>2 DEF Resolvable
<1>4. ASSUME NEW i \in 1..Len(paths)
      PROVE  /\ path'[paths[i]].fullPath = disk.paths[i].fullPath
             /\ RefersTo(path'[paths[i]].next, disk.paths[i].next)
  <2>0. PICK ref, n : ref = path[paths[i]].next /\ n = disk.paths[i].next
    OBVIOUS
  <2>1. paths[i] \in DOMAIN path /\ RefersTo(ref, n)
        /\ path[paths[i]].fullPath = disk.paths[i].fullPath
    BY <2>0, TableCells DEF AsOnDisk
  <2>2. path'[paths[i]].next = Resolve(ref, paths)
        /\ (IsUnresolved(ref) => InBounds(paths, ref.index))
    BY <1>3, <2>0, <2>1
  <2>3. RefersTo(Resolve(ref, paths), n)
    <3>1. /\ ~IsUnresolved(None) /\ IsUnresolved(Unresolved(n)) /\ Unresolved(n).index = n
          /\ \A d : ~IsUnresolved(Resolved(d))
      BY Kinds DEF Unresolved, IsUnresolved
    <3> QED BY <2>1, <2>2, <3>1 DEF RefersTo, Resolve
  <2> QED BY <1>3, <2>0, <2>1, <2>2, <2>3
<1>5. NoneUnresolved'
  <2>1. ASSUME NEW c \in DOMAIN path PROVE ~IsUnresolved(path'[c].next)
    <3>1. path'[c].next = Resolve(path[c].next, paths)
      BY <1>3
    <3> QED BY <3>1, Kinds DEF Resolve
  <2>2. DOMAIN path' = DOMAIN path
    BY <1>1
  <2> QED BY <2>1, <2>2 DEF NoneUnresolved
<1>6. \A i \in 1..Len(paths) : RefersTo(path[paths[i]].next, disk.paths[i].next)'
  BY <1>1, <1>4 DEF RefersTo
<1>7. DOMAIN path' = DOMAIN path
  BY <1>1
<1> QED
  BY <1>1, <1>4, <1>5, <1>6, <1>7 DEF AsOnDisk

\* A list walked to its end leaves the other folders as they were.
LEMMA WalkStopIs ==
  ASSUME TypeOK, WalkStop
  PROVE  /\ pc = "walk" /\ pc' = "walk" /\ walked # <<>> /\ walked' = <<>>
         /\ walked \in Seq(DOMAIN path) /\ Len(walked) \in Nat /\ Len(walked) >= 1
         /\ k \in 1..Len(folders) /\ folders[k] \in DOMAIN folder
         /\ path[LastOf(walked)].next = None
         /\ DOMAIN folder' = DOMAIN folder
         /\ folder'[folders[k]].children = Set(walked)
         /\ \A f \in DOMAIN folder : folder'[f].fullPath = folder[f].fullPath
         /\ \A f \in DOMAIN folder : f # folders[k] => folder'[f] = folder[f]
         /\ UNCHANGED <<path, folders, paths, folderLookup, pathLookup, disk>>
<1>1. /\ pc = "walk" /\ pc' = "walk" /\ walked # <<>> /\ walked' = <<>>
      /\ walked \in Seq(DOMAIN path) /\ k <= Len(folders) /\ k >= 1 /\ k \in Nat
      /\ IsNone(path[LastOf(walked)].next)
      /\ folder' = [folder EXCEPT ![folders[k]].children = Set(walked)]
      /\ UNCHANGED <<path, folders, paths, folderLookup, pathLookup, disk>>
  BY DEF WalkStop, Walking, TypeOK, tableVars, lookupVars
<1>2. Len(walked) \in 1..Len(walked) /\ LastOf(walked) \in DOMAIN path /\ Len(walked) \in Nat
  BY <1>1, CellsOfSeq, TableCells DEF LastOf
<1>3. k \in 1..Len(folders) /\ folders[k] \in DOMAIN folder
  BY <1>1, TableCells
<1>4. path[LastOf(walked)].next = None
  BY <1>1, <1>2, NextType
<1>5. /\ DOMAIN folder' = DOMAIN folder
      /\ folder'[folders[k]].children = Set(walked)
      /\ \A f \in DOMAIN folder : folder'[f].fullPath = folder[f].fullPath
      /\ \A f \in DOMAIN folder : f # folders[k] => folder'[f] = folder[f]
  <2>1. folder[folders[k]] \in SearchFolder(DOMAIN path)
    BY <1>3, TableCells
  <2> QED BY <1>1, <1>3, <2>1 DEF SearchFolder
<1> QED
  BY <1>1, <1>2, <1>3, <1>4, <1>5

LEMMA AsOnDiskStep ==
  ASSUME TypeOK, SoundClients, SessionOK, EngineStep
  PROVE  pc' \in {"idle", "walk"} /\ ~Settled' => AsOnDisk'
<1> USE DEF heapVars, tableVars, lookupVars
<1> SUFFICES ASSUME pc' \in {"idle", "walk"}, ~Settled' PROVE AsOnDisk'
  OBVIOUS
<1>0. /\ pc \in {"idle", "walk"} /\ ~Settled => AsOnDisk
      /\ pc \in {"add", "push"} => Settled
  BY DEF SessionOK
<1>1. CASE Still
  <2>1. (Settled <=> Settled') /\ (AsOnDisk => AsOnDisk')
    BY <1>1, StillTables DEF Settled, AsOnDisk, RefersTo, Cells
  <2>2. pc \in {"idle", "walk", "add", "push"}
    BY <1>1
    DEF Still, Panic, WalkSkip, WalkStart, WalkHop, ResolveReturns, Walking, Descend,
        Descending, PushFolder, PushPath, PushNext, Pushing, AddFile, FromEngine
  <2> QED BY <1>0, <2>1, <2>2
<1>2. CASE Adds
  BY <1>0, <1>2, AddsPushes, PushesSettled
<1>3. CASE Read
  BY <1>3, AsOnDiskRead
<1>4. CASE ResolvePaths
  <2>1. pc = "idle" /\ ~Settled
    BY <1>4 DEF ResolvePaths, Settled
  <2> QED BY <1>0, <1>4, <2>1, AsOnDiskResolvePaths
<1>5. CASE WalkStop
  <2>1. /\ pc = "walk" /\ DOMAIN folder' = DOMAIN folder
        /\ folder'[folders[k]].children = Set(walked)
        /\ \A f \in DOMAIN folder : f # folders[k] => folder'[f] = folder[f]
        /\ UNCHANGED <<path, folders, paths, disk>>
    BY <1>5, WalkStopIs
  <2>2. ~Settled /\ AsOnDisk
    BY <1>0, <2>1 DEF Settled, IsSet, Set
  <2>3. ASSUME NEW i \in 1..Len(folders), ~IsSet(folder'[folders[i]].children)
        PROVE  folder'[folders[i]].children = Start(disk.folders[i].first)
    <3>1. folders[i] \in DOMAIN folder
      BY TableCells
    <3> QED BY <2>1, <2>2, <2>3, <3>1 DEF AsOnDisk, IsSet, Set
  <2>4. \A i \in 1..Len(paths) : RefersTo(path[paths[i]].next, disk.paths[i].next)'
    BY <2>1, <2>2 DEF AsOnDisk, RefersTo
  <2> QED BY <2>1, <2>2, <2>3, <2>4 DEF AsOnDisk
<1>6. CASE Reorganize
  BY <1>0, <1>6 DEF Reorganize, Pushed, Settled
<1>7. CASE \E p \in DOMAIN folderLookup : ListFolder(folderLookup[p])
  <2>1. PICK f \in DOMAIN folder : ListFolder(f)
    BY <1>7 DEF TypeOK, IsMap
  <2>2. pc = "idle" /\ ~Settled /\ f \notin Cells(folders)
    BY <2>1 DEF ListFolder, Settled
  <2> QED BY <1>0, <2>2 DEF AsOnDisk
<1> QED
  BY <1>1, <1>2, <1>3, <1>4, <1>5, <1>6, <1>7, EngineSteps DEF Adds

LEMMA WalkFollowsStep ==
  ASSUME TypeOK, SoundClients, SessionOK, EngineStep
  PROVE  WalkFollowsDisk'
<1> USE DEF heapVars, tableVars, lookupVars
<1> SUFFICES ASSUME pc' = "walk", walked' # <<>> PROVE WalkFollowsDisk'
  BY DEF WalkFollowsDisk
<1>1. WalkFollowsDisk
  BY DEF SessionOK
<1>2. CASE WalkSkip
  BY <1>2 DEF WalkSkip
<1>3. CASE WalkStart /\ ~Panic
  <2>1. /\ pc = "walk" /\ k \in 1..Len(folders) /\ folders[k] \in DOMAIN folder
        /\ ~IsSet(folder[folders[k]].children)
        /\ InBounds(paths, folder[folders[k]].children.index)
        /\ walked' = <<CellAt(paths, folder[folders[k]].children.index)>>
        /\ UNCHANGED <<folder, path, folders, paths, k, disk>>
    BY <1>3, TableCells DEF WalkStart, Walking, TypeOK
  <2>2. AsOnDisk
    BY <2>1 DEF SessionOK, Settled
  <2>3. folder[folders[k]].children.index = disk.folders[k].first
    <3>1. folder[folders[k]].children = Start(disk.folders[k].first)
      BY <2>1, <2>2 DEF AsOnDisk
    <3>2. \A n : Start(n).index = n
      BY DEF Start
    <3> QED BY <3>1, <3>2
  <2>4. Len(walked') = 1 /\ walked'[1] = CellAt(paths, disk.folders[k].first)
    BY <2>1, <2>3
  <2> QED BY <2>1, <2>3, <2>4 DEF WalkFollowsDisk
<1>4. CASE WalkHop /\ ~Panic
  <2>0. PICK next : next = path[LastOf(walked)].next
    OBVIOUS
  <2>1. /\ pc = "walk" /\ walked # <<>> /\ walked \in Seq(DOMAIN path)
        /\ IsCell(next) /\ walked' = Append(walked, next.cell)
        /\ UNCHANGED <<folder, path, folders, paths, k, disk>>
    BY <1>4, <2>0 DEF WalkHop, Walking, TypeOK
  <2>2. /\ Len(walked) \in Nat /\ Len(walked) \in 1..Len(walked)
        /\ LastOf(walked) \in DOMAIN path
    BY <2>1, CellsOfSeq, TableCells DEF LastOf
  <2>3. next = Resolved(next.cell) /\ next.cell \in DOMAIN path
    BY <2>0, <2>1, <2>2, NextType
  <2>4. /\ Len(walked') = Len(walked) + 1
        /\ walked'[Len(walked) + 1] = next.cell
        /\ \A i \in 1..Len(walked) : walked'[i] = walked[i]
    BY <2>1, <2>3, AppendElement
  <2>5. ASSUME NEW i \in 1..(Len(walked') - 1)
        PROVE  path[walked'[i]].next = Resolved(walked'[i + 1])
    <3>1. CASE i < Len(walked)
      <4>1. i \in 1..(Len(walked) - 1) /\ i \in 1..Len(walked) /\ i + 1 \in 1..Len(walked)
        BY <2>2, <2>4, <3>1
      <4>2. path[walked[i]].next = Resolved(walked[i + 1])
        BY <1>1, <2>1, <4>1 DEF WalkFollowsDisk
      <4> QED BY <2>4, <4>1, <4>2
    <3>2. CASE i = Len(walked)
      BY <2>0, <2>2, <2>3, <2>4, <3>2 DEF LastOf
    <3> QED BY <2>2, <2>4, <3>1, <3>2
  <2>6. walked'[1] = walked[1]
    BY <2>2, <2>4
  <2> QED BY <1>1, <2>1, <2>5, <2>6 DEF WalkFollowsDisk
<1>5. CASE Panic
  BY <1>5 DEF Panic
<1>6. CASE ResolvePaths \/ WalkStop
  BY <1>6 DEF ResolvePaths, WalkStop, TypeOK
<1>7. CASE Adds
  BY <1>7, AddsPushes
<1>8. CASE Still /\ ~Panic /\ ~WalkSkip /\ ~WalkStart /\ ~WalkHop
  BY <1>8
  DEF Still, ResolveReturns, Descend, Descending, PushFolder, PushPath, PushNext,
      Pushing, AddFile, FromEngine
<1>9. CASE Read \/ Reorganize \/ \E p \in DOMAIN folderLookup : ListFolder(folderLookup[p])
  BY <1>9 DEF Read, Reorganize, ListFolder
<1> QED
  BY <1>2, <1>3, <1>4, <1>5, <1>6, <1>7, <1>8, <1>9, EngineSteps DEF Adds

\* Once an engine has a vector no reference of a path is an index.
LEMMA ResolvedOnceStep ==
  ASSUME TypeOK, SoundClients, SessionOK, EngineStep
  PROVE  DOMAIN folder' # {}
           /\ (pc' = "walk" \/ \E f \in DOMAIN folder' : IsSet(folder'[f].children))
           => NoneUnresolved'
<1> USE DEF heapVars, tableVars, lookupVars
<1> SUFFICES ASSUME DOMAIN folder' # {},
                    pc' = "walk" \/ \E f \in DOMAIN folder' : IsSet(folder'[f].children)
             PROVE  NoneUnresolved'
  OBVIOUS
<1>1. DOMAIN folder # {}
        /\ (pc = "walk" \/ \E f \in DOMAIN folder : IsSet(folder[f].children))
        => NoneUnresolved
  BY DEF SessionOK
<1>2. CASE Still
  <2>1. pc' = "walk" => pc = "walk"
    BY <1>2
    DEF Still, Panic, WalkSkip, WalkStart, WalkHop, ResolveReturns, Walking, Descend,
        Descending, PushFolder, PushPath, PushNext, Pushing, AddFile, FromEngine
  <2> QED BY <1>1, <1>2, <2>1, StillTables DEF NoneUnresolved
<1>3. CASE Adds
  <2>1. \E f \in DOMAIN folder : IsSet(folder[f].children)
    BY <1>3, AddsPushes DEF PushesChild
  <2> QED BY <1>1, <1>3, <2>1, AddsPushes, PushesSettled
<1>4. CASE Read
  BY <1>4, AsOnDiskRead DEF Read
<1>5. CASE ResolvePaths
  <2>1. CASE Settled
    <3>1. NoneUnresolved /\ folder' = folder
      BY <1>1, <1>5, <2>1 DEF ResolvePaths, Settled
    <3>2. ASSUME NEW c \in DOMAIN path PROVE ~IsUnresolved(path'[c].next)
      <4>1. path[c] \in SearchPath(DOMAIN folder, DOMAIN path) /\ ~IsUnresolved(path[c].next)
        BY <3>1, TableCells DEF NoneUnresolved
      <4>2. ResolvePath(path[c]).next = path[c].next
        BY <4>1 DEF ResolvePath, SearchPath, Resolve
      <4> QED BY <1>5, <4>1, <4>2 DEF ResolvePaths
    <3>3. DOMAIN path' = DOMAIN path
      BY <1>5 DEF ResolvePaths
    <3> QED BY <3>2, <3>3 DEF NoneUnresolved
  <2>2. CASE ~Settled
    <3>1. AsOnDisk
      BY <1>5, <2>2 DEF ResolvePaths, SessionOK
    <3> QED BY <1>5, <3>1, AsOnDiskResolvePaths
  <2> QED BY <2>1, <2>2
<1>6. CASE WalkStop
  BY <1>1, <1>6, WalkStopIs DEF NoneUnresolved
<1>7. CASE Reorganize \/ \E p \in DOMAIN folderLookup : ListFolder(folderLookup[p])
  BY <1>1, <1>7 DEF Reorganize, ListFolder, NoneUnresolved
<1> QED
  BY <1>2, <1>3, <1>4, <1>5, <1>6, <1>7, EngineSteps DEF Adds

LEMMA RearrangesFolders ==
  ASSUME TypeOK, NEW f \in DOMAIN folder, NEW cells, Rearranges(f, cells)
  PROVE  /\ DOMAIN folder' = DOMAIN folder /\ DOMAIN path' = DOMAIN path
         /\ folder'[f].children = Set(cells)
         /\ \A g \in DOMAIN folder : folder'[g].fullPath = folder[g].fullPath
         /\ \A g \in DOMAIN folder : g # f => folder'[g] = folder[g]
         /\ \A c \in DOMAIN path :
              /\ path'[c].fullPath = path[c].fullPath
              /\ path'[c].folder = path[c].folder
         /\ IF client.edits = "linked" /\ ~(client.edits = "any")
              THEN /\ \A i \in 1..(Len(cells) - 1) :
                        path'[cells[i]].next = Resolved(cells[i + 1])
                   /\ \A c \in DOMAIN path :
                        (\A i \in 1..(Len(cells) - 1) : cells[i] # c)
                          => path'[c].next = path[c].next
              ELSE path' = path
<1>1. /\ folder' = [folder EXCEPT ![f].children = Set(cells)]
      /\ cells \in Seq(DOMAIN path)
  BY DEF Rearranges
<1>2. /\ DOMAIN folder' = DOMAIN folder /\ folder'[f].children = Set(cells)
      /\ \A g \in DOMAIN folder : folder'[g].fullPath = folder[g].fullPath
      /\ \A g \in DOMAIN folder : g # f => folder'[g] = folder[g]
  <2>1. folder[f] \in SearchFolder(DOMAIN path)
    BY TableCells
  <2> QED BY <1>1, <2>1 DEF SearchFolder
<1>3. CASE path' = path /\ client.edits = "any"
  BY <1>2, <1>3
<1>4. CASE /\ client.edits = "linked" /\ path' = LinkedAlong(path, cells)
           /\ \A a, b \in 1..Len(cells) : cells[a] = cells[b] => a = b
  <2>1. Len(cells) \in Nat /\ \A i \in 1..Len(cells) : cells[i] \in DOMAIN path
    BY <1>1, LenProperties, ElementOfSeq
  <2>2. /\ DOMAIN path' = DOMAIN path
        /\ \A i \in 1..(Len(cells) - 1) :
             path'[cells[i]] = [path[cells[i]] EXCEPT !.next = Resolved(cells[i + 1])]
        /\ \A c \in DOMAIN path :
             (\A i \in 1..(Len(cells) - 1) : cells[i] # c) => path'[c] = path[c]
    BY <1>1, <1>4, <2>1, LinkedAlongIs
  <2>3. \A c \in DOMAIN path : path[c] \in SearchPath(DOMAIN folder, DOMAIN path)
    BY TableCells
  <2>4. ASSUME NEW i \in 1..(Len(cells) - 1)
        PROVE  /\ path'[cells[i]].next = Resolved(cells[i + 1])
               /\ path'[cells[i]].fullPath = path[cells[i]].fullPath
               /\ path'[cells[i]].folder = path[cells[i]].folder
    <3>1. i \in 1..Len(cells)
      BY <2>1
    <3>2. path[cells[i]] \in SearchPath(DOMAIN folder, DOMAIN path)
      BY <2>1, <2>3, <3>1
    <3> QED BY <2>2, <3>2 DEF SearchPath
  <2>5. \A c \in DOMAIN path : /\ path'[c].fullPath = path[c].fullPath
                               /\ path'[c].folder = path[c].folder
    BY <2>2, <2>4
  <2> QED BY <1>2, <1>4, <2>2, <2>4, <2>5
<1> QED
  BY <1>3, <1>4 DEF Rearranges
LEMMA SessionRearrange ==
  ASSUME TypeOK, client.edits = "linked" => NoChildTwice, SessionOK,
         NEW f \in DOMAIN folder, Rearrange(f)
  PROVE  SessionOK'
<1>1. pc = "idle" /\ pc' = "idle" /\ Settled
  BY RearrangeIs
<1>2. PICK cells : Rearranges(f, cells)
  BY RearrangeIs
<1>3. /\ DOMAIN folder' = DOMAIN folder /\ folder'[f].children = Set(cells)
      /\ \A g \in DOMAIN folder : g # f => folder'[g] = folder[g]
  BY <1>2, RearrangesFolders
<1>4. Settled'
  BY <1>1, <1>3 DEF Settled, IsSet, Set
<1>5. NoneUnresolved
  BY <1>1 DEF Settled, SessionOK
<1>6. NoneUnresolved'
  <2>1. ASSUME NEW c \in DOMAIN path PROVE ~IsUnresolved(path'[c].next)
    <3>1. \/ path'[c].next = path[c].next
          \/ \E d : path'[c].next = Resolved(d)
      BY <1>2, RearrangesFolders
    <3> QED BY <1>5, <3>1, Kinds DEF NoneUnresolved
  <2>2. DOMAIN path' = DOMAIN path
    BY <1>2, RearrangesFolders
  <2> QED BY <2>1, <2>2 DEF NoneUnresolved
<1> QED
  BY <1>1, <1>4, <1>6 DEF SessionOK, WalkFollowsDisk

LEMMA SessionEngine ==
  ASSUME TypeOK, SoundClients, SessionOK, EngineStep
  PROVE  SessionOK'
BY SettledStep, AsOnDiskStep, WalkFollowsStep, ResolvedOnceStep DEF SessionOK

\* In what goes on alike from equal places, and ends at a place there is only
\* once, no two places are equal: they would be as far from the end.
LEMMA ChainOnce ==
  ASSUME NEW m \in Nat, NEW v,
         \A h \in 1..(m - 1) : v[h] # v[m],
         \A h, l \in 1..(m - 1) : v[h] = v[l] => v[h + 1] = v[l + 1]
  PROVE  \A a, b \in 1..m : v[a] = v[b] => a = b
<1>1. ASSUME NEW h \in 1..m, NEW l \in 1..m, v[h] = v[l], h < l PROVE FALSE
  <2>1. PICK U : U = {x \in Nat : x <= m - l /\ v[h + x] # v[l + x]}
    OBVIOUS
  <2>2. U = {}
    <3> SUFFICES ASSUME U # {} PROVE FALSE
      OBVIOUS
    <3>1. PICK x \in U : \A y \in U : ~(y < x)
      BY <2>1, FirstOf
    <3>2. x # 0
      BY <1>1, <2>1, <3>1
    <3>3. /\ x - 1 \in Nat /\ x - 1 < x /\ x - 1 <= m - l
          /\ h + (x - 1) \in 1..(m - 1) /\ l + (x - 1) \in 1..(m - 1)
          /\ h + (x - 1) + 1 = h + x /\ l + (x - 1) + 1 = l + x
      BY <1>1, <2>1, <3>1, <3>2
    <3>4. v[h + (x - 1)] = v[l + (x - 1)]
      BY <2>1, <3>1, <3>3
    <3>5. v[h + (x - 1) + 1] = v[l + (x - 1) + 1]
      BY <3>3, <3>4
    <3> QED BY <2>1, <3>1, <3>3, <3>5
  <2>3. PICK x, y : x = m - l /\ y = h + x
    OBVIOUS
  <2>4. x \in Nat /\ x <= m - l /\ y \in 1..(m - 1) /\ l + x = m
    BY <1>1, <2>3
  <2>5. v[h + x] = v[l + x]
    BY <2>1, <2>2, <2>4
  <2> QED BY <2>3, <2>4, <2>5
<1> QED
  BY <1>1

\* What resolve has followed to the end of a list has no cell twice.
LEMMA WalkedOnce ==
  ASSUME NEW m \in Nat, path[walked[m]].next = None,
         \A h \in 1..(m - 1) : path[walked[h]].next = Resolved(walked[h + 1])
  PROVE  \A a, b \in 1..m : walked[a] = walked[b] => a = b
<1>2. \A h \in 1..(m - 1) : walked[h] # walked[m]
  BY Kinds
<1>3. \A h, l \in 1..(m - 1) : walked[h] = walked[l] => walked[h + 1] = walked[l + 1]
  BY Kinds
<1> QED
  BY <1>2, <1>3, ChainOnce

\* ResolvedAsStored at the one step that makes a vector of a list.
LEMMA WalkStopAsStored ==
  ASSUME TypeOK, SessionOK, FoldersOnce, Plain(disk), WalkStop,
         NEW i \in 1..Len(folders), ~IsSet(folder[folders[i]].children),
         IsSet(folder'[folders[i]].children)
  PROVE  ChildPaths(folders[i])' = ListFrom(disk, disk.folders[i].first)
<1> DEFINE n == Len(disk.paths)
           m == Len(walked)
           first == disk.folders[k].first
<1>1. /\ pc = "walk" /\ walked # <<>> /\ walked \in Seq(DOMAIN path)
      /\ m \in Nat /\ m >= 1
      /\ k \in 1..Len(folders) /\ folders[k] \in DOMAIN folder
      /\ path[LastOf(walked)].next = None
      /\ folder'[folders[k]].children = Set(walked)
      /\ \A f \in DOMAIN folder : f # folders[k] => folder'[f] = folder[f]
      /\ UNCHANGED <<path, folders, paths, disk>>
  BY WalkStopIs
<1>2. folders[i] \in DOMAIN folder /\ i = k
  BY <1>1, TableCells DEF FoldersOnce
<1>3. AsOnDisk /\ WalkFollowsDisk
  BY <1>1, <1>2 DEF SessionOK, Settled
<1>4. /\ n \in Nat /\ n <= INVALID_INDEX /\ Len(paths) = n
      /\ \A e \in 1..n : disk.paths[e].next \in Nat
      /\ first \in Nat
  <2>1. disk.paths \in Seq(PathEntry) /\ disk.folders \in Seq(FolderEntry)
    BY DEF TypeOK, Image
  <2>2. Len(folders) = Len(disk.folders) /\ Len(paths) = n
    BY <1>3 DEF AsOnDisk
  <2>3. \A e \in 1..n : disk.paths[e] \in PathEntry
    BY <2>1, ElementOfSeq
  <2>4. disk.folders[k] \in FolderEntry
    BY <1>1, <2>1, <2>2, ElementOfSeq
  <2> QED BY <2>1, <2>2, <2>3, <2>4, LenProperties DEF FolderEntry, PathEntry, Plain
<1>5. /\ \A c \in DOMAIN path : \E e \in 1..n : c = paths[e]
      /\ \A a, b \in 1..n : paths[a] = paths[b] => a = b
      /\ \A e \in 1..n : /\ path[paths[e]].fullPath = disk.paths[e].fullPath
                         /\ RefersTo(path[paths[e]].next, disk.paths[e].next)
  BY <1>3, <1>4 DEF AsOnDisk, Cells
<1>6. /\ first < n /\ walked[1] = paths[first + 1]
      /\ \A h \in 1..(m - 1) : path[walked[h]].next = Resolved(walked[h + 1])
  BY <1>1, <1>3, <1>4 DEF WalkFollowsDisk, InBounds, CellAt
<1> HIDE DEF n, m, first
<1>7. \A h \in 1..m : walked[h] \in DOMAIN path
  BY <1>1, TableCells DEF m
<1>8. PICK s : s = [h \in 1..m |-> CHOOSE e \in 1..n : walked[h] = paths[e]]
  OBVIOUS
<1>9. \A h \in 1..m : s[h] \in 1..n /\ paths[s[h]] = walked[h]
  BY <1>5, <1>7, <1>8
<1>10. Len(s) = m
  BY <1>1, <1>8
<1>11. s[1] = first + 1
  BY <1>1, <1>4, <1>5, <1>6, <1>9
<1>12. ASSUME NEW h \in 1..m
       PROVE  path[walked[h]].next = IF h < m THEN Resolved(walked[h + 1]) ELSE None
  <2>1. CASE h < m
    BY <1>1, <1>6, <2>1
  <2>2. CASE h = m
    BY <1>1, <2>2 DEF LastOf, m
  <2> QED BY <1>1, <2>1, <2>2
<1>13. ASSUME NEW h \in 1..m
       PROVE  disk.paths[s[h]].next = IF h < m THEN s[h + 1] - 1 ELSE INVALID_INDEX
  <2>0. PICK ref, d : ref = path[walked[h]].next /\ d = disk.paths[s[h]].next
    OBVIOUS
  <2>1. RefersTo(ref, d) /\ d \in Nat
    BY <1>4, <1>5, <1>9, <2>0
  <2>2. CASE h < m
    <3>1. h + 1 \in 1..m /\ ref = Resolved(walked[h + 1])
      BY <1>1, <1>12, <2>0, <2>2
    <3>2. InBounds(paths, d) /\ ref = Resolved(CellAt(paths, d))
      BY <2>1, <3>1, Kinds DEF RefersTo, Resolved, Unresolved, IsUnresolved
    <3>3. d + 1 \in 1..n /\ paths[d + 1] = walked[h + 1]
      <4>1. CellAt(paths, d) = walked[h + 1]
        BY <3>1, <3>2, Kinds
      <4>2. d < Len(paths) /\ d \in Nat
        BY <2>1, <3>2 DEF InBounds
      <4> QED BY <1>4, <4>1, <4>2 DEF CellAt
    <3>4. d + 1 = s[h + 1]
      BY <1>5, <1>9, <3>1, <3>3
    <3> QED BY <2>0, <2>1, <2>2, <3>4
  <2>3. CASE ~(h < m)
    <3>1. ref = None
      BY <1>12, <2>0, <2>3
    <3>2. d = INVALID_INDEX
      BY <2>1, <3>1, Kinds DEF RefersTo, None, Unresolved, IsUnresolved
    <3> QED BY <2>0, <2>3, <3>2
  <2> QED BY <2>2, <2>3
<1>14. ASSUME NEW a \in 1..m, NEW b \in 1..m, s[a] = s[b] PROVE a = b
  <2>1. walked[a] = walked[b]
    BY <1>9, <1>14
  <2> QED BY <1>1, <1>6, <2>1, WalkedOnce DEF m, LastOf
<1>15. IsListIn(disk, n, first, m, s, paths, walked)
  <2>1. IsListAt(s, m, first, n, disk.paths, paths, walked)
    BY <1>9, <1>10, <1>11, <1>13, <1>14 DEF IsListAt
  <2> QED BY <1>1, <1>4, <2>1 DEF IsListIn, n
<1>16. ListFrom(disk, first) = NamesOf(path, walked, m)
  BY <1>5, <1>15, ListOfCells
<1>17. ChildPaths(folders[i])' = NamesOf(path, walked, m)
  <2>1. folder'[folders[i]].children.cells = walked
    BY <1>1, <1>2 DEF Set
  <2>2. \A cells : cells = walked =>
          [h \in 1..Len(cells) |-> path'[cells[h]].fullPath] = NamesOf(path, walked, m)
    BY <1>1 DEF NamesOf, m
  <2> QED BY <1>1, <2>1, <2>2 DEF ChildPaths
<1> QED
  BY <1>2, <1>16, <1>17 DEF first

-----------------------------------------------------------------------------
(* An engine that is gone. *)

LEMMA ConsumedParts ==
  ASSUME Consumed, pc \in {"saving", "closed"}
  PROVE  FoldersOnce /\ MakersOK /\ SessionOK /\ PassedOK /\ PathsFound /\ CellsEnd /\ LayoutOK
<1>1. DOMAIN folder = {} /\ DOMAIN path = {} /\ DOMAIN pathLookup = {} /\ Len(folders) = 0
  BY EmptySeq DEF Consumed, EmptyMap
<1>2. MakersOK
  BY NewMakers DEF Consumed
<1>3. FoldersOnce /\ PassedOK /\ PathsFound /\ CellsEnd
  BY <1>1 DEF FoldersOnce, PassedOK, PathsFound, CellsEnd
<1>4. SessionOK
  BY <1>1 DEF SessionOK, WalkFollowsDisk
<1>5. LayoutOK
  <2>1. SetFolders = {}
    BY <1>1 DEF SetFolders
  <2> QED BY <2>1 DEF LayoutOK, NoChildTwice, NewFoldersAlone, LinkedIfAlone
<1> QED
  BY <1>2, <1>3, <1>4, <1>5

-----------------------------------------------------------------------------
(* The writer passes each folder and each child once. *)

LEMMA HasPushed ==
  ASSUME NEW maker, NEW c
  PROVE  /\ HasCell(PushCell(maker, c), c)
         /\ \A d : HasCell(maker, d) => HasCell(PushCell(maker, c), d)
BY DEF HasCell, PushCell, Insert

LEMMA PassedStep ==
  ASSUME TypeOK, PassedOK, EngineStep
  PROVE  PassedOK'
<1> USE DEF heapVars, tableVars, lookupVars
<1> SUFFICES ASSUME pc' = "push" PROVE PassedOK'
  BY DEF PassedOK
<1>0. k \in Nat /\ j \in Nat /\ Len(folders) \in Nat
  BY TableCells DEF TypeOK
<1>1. ASSUME NEW t, FromEngine(t) PROVE PassedOK'
  <2>1. k' = 1 /\ j' = 0 /\ UNCHANGED <<folder, folders>>
    BY <1>1 DEF FromEngine
  <2>2. Len(folders') \in Nat /\ \A i \in 1..Len(folders') : i \in Nat /\ ~(i < k') /\ i \in Nat
    BY <1>0, <2>1
  <2>3. \A i, n : ~Passed(i, n)'
    BY <1>0, <2>1 DEF Passed, Vector
  <2>4. \A i \in 1..Len(folders') : ~(i < k' \/ (i = k' /\ j' >= 1))
    BY <2>1, <2>2
  <2> QED BY <2>3, <2>4, Zenon DEF PassedOK
<1>2. CASE PushFolder
  <2>1. /\ pc = "push" /\ j = 0 /\ j' = 1 /\ k \in 1..Len(folders)
        /\ folderMaker' = PushCell(folderMaker, folders[k])
        /\ UNCHANGED <<folder, folders, k, pathMaker>>
    BY <1>0, <1>2 DEF PushFolder, Pushing, Panic, TypeOK, walkVars
  <2>2. \A i, n : Passed(i, n)' => Passed(i, n)
    BY <1>0, <2>1 DEF Passed, Vector
  <2>3. \A i \in 1..Len(folders) : i < k \/ i = k => HasCell(folderMaker', folders[i])
    BY <2>1, HasPushed DEF PassedOK
  <2>4. \A i : Vector(i)' = Vector(i)
    BY <2>1 DEF Vector
  <2>5. /\ \A i \in 1..Len(folders) : \A n \in 1..Len(Vector(folders[i])) :
             Passed(i, n)' => HasCell(pathMaker, Vector(folders[i])[n])
        /\ \A i, h \in 1..Len(folders) :
             \A m \in 1..Len(Vector(folders[i])), n \in 1..Len(Vector(folders[h])) :
               Passed(i, m)' /\ Passed(h, n)'
                 /\ Vector(folders[i])[m] = Vector(folders[h])[n]
               => i = h /\ m = n
    BY <2>1, <2>2 DEF PassedOK
  <2>6. \A i \in 1..Len(folders) :
          i < k' \/ (i = k' /\ j' >= 1) => HasCell(folderMaker', folders[i])
    BY <2>1, <2>3
  <2> QED BY <2>1, <2>4, <2>5, <2>6 DEF PassedOK
<1>3. CASE PushPath
  <2>1. /\ pc = "push" /\ j \in 1..Len(Vector(folders[k])) /\ j' = j + 1
        /\ k \in 1..Len(folders)
        /\ ~HasCell(pathMaker, Vector(folders[k])[j])
        /\ pathMaker' = PushCell(pathMaker, Vector(folders[k])[j])
        /\ UNCHANGED <<folder, folders, k, folderMaker>>
    BY <1>0, <1>3 DEF PushPath, Pushing, Panic, TypeOK, walkVars, Vector
  <2>2. \A i, n : Passed(i, n)' => Passed(i, n) \/ (i = k /\ n = j)
    BY <1>0, <2>1 DEF Passed, Vector
  <2>3. \A i : Vector(i)' = Vector(i)
    BY <2>1 DEF Vector
  <2>4. \A i \in 1..Len(folders) : \A n \in 1..Len(Vector(folders[i])) :
          Passed(i, n)' => HasCell(pathMaker', Vector(folders[i])[n])
    BY <2>1, <2>2, HasPushed DEF PassedOK
  <2>5. \A i \in 1..Len(folders) : \A n \in 1..Len(Vector(folders[i])) :
          Passed(i, n) => Vector(folders[i])[n] # Vector(folders[k])[j]
    BY <2>1 DEF PassedOK
  <2>6. \A i, h \in 1..Len(folders) :
          \A m \in 1..Len(Vector(folders[i])), n \in 1..Len(Vector(folders[h])) :
            Passed(i, m)' /\ Passed(h, n)'
              /\ Vector(folders[i])[m] = Vector(folders[h])[n]
            => i = h /\ m = n
    BY SMTT(30), <2>1, <2>2, <2>5 DEF PassedOK
  <2>7. \A i \in 1..Len(folders) :
          i < k \/ (i = k /\ j' >= 1) => HasCell(folderMaker, folders[i])
    BY <1>0, <2>1 DEF PassedOK
  <2> QED BY <2>1, <2>3, <2>4, <2>6, <2>7 DEF PassedOK
<1>4. CASE PushNext
  <2>1. /\ pc = "push" /\ j >= 1 /\ j > Len(Vector(folders[k])) /\ j' = 0 /\ k' = k + 1
        /\ k \in 1..Len(folders)
        /\ UNCHANGED <<folder, folders, folderMaker, pathMaker>>
        /\ Len(Vector(folders[k])) \in Nat
    <3>1. IsSet(folder[folders[k]].children) /\ k \in 1..Len(folders)
      BY <1>0, <1>4 DEF PushNext, Pushing, TypeOK
    <3> QED BY <1>4, <3>1, VectorType, TableCells DEF PushNext, Pushing, Vector
  <2>2. \A i, n : Passed(i, n)' => Passed(i, n)
    BY <1>0, <2>1 DEF Passed, Vector
  <2>3. \A i : Vector(i)' = Vector(i)
    BY <2>1 DEF Vector
  <2>4. \A i \in 1..Len(folders) :
          i < k' \/ (i = k' /\ j' >= 1) => HasCell(folderMaker, folders[i])
    BY <1>0, <2>1 DEF PassedOK
  <2>5. /\ \A i \in 1..Len(folders) : \A n \in 1..Len(Vector(folders[i])) :
             Passed(i, n)' => HasCell(pathMaker, Vector(folders[i])[n])
        /\ \A i, h \in 1..Len(folders) :
             \A m \in 1..Len(Vector(folders[i])), n \in 1..Len(Vector(folders[h])) :
               Passed(i, m)' /\ Passed(h, n)'
                 /\ Vector(folders[i])[m] = Vector(folders[h])[n]
               => i = h /\ m = n
    BY <2>1, <2>2 DEF PassedOK
  <2>6. (\A i \in 1..Len(folders) :
          i < k \/ (i = k /\ j >= 1) => HasCell(folderMaker, folders[i]))'
    BY <2>1, <2>4
  <2>7. (\A i \in 1..Len(folders) : \A n \in 1..Len(Vector(folders[i])) :
          Passed(i, n) => HasCell(pathMaker, Vector(folders[i])[n]))'
    BY <2>1, <2>5 DEF Vector
  <2>8. (\A i, h \in 1..Len(folders) :
          \A m \in 1..Len(Vector(folders[i])), n \in 1..Len(Vector(folders[h])) :
            Passed(i, m) /\ Passed(h, n)
              /\ Vector(folders[i])[m] = Vector(folders[h])[n]
            => i = h /\ m = n)'
    <3>1. /\ folders' = folders
          /\ \A i \in 1..Len(folders) : Vector(folders[i])' = Vector(folders[i])
      BY <2>1 DEF Vector
    <3> QED BY <2>5, <3>1, SMTT(30)
  <2> QED BY <2>6, <2>7, <2>8 DEF PassedOK
<1>5. \/ PushFolder \/ PushPath \/ PushNext \/ \E t : FromEngine(t)
  BY EngineSteps
  DEF Still, Panic, WalkSkip, WalkStart, WalkHop, ResolveReturns, Walking, Descend, Descending,
      AddFile, Read, ResolvePaths, WalkStop, MakeFolder, MakeFile, Landing, Reorganize,
      ListFolder
<1> QED
  BY <1>1, <1>2, <1>3, <1>4, <1>5

-----------------------------------------------------------------------------
(* Names: the lookup has the path of each cell. *)

LEMMA PathsFoundRead ==
  ASSUME TypeOK, Plain(disk), Read
  PROVE  PathsFound'
<1> DEFINE dP == disk.paths
           first == guid + Len(disk.folders)
<1>1. /\ Len(dP) \in Nat
      /\ \A i \in 1..Len(dP) : /\ paths'[i] \in DOMAIN path' /\ paths'[i] = first + i - 1
                               /\ path'[paths'[i]].fullPath = dP[i].fullPath
      /\ \A c \in DOMAIN path' : \E i \in 1..Len(dP) : c = paths'[i]
  <2>1. \A e : ParsePath(e).fullPath = e.fullPath
    BY DEF ParsePath
  <2> QED BY <2>1, ReadCells
<1>2. dP \in Seq(PathEntry)
  BY DEF TypeOK, Image
<1>3. pathLookup' = LookupOf(dP, first, {Blank})
  BY DEF Read
<1>4. \A i \in 1..Len(dP) : dP[i].fullPath \notin {Blank}
  BY DEF Plain
<1> HIDE DEF dP, first
<1>5. /\ \A p \in DOMAIN pathLookup' :
           /\ p \notin {Blank}
           /\ \E i \in 1..Len(dP) : p = dP[i].fullPath /\ pathLookup'[p] = first + i - 1
      /\ \A i \in 1..Len(dP) :
           dP[i].fullPath \notin {Blank} => dP[i].fullPath \in DOMAIN pathLookup'
  BY <1>2, <1>3, LookupLeads
<1>6. \A p \in DOMAIN pathLookup' : path'[pathLookup'[p]].fullPath = p
  <2> TAKE p \in DOMAIN pathLookup'
  <2>1. PICK i \in 1..Len(dP) : p = dP[i].fullPath /\ pathLookup'[p] = first + i - 1
    BY <1>5
  <2>2. pathLookup'[p] = paths'[i]
    BY <1>1, <2>1
  <2> QED BY <1>1, <2>1, <2>2
<1>7. \A c \in DOMAIN path' : path'[c].fullPath \in DOMAIN pathLookup'
  <2> TAKE c \in DOMAIN path'
  <2>1. PICK i \in 1..Len(dP) : c = paths'[i]
    BY <1>1
  <2>2. path'[c].fullPath = dP[i].fullPath
    BY <1>1, <2>1
  <2> QED BY <1>4, <1>5, <2>2
<1> QED
  BY <1>5, <1>6, <1>7 DEF PathsFound

LEMMA PathsFoundGrows ==
  ASSUME TypeOK, PathsFound, NEW prefix, prefix # Blank, NEW c0,
         DOMAIN path' = DOMAIN path \cup {c0}, path'[c0].fullPath = prefix,
         c0 \notin DOMAIN path,
         \A c \in DOMAIN path : path'[c].fullPath = path[c].fullPath,
         pathLookup' = Insert(pathLookup, prefix, c0)
  PROVE  PathsFound'
<1>1. /\ DOMAIN pathLookup' = DOMAIN pathLookup \cup {prefix}
      /\ pathLookup'[prefix] = c0
      /\ \A p \in DOMAIN pathLookup : p # prefix => pathLookup'[p] = pathLookup[p]
  BY DEF Insert
<1>2. \A p \in DOMAIN pathLookup : pathLookup[p] \in DOMAIN path
  BY DEF TypeOK, IsMap
<1> QED
  BY <1>1, <1>2 DEF PathsFound

LEMMA PathsFoundAdds ==
  ASSUME TypeOK, PathsFound, Adds
  PROVE  PathsFound'
<1> DEFINE prefix == SubSeq(file, 1, depth)
<1>0. /\ pc = "add" /\ file \in FullPaths /\ depth \in 1..Len(file)
      /\ current \in DOMAIN folder
  BY AddsPushes DEF TypeOK
<1>1. prefix # Blank /\ (depth = Len(file) => prefix = file)
  BY <1>0, PrefixOf
<1>2. guid \notin DOMAIN path /\ guid + 1 \notin DOMAIN path
  BY TableCells
<1>3. IsSet(folder[current].children)
  BY DEF Adds, MakeFolder, MakeFile
<1>4. folder[current].children.cells \in Seq(DOMAIN path)
  BY <1>0, <1>3, VectorType DEF Vector
<1> HIDE DEF prefix
<1>5. CASE MakeFolder /\ ~Panic
  <2>1. /\ path' = LinkLast(Insert(path, guid + 1, NewPath(prefix, Resolved(guid))),
                            current, guid + 1)
        /\ pathLookup' = Insert(pathLookup, prefix, guid + 1)
    BY <1>5 DEF MakeFolder, prefix
  <2>2. /\ DOMAIN path' = DOMAIN path \cup {guid + 1}
        /\ path'[guid + 1] = NewPath(prefix, Resolved(guid))
        /\ \A c \in DOMAIN path : path'[c].fullPath = path[c].fullPath
    BY <1>0, <1>2, <1>4, <2>1, LinkedChildFields
  <2>3. path'[guid + 1].fullPath = prefix
    BY <2>2 DEF NewPath
  <2> QED BY <1>1, <1>2, <2>1, <2>2, <2>3, PathsFoundGrows
<1>6. CASE MakeFile
  <2>1. /\ path' = LinkLast(Insert(path, guid, NewPath(file, None)), current, guid)
        /\ pathLookup' = Insert(pathLookup, file, guid)
        /\ file # Blank
    BY <1>1, <1>6 DEF MakeFile, Landing
  <2>2. /\ DOMAIN path' = DOMAIN path \cup {guid}
        /\ path'[guid] = NewPath(file, None)
        /\ \A c \in DOMAIN path : path'[c].fullPath = path[c].fullPath
    BY <1>0, <1>2, <1>4, <2>1, LinkedChildFields
  <2>3. path'[guid].fullPath = file
    BY <2>2 DEF NewPath
  <2> QED BY <1>2, <2>1, <2>2, <2>3, PathsFoundGrows
<1> QED
  BY <1>5, <1>6 DEF Adds

LEMMA PathsFoundStep ==
  ASSUME TypeOK, Plain(disk), PathsFound,
         EngineStep \/ \E f \in DOMAIN folder : \E cells :
                          Rearranges(f, cells) /\ UNCHANGED pathLookup
  PROVE  PathsFound'
<1>1. ASSUME DOMAIN path' = DOMAIN path, UNCHANGED pathLookup,
             \A c \in DOMAIN path : path'[c].fullPath = path[c].fullPath
      PROVE  PathsFound'
  <2>1. \A p \in DOMAIN pathLookup : pathLookup[p] \in DOMAIN path
    BY DEF TypeOK, IsMap
  <2> QED BY <1>1, <2>1 DEF PathsFound
<1>2. CASE Still \/ WalkStop \/ Reorganize
           \/ \E p \in DOMAIN folderLookup : ListFolder(folderLookup[p])
  BY <1>1, <1>2 DEF Still, WalkStop, Reorganize, ListFolder, heapVars, lookupVars
<1>3. CASE ResolvePaths
  <2>1. /\ path' = [c \in DOMAIN path |->
                    IF c \in Cells(paths) THEN ResolvePath(path[c]) ELSE path[c]]
        /\ UNCHANGED pathLookup
    BY <1>3 DEF ResolvePaths, lookupVars
  <2>2. ASSUME NEW c \in DOMAIN path PROVE path'[c].fullPath = path[c].fullPath
    <3>1. path[c] \in SearchPath(DOMAIN folder, DOMAIN path)
      BY TableCells
    <3> QED BY <2>1, <3>1 DEF ResolvePath, SearchPath
  <2> QED BY <1>1, <2>1, <2>2
<1>4. ASSUME NEW f \in DOMAIN folder, NEW cells, Rearranges(f, cells), UNCHANGED pathLookup
      PROVE  PathsFound'
  BY <1>1, <1>4, RearrangesFolders
<1> QED
  BY <1>2, <1>3, <1>4, EngineSteps, PathsFoundRead, PathsFoundAdds DEF Adds

-----------------------------------------------------------------------------
(* Links.  What is cut off a table takes no end away from a list. *)

LEMMA LinksEndCut ==
  ASSUME NEW s, NEW t, Len(s) \in Nat, Len(t) \in 0..Len(s),
         \A i \in 1..Len(t) : t[i] = s[i], LinksEnd(s)
  PROVE  LinksEnd(t)
<1>1. 1..Len(t) \subseteq 1..Len(s)
  OBVIOUS
<1>2. ASSUME NEW S \in SUBSET (1..Len(t)), S # {}
      PROVE  \E n \in S : t[n].next + 1 \notin S
  <2>1. S \in SUBSET (1..Len(s))
    BY <1>1
  <2>2. PICK n \in S : s[n].next + 1 \notin S
    BY <1>2, <2>1 DEF LinksEnd
  <2>3. t[n] = s[n]
    OBVIOUS
  <2> QED BY <2>2, <2>3
<1> QED
  BY <1>2 DEF LinksEnd

LEMMA PathsOnDisk ==
  ASSUME EditTypeOK, WriteFile \/ SaveReturns \/ SaveFails
  PROVE  \E source \in {disk.paths, buffer.paths} :
           /\ Len(source) \in Nat /\ Len(disk'.paths) \in 0..Len(source)
           /\ \A i \in 1..Len(disk'.paths) : disk'.paths[i] = source[i]
<1>1. /\ disk \in Image /\ buffer \in Image
      /\ Len(disk.paths) \in Nat /\ Len(buffer.paths) \in Nat
  <2>1. disk \in Image /\ buffer \in Image
    BY DEF EditTypeOK
  <2>2. disk.paths \in Seq(PathEntry) /\ buffer.paths \in Seq(PathEntry)
    BY <2>1 DEF Image
  <2> QED BY <2>1, <2>2, LenProperties
<1>2. UNCHANGED disk \/ FileWritten \/ FileCut
  BY SaveSteps
<1>3. CASE UNCHANGED disk
  BY <1>1, <1>3
<1>4. CASE FileWritten
  <2>1. disk'.paths = disk.paths \/ disk'.paths = buffer.paths
    BY <1>1, <1>4 DEF FileWritten, Image
  <2> QED BY <1>1, <2>1
<1>5. CASE FileCut
  <2>1. PICK n \in 0..Len(buffer[File]) :
          disk' = [disk EXCEPT ![File] = SubSeq(buffer[File], 1, n)]
    BY <1>5 DEF FileCut
  <2>2. /\ File \in {"folders", "paths"}
        /\ Len(SubSeq(buffer[File], 1, n)) = n
        /\ \A i \in 1..n : SubSeq(buffer[File], 1, n)[i] = buffer[File][i]
    BY <1>1, <1>5, TableCut DEF FileCut
  <2>3. CASE File = "folders"
    <3>1. disk'.paths = disk.paths
      BY <1>1, <2>1, <2>3 DEF Image
    <3> QED BY <1>1, <3>1
  <2>4. CASE File = "paths"
    <3>1. disk'.paths = SubSeq(buffer.paths, 1, n)
      BY <1>1, <2>1, <2>4 DEF Image
    <3> QED BY <1>1, <2>1, <2>2, <2>4, <3>1
  <2> QED BY <2>2, <2>3, <2>4
<1> QED
  BY <1>2, <1>3, <1>4, <1>5

LEMMA EmptyLinks ==
  ASSUME NEW s, Len(s) = 0
  PROVE  LinksEnd(s)
<1>1. 1..Len(s) = {}
  OBVIOUS
<1> QED
  BY <1>1 DEF LinksEnd

LEMMA NoImagePlain == Plain(NoImage) /\ LinksEnd(NoImage.paths)
<1>1. Len(NoImage.paths) = 0
  BY EmptySeq DEF NoImage
<1> QED
  BY <1>1, EmptyLinks DEF Plain, INVALID_INDEX

\* Saves: what is on disk are the entries of a table that was on disk, or in
\* the buffer, as far as they were written.
LEMMA SavedParts ==
  ASSUME EditTypeOK, WriteFile \/ SaveReturns \/ SaveFails,
         Plain(disk), Plain(buffer), LinksEnd(disk.paths), LinksEnd(buffer.paths)
  PROVE  /\ Plain(disk)' /\ Plain(buffer)'
         /\ LinksEnd(disk'.paths) /\ LinksEnd(buffer'.paths)
<1>1. PICK source \in {disk.paths, buffer.paths} :
        /\ Len(source) \in Nat /\ Len(disk'.paths) \in 0..Len(source)
        /\ \A i \in 1..Len(disk'.paths) : disk'.paths[i] = source[i]
  BY PathsOnDisk
<1>2. /\ LinksEnd(source) /\ Len(source) <= INVALID_INDEX
      /\ \A n \in 1..Len(source) : source[n].fullPath # Blank
  BY DEF Plain
<1>3. LinksEnd(disk'.paths)
  BY <1>1, <1>2, LinksEndCut
<1>4. Plain(disk')
  <2>1. Len(disk'.paths) <= INVALID_INDEX
    BY <1>1, <1>2 DEF INVALID_INDEX
  <2>2. \A n \in 1..Len(disk'.paths) : n \in 1..Len(source)
    BY <1>1
  <2> QED BY <1>1, <1>2, <2>1, <2>2 DEF Plain
<1>5. buffer' = buffer \/ buffer' = NoImage
  BY SaveSteps
<1>6. Plain(buffer') /\ LinksEnd(buffer'.paths)
  BY <1>5, NoImagePlain
<1> QED
  BY <1>3, <1>4, <1>6

\* The cells after a cell.
LEMMA AfterIs ==
  ASSUME NEW c \in DOMAIN path
  PROVE  After[c] = {d \in DOMAIN path :
                       \/ path[c].next = Resolved(d)
                       \/ /\ IsUnresolved(path[c].next)
                          /\ InBounds(paths, path[c].next.index)
                          /\ d = CellAt(paths, path[c].next.index)}
BY DEF After

LEMMA AfterIsNext ==
  ASSUME NEW c \in DOMAIN path'
  PROVE  After'[c] = {d \in DOMAIN path' :
                        \/ path'[c].next = Resolved(d)
                        \/ /\ IsUnresolved(path'[c].next)
                           /\ InBounds(paths', path'[c].next.index)
                           /\ d = CellAt(paths', path'[c].next.index)}
BY DEF After

\* Links that lead nowhere but to where they led, or to a new cell, end.
LEMMA CellsEndKept ==
  ASSUME CellsEnd, NEW new, new \cap DOMAIN path = {},
         DOMAIN path' = DOMAIN path \cup new,
         \A c \in new : After'[c] = {},
         \A c \in DOMAIN path : After'[c] \subseteq After[c] \cup new
  PROVE  CellsEnd'
<1>1. ASSUME NEW S \in SUBSET DOMAIN path', S # {}
      PROVE  \E c \in S : After'[c] \cap S = {}
  <2>1. CASE S \cap new # {}
    BY <2>1
  <2>2. CASE S \cap new = {}
    <3>1. S \in SUBSET DOMAIN path
      BY <2>2
    <3>2. PICK c \in S : After[c] \cap S = {}
      BY <1>1, <3>1 DEF CellsEnd
    <3>3. After'[c] \subseteq After[c] \cup new
      BY <3>1
    <3> QED BY <2>2, <3>2, <3>3
  <2> QED BY <2>1, <2>2
<1> QED
  BY <1>1 DEF CellsEnd

LEMMA CellsEndSame ==
  ASSUME CellsEnd, DOMAIN path' = DOMAIN path,
         \A c \in DOMAIN path : After'[c] \subseteq After[c]
  PROVE  CellsEnd'
<1>1. /\ {} \cap DOMAIN path = {} /\ DOMAIN path' = DOMAIN path \cup {}
      /\ \A c \in {} : After'[c] = {}
      /\ \A c \in DOMAIN path : After'[c] \subseteq After[c] \cup {}
  OBVIOUS
<1> QED
  BY <1>1, CellsEndKept

LEMMA CellsEndRead ==
  ASSUME TypeOK, LinksEnd(disk.paths), Read
  PROVE  CellsEnd'
<1> DEFINE dP == disk.paths
           n == Len(disk.paths)
<1>1. /\ n \in Nat /\ Len(paths') = n
      /\ \A i \in 1..n : /\ dP[i] \in PathEntry /\ paths'[i] \in DOMAIN path'
                         /\ path'[paths'[i]].next =
                              IF dP[i].next = INVALID_INDEX THEN None
                                                            ELSE Unresolved(dP[i].next)
      /\ \A c \in DOMAIN path' : \E i \in 1..n : c = paths'[i]
  <2>1. \A e : ParsePath(e).next = IF e.next = INVALID_INDEX THEN None
                                                             ELSE Unresolved(e.next)
    BY DEF ParsePath
  <2> QED BY <2>1, ReadCells
<1> HIDE DEF dP, n
<1>2. ASSUME NEW S \in SUBSET DOMAIN path', S # {}
      PROVE  \E c \in S : After'[c] \cap S = {}
  <2> DEFINE T == {i \in 1..n : paths'[i] \in S}
  <2>1. T \in SUBSET (1..n) /\ T # {}
    BY <1>1, <1>2
  <2>2. PICK i \in T : dP[i].next + 1 \notin T
    BY <2>1 DEF LinksEnd, n, dP
  <2>3. i \in 1..n /\ paths'[i] \in S
    BY <2>2
  <2>4. ASSUME NEW d \in After'[paths'[i]] \cap S PROVE FALSE
    <3>1. \/ path'[paths'[i]].next = Resolved(d)
          \/ /\ IsUnresolved(path'[paths'[i]].next)
             /\ InBounds(paths', path'[paths'[i]].next.index)
             /\ d = CellAt(paths', path'[paths'[i]].next.index)
      BY <1>1, <2>3, <2>4, AfterIsNext
    <3>2. dP[i].next \in Nat
      BY <1>1, <2>3 DEF PathEntry
    <3>3. /\ path'[paths'[i]].next = Unresolved(dP[i].next)
          /\ InBounds(paths', dP[i].next) /\ d = CellAt(paths', dP[i].next)
      BY <1>1, <2>3, <3>1, Kinds DEF Unresolved, Resolved, None
    <3>4. dP[i].next + 1 \in 1..n /\ d = paths'[dP[i].next + 1]
      BY <1>1, <3>2, <3>3 DEF InBounds, CellAt
    <3> QED BY <2>2, <2>4, <3>4
  <2> QED BY <2>3, <2>4
<1> QED
  BY <1>2 DEF CellsEnd

LEMMA CellsEndResolvePaths ==
  ASSUME TypeOK, CellsEnd, ResolvePaths
  PROVE  CellsEnd'
<1>1. /\ path' = [c \in DOMAIN path |->
                    IF c \in Cells(paths) THEN ResolvePath(path[c]) ELSE path[c]]
      /\ UNCHANGED paths /\ DOMAIN path' = DOMAIN path
      /\ \A c \in Cells(paths) : Resolvable(path[c])
  BY DEF ResolvePaths, tableVars
<1>2. ASSUME NEW c \in DOMAIN path, NEW d \in After'[c] PROVE d \in After[c]
  <2>1. path[c] \in SearchPath(DOMAIN folder, DOMAIN path)
    BY TableCells
  <2>2. /\ d \in DOMAIN path
        /\ \/ path'[c].next = Resolved(d)
           \/ /\ IsUnresolved(path'[c].next)
              /\ InBounds(paths, path'[c].next.index)
              /\ d = CellAt(paths, path'[c].next.index)
    BY <1>1, <1>2, AfterIsNext
  <2>3. \/ path'[c].next = path[c].next
        \/ /\ IsUnresolved(path[c].next) /\ InBounds(paths, path[c].next.index)
           /\ path'[c].next = Resolved(CellAt(paths, path[c].next.index))
    <3>1. CASE c \in Cells(paths)
      <4>1. path'[c].next = Resolve(path[c].next, paths) /\ Resolvable(path[c])
        BY <1>1, <2>1, <3>1 DEF ResolvePath, SearchPath
      <4> QED BY <4>1 DEF Resolve, Resolvable
    <3> QED BY <1>1, <3>1
  <2> QED BY <2>2, <2>3, AfterIs, Kinds
<1>3. \A c \in DOMAIN path : After'[c] \subseteq After[c]
  BY <1>2
<1> QED
  BY <1>1, <1>3, CellsEndSame

LEMMA CellsEndAdds ==
  ASSUME TypeOK, CellsEnd, Adds
  PROVE  CellsEnd'
<1>1. PICK f0, c0, cells : PushesChild(f0, c0, cells)
  BY AddsPushes
<1>2. /\ DOMAIN path' = DOMAIN path \cup {c0} /\ c0 \notin DOMAIN path
      /\ path'[c0].next = None
      /\ \A c \in DOMAIN path :
           path'[c].next = Resolved(c0) \/ path'[c].next = path[c].next
  BY <1>1 DEF PushesChild
<1>3. UNCHANGED paths
  BY AddsPushes
<1>4. \A n \in Nat : InBounds(paths, n) => CellAt(paths, n) \in DOMAIN path
  BY TableCells DEF InBounds, CellAt
<1>5. After'[c0] = {}
  <2>1. ~IsUnresolved(None) /\ \A d : None # Resolved(d)
    BY Kinds
  <2>2. c0 \in DOMAIN path'
    BY <1>2
  <2> QED BY <1>2, <2>1, <2>2, AfterIsNext
<1>6. ASSUME NEW c \in DOMAIN path, NEW d \in After'[c] PROVE d \in After[c] \cup {c0}
  <2>1. /\ \/ path'[c].next = Resolved(d)
           \/ /\ IsUnresolved(path'[c].next)
              /\ InBounds(paths, path'[c].next.index)
              /\ d = CellAt(paths, path'[c].next.index)
        /\ d \in DOMAIN path \cup {c0}
    BY <1>2, <1>3, <1>6, AfterIsNext
  <2>2. CASE path'[c].next = Resolved(c0)
    BY <2>1, <2>2, Kinds
  <2>3. CASE path'[c].next = path[c].next
    BY <2>1, <2>3, AfterIs
  <2> QED BY <1>2, <2>2, <2>3
<1>7. \A c \in DOMAIN path : After'[c] \subseteq After[c] \cup {c0}
  BY <1>6
<1>8. {c0} \cap DOMAIN path = {} /\ \A c \in {c0} : After'[c] = {}
  BY <1>2, <1>5
<1> QED
  BY <1>2, <1>7, <1>8, CellsEndKept

LEMMA CellsEndStep ==
  ASSUME TypeOK, SessionOK, MakersOK, CellsEnd, LinksEnd(disk.paths),
         EngineStep \/ \E f \in DOMAIN folder : \E cells :
                         Rearranges(f, cells) /\ UNCHANGED <<path, paths>>
  PROVE  CellsEnd'
<1>1. CASE UNCHANGED <<path, paths>>
  <2>1. After' = After
    BY <1>1 DEF After
  <2> QED BY <1>1, <2>1, CellsEndSame
<1>2. CASE Still \/ WalkStop \/ \E p \in DOMAIN folderLookup : ListFolder(folderLookup[p])
  BY <1>1, <1>2 DEF Still, WalkStop, ListFolder, heapVars, tableVars
<1>3. CASE Reorganize
  <2>1. /\ UNCHANGED <<folder, path>> /\ paths' = pathMaker.table /\ pc = "push"
    BY <1>3 DEF Reorganize, Pushed, heapVars
  <2>2. NoneUnresolved \/ Len(paths') = 0
    <3>1. CASE DOMAIN folder # {}
      BY <2>1, <3>1 DEF SessionOK, Settled
    <3>2. CASE DOMAIN folder = {}
      <4>1. Cells(pathMaker.table) = {}
        BY <2>1, <3>2, TableCells DEF MakersOK, PushedPaths
      <4>2. pathMaker.table \in Seq(DOMAIN path)
        BY DEF TypeOK, IsMaker
      <4>3. \A i \in 1..Len(pathMaker.table) : FALSE
        BY <4>1 DEF Cells
      <4>4. Len(pathMaker.table) \in Nat
        BY <4>2, LenProperties
      <4> QED BY <2>1, <4>3, <4>4
    <3> QED BY <3>1, <3>2
  <2>3. ASSUME NEW c \in DOMAIN path, NEW d \in After'[c] PROVE d \in After[c]
    <3>1. /\ d \in DOMAIN path
          /\ \/ path[c].next = Resolved(d)
             \/ IsUnresolved(path[c].next) /\ InBounds(paths', path[c].next.index)
      BY <2>1, <2>3, AfterIsNext
    <3>2. ~(IsUnresolved(path[c].next) /\ InBounds(paths', path[c].next.index))
      BY <2>2, NextType DEF NoneUnresolved, InBounds
    <3> QED BY <3>1, <3>2, AfterIs
  <2>4. \A c \in DOMAIN path : After'[c] \subseteq After[c]
    BY <2>3
  <2> QED BY <2>1, <2>4, CellsEndSame
<1> QED
  BY <1>1, <1>2, <1>3, EngineSteps, CellsEndRead, CellsEndResolvePaths, CellsEndAdds
  DEF Adds

-----------------------------------------------------------------------------
(* Vectors and links of a client that keeps them in step. *)

LEMMA LayoutParts ==
  ASSUME TypeOK, LayoutOK, NEW f \in SetFolders
  PROVE  /\ Vector(f) \in Seq(DOMAIN path) /\ Len(Vector(f)) \in Nat
         /\ \A i \in 1..Len(Vector(f)) :
              Vector(f)[i] \in DOMAIN path /\ Vector(f)[i] \in Cells(Vector(f))
         /\ \A c \in Cells(Vector(f)) :
              c \in DOMAIN path /\ \E i \in 1..Len(Vector(f)) : c = Vector(f)[i]
         /\ \A m, n \in 1..Len(Vector(f)) : Vector(f)[m] = Vector(f)[n] => m = n
         /\ f \notin Cells(folders) => Alone(f)
         /\ Alone(f) =>
              \A i \in 1..Len(Vector(f)) :
                path[Vector(f)[i]].next =
                  IF i < Len(Vector(f)) THEN Resolved(Vector(f)[i + 1]) ELSE None
BY VectorType DEF LayoutOK, NoChildTwice, NewFoldersAlone, LinkedIfAlone, SetFolders

\* Vectors as they were, and their links, stay in step.
LEMMA LayoutSame ==
  ASSUME TypeOK, LayoutOK, Cells(folders) \subseteq Cells(folders'),
         UNCHANGED folder,
         \A f \in SetFolders : \A c \in Cells(Vector(f)) : path'[c].next = path[c].next
  PROVE  LayoutOK'
<1>1. /\ SetFolders' = SetFolders
      /\ \A f : Vector(f)' = Vector(f)
      /\ \A f : Alone(f)' <=> Alone(f)
  <2>1. SetFolders' = SetFolders
    BY DEF SetFolders
  <2>2. \A f : Vector(f)' = Vector(f)
    BY DEF Vector
  <2> QED BY <2>1, <2>2 DEF Alone
<1>2. NoChildTwice'
  BY <1>1 DEF LayoutOK, NoChildTwice
<1>3. NewFoldersAlone'
  BY <1>1 DEF LayoutOK, NewFoldersAlone
<1>4. LinkedIfAlone'
  <2>1. ASSUME NEW f \in SetFolders, Alone(f), NEW i \in 1..Len(Vector(f))
        PROVE  path'[Vector(f)[i]].next =
                 IF i < Len(Vector(f)) THEN Resolved(Vector(f)[i + 1]) ELSE None
    BY <2>1, LayoutParts
  <2> QED BY <1>1, <2>1 DEF LinkedIfAlone
<1> QED
  BY <1>2, <1>3, <1>4 DEF LayoutOK

LEMMA LayoutWalkStop ==
  ASSUME TypeOK, SessionOK, LayoutOK, WalkStop,
         ~IsSet(folder[folders[k]].children)
  PROVE  LayoutOK'
<1>0. PICK m, f0 : m = Len(walked) /\ f0 = folders[k]
  OBVIOUS
<1>1. /\ pc = "walk" /\ walked # <<>> /\ walked \in Seq(DOMAIN path)
      /\ m \in Nat /\ m >= 1
      /\ f0 \in DOMAIN folder
      /\ path[LastOf(walked)].next = None
      /\ DOMAIN folder' = DOMAIN folder
      /\ folder'[f0].children = Set(walked)
      /\ \A f \in DOMAIN folder : f # f0 => folder'[f] = folder[f]
      /\ UNCHANGED <<path, folders, paths>>
  BY <1>0, WalkStopIs
<1>2. AsOnDisk /\ WalkFollowsDisk
  BY <1>0, <1>1 DEF SessionOK, Settled
<1>3. \A h \in 1..(m - 1) : path[walked[h]].next = Resolved(walked[h + 1])
  BY <1>0, <1>1, <1>2 DEF WalkFollowsDisk
<1>4. \A a, b \in 1..m : walked[a] = walked[b] => a = b
  <2>1. path[walked[m]].next = None
    BY <1>0, <1>1 DEF LastOf
  <2> QED BY <1>1, <1>3, <2>1, WalkedOnce
<1>5. SetFolders' = SetFolders \cup {f0} /\ f0 \notin SetFolders
  BY <1>0, <1>1 DEF SetFolders, IsSet, Set
<1>6. /\ Vector(f0)' = walked
      /\ \A f \in SetFolders : Vector(f)' = Vector(f)
  <2>1. Vector(f0)' = walked
    BY <1>1 DEF Vector, Set
  <2>2. ASSUME NEW f \in SetFolders PROVE Vector(f)' = Vector(f)
    <3>1. f \in DOMAIN folder /\ f # f0
      BY <1>5 DEF SetFolders
    <3> QED BY <1>1, <3>1 DEF Vector
  <2> QED BY <2>1, <2>2
<1>7. NoChildTwice'
  <2>1. \A a, b \in 1..Len(walked) : walked[a] = walked[b] => a = b
    BY <1>0, <1>4
  <2>2. ASSUME NEW f \in SetFolders'
        PROVE  \A a, b \in 1..Len(Vector(f)') : Vector(f)'[a] = Vector(f)'[b] => a = b
    <3>1. CASE f = f0
      BY <1>6, <2>1, <3>1
    <3>2. CASE f \in SetFolders
      BY <1>6, <3>2 DEF LayoutOK, NoChildTwice
    <3> QED BY <1>5, <2>2, <3>1, <3>2
  <2> QED BY <2>2 DEF NoChildTwice
<1>8. NewFoldersAlone'
  <2>1. SetFolders' \subseteq Cells(folders')
    BY <1>1, <1>2, <1>5 DEF AsOnDisk, SetFolders
  <2> QED BY <2>1 DEF NewFoldersAlone
<1>9. LinkedIfAlone'
  <2>1. ASSUME NEW i \in 1..m
        PROVE  path[walked[i]].next = IF i < m THEN Resolved(walked[i + 1]) ELSE None
    <3>1. CASE i < m
      BY <1>1, <1>3, <3>1
    <3>2. CASE i = m
      BY <1>0, <1>1, <3>2 DEF LastOf
    <3> QED BY <1>1, <3>1, <3>2
  <2>2. ASSUME NEW f \in SetFolders, Alone(f)'
        PROVE  Alone(f)
    BY <1>5, <1>6, <2>2 DEF Alone
  <2>3. ASSUME NEW f \in SetFolders, Alone(f)'
        PROVE  \A i \in 1..Len(Vector(f)) :
                 path[Vector(f)[i]].next =
                   IF i < Len(Vector(f)) THEN Resolved(Vector(f)[i + 1]) ELSE None
    BY <2>2, <2>3, LayoutParts
  <2>4. ASSUME NEW f \in SetFolders', Alone(f)'
        PROVE  \A i \in 1..Len(Vector(f)') :
                 path'[Vector(f)'[i]].next =
                   IF i < Len(Vector(f)') THEN Resolved(Vector(f)'[i + 1]) ELSE None
    <3>1. CASE f = f0
      BY <1>0, <1>1, <1>6, <2>1, <3>1
    <3>2. CASE f \in SetFolders
      BY <1>1, <1>6, <2>3, <2>4, <3>2
    <3> QED BY <1>5, <2>4, <3>1, <3>2
  <2> QED BY <2>4 DEF LinkedIfAlone
<1> QED
  BY <1>7, <1>8, <1>9 DEF LayoutOK

LEMMA LayoutAdds ==
  ASSUME TypeOK, LayoutOK, Adds
  PROVE  LayoutOK'
<1>1. PICK f0, c0, cells : PushesChild(f0, c0, cells)
  BY AddsPushes
<1>2. UNCHANGED folders
  BY AddsPushes
<1>3. /\ f0 \in SetFolders /\ cells = Vector(f0) /\ cells \in Seq(DOMAIN path)
      /\ c0 \notin DOMAIN path /\ path'[c0].next = None
      /\ \A c \in DOMAIN path :
           path'[c].next = IF cells # <<>> /\ c = LastOf(cells) THEN Resolved(c0)
                                                               ELSE path[c].next
  BY <1>1 DEF PushesChild, SetFolders, Vector
<1>4. PICK n0 \in Nat : n0 = Len(cells)
  BY <1>3, LenProperties
<1>5. PICK more : more = Append(cells, c0)
  OBVIOUS
<1>6. /\ Len(more) = n0 + 1 /\ more[n0 + 1] = c0
      /\ \A i \in 1..n0 : more[i] = cells[i] /\ cells[i] \in DOMAIN path /\ cells[i] # c0
  <2>1. cells \in Seq(DOMAIN path \cup {c0})
    BY <1>3
  <2>2. \A i \in 1..n0 : cells[i] \in DOMAIN path
    BY <1>3, <1>4, ElementOfSeq
  <2> QED BY <1>3, <1>4, <1>5, <2>1, <2>2, AppendElement
<1>7. PICK new : new = DOMAIN folder' \ DOMAIN folder
  OBVIOUS
<1>8. /\ SetFolders' = SetFolders \cup new /\ SetFolders \cap new = {}
      /\ Vector(f0)' = more
      /\ \A f \in SetFolders : f # f0 => Vector(f)' = Vector(f)
      /\ \A f \in new : Vector(f)' = <<>>
  <2>1. /\ DOMAIN folder \subseteq DOMAIN folder'
        /\ \A f \in DOMAIN folder : f # f0 => folder'[f].children = folder[f].children
        /\ folder'[f0].children = Set(more)
        /\ \A f \in new : folder'[f].children = Set(<<>>)
        /\ f0 \in DOMAIN folder
    BY <1>1, <1>5, <1>7 DEF PushesChild
  <2>2. \A s : IsSet(Set(s)) /\ Set(s).cells = s
    BY DEF IsSet, Set
  <2>3. ASSUME NEW f \in DOMAIN folder
        PROVE  IsSet(folder'[f].children) <=> IsSet(folder[f].children)
    BY <1>3, <2>1, <2>2 DEF SetFolders
  <2>4. SetFolders' = SetFolders \cup new
    BY <1>7, <2>1, <2>2, <2>3 DEF SetFolders
  <2>5. SetFolders \subseteq DOMAIN folder
    BY DEF SetFolders
  <2> QED BY <1>7, <2>1, <2>2, <2>4, <2>5 DEF Vector
<1>9. /\ Cells(more) = Cells(cells) \cup {c0}
      /\ c0 \notin Cells(cells)
  <2>1. Cells(cells) = {cells[i] : i \in 1..n0}
    BY <1>4 DEF Cells
  <2>2. Cells(more) = {more[i] : i \in 1..(n0 + 1)}
    BY <1>4, <1>6 DEF Cells
  <2>3. \A c \in Cells(more) : c \in Cells(cells) \cup {c0}
    <3> TAKE c \in Cells(more)
    <3>1. PICK i \in 1..(n0 + 1) : c = more[i]
      BY <2>2
    <3>2. CASE i \in 1..n0
      BY <1>6, <2>1, <3>1, <3>2
    <3>3. CASE i = n0 + 1
      BY <1>6, <3>1, <3>3
    <3> QED BY <1>4, <3>2, <3>3
  <2>4. \A i \in 1..n0 : cells[i] \in Cells(more)
    <3> TAKE i \in 1..n0
    <3>1. i \in 1..(n0 + 1) /\ cells[i] = more[i]
      BY <1>6
    <3> QED BY <2>2, <3>1
  <2>5. c0 \in Cells(more)
    BY <1>6, <2>2
  <2>6. c0 \notin Cells(cells)
    BY <1>6, <2>1
  <2> QED BY <2>1, <2>3, <2>4, <2>5, <2>6
<1>10. /\ Cells(<<>>) = {} /\ Len(<<>>) = 0
  BY EmptySeq DEF Cells
<1>11. ASSUME NEW f \in SetFolders, Alone(f)'
       PROVE  Alone(f)
  <2>1. \A g \in SetFolders : Cells(Vector(g)) \subseteq Cells(Vector(g)')
    BY <1>3, <1>8, <1>9
  <2> QED BY <1>8, <1>11, <2>1 DEF Alone
<1>12. \A g \in SetFolders : c0 \notin Cells(Vector(g))
  BY <1>3, LayoutParts
<1>13. NoChildTwice'
  <2>1. \A a, b \in 1..n0 : cells[a] = cells[b] => a = b
    BY <1>3, <1>4, LayoutParts
  <2>2. \A a, b \in 1..(n0 + 1) : more[a] = more[b] => a = b
    <3> TAKE a, b \in 1..(n0 + 1)
    <3>1. /\ a \in 1..n0 \/ a = n0 + 1
          /\ b \in 1..n0 \/ b = n0 + 1
      OBVIOUS
    <3> QED BY <1>6, <2>1, <3>1
  <2>3. ASSUME NEW f \in SetFolders'
        PROVE  \A a, b \in 1..Len(Vector(f)') : Vector(f)'[a] = Vector(f)'[b] => a = b
    <3>1. CASE f = f0
      BY <1>6, <1>8, <2>2, <3>1
    <3>2. CASE f \in SetFolders /\ f # f0
      BY <1>8, <3>2, LayoutParts
    <3>3. CASE f \in new
      BY <1>8, <1>10, <3>3
    <3> QED BY <1>8, <2>3, <3>1, <3>2, <3>3
  <2> QED BY <2>3 DEF NoChildTwice
<1>14. NewFoldersAlone'
  <2>1. ASSUME NEW f \in SetFolders' \ Cells(folders), NEW g \in SetFolders', f # g
        PROVE  Cells(Vector(f)') \cap Cells(Vector(g)') = {}
    <3>1. CASE f \in new \/ g \in new
      BY <1>8, <1>10, <3>1
    <3>2. CASE f \in SetFolders /\ g \in SetFolders
      <4>1. Cells(Vector(f)) \cap Cells(Vector(g)) = {}
        BY <2>1, <3>2, LayoutParts DEF Alone
      <4>2. CASE f = f0
        BY <1>3, <1>8, <1>9, <1>12, <2>1, <3>2, <4>1, <4>2
      <4>3. CASE g = f0
        BY <1>3, <1>8, <1>9, <1>12, <2>1, <3>2, <4>1, <4>3
      <4> QED BY <1>8, <3>2, <4>1, <4>2, <4>3
    <3> QED BY <1>8, <2>1, <3>1, <3>2
  <2> QED BY <1>2, <2>1 DEF NewFoldersAlone, Alone
<1>15. LinkedIfAlone'
  <2>1. ASSUME Alone(f0), NEW i \in 1..(n0 + 1)
        PROVE  path'[more[i]].next = IF i < n0 + 1 THEN Resolved(more[i + 1]) ELSE None
    <3>1. /\ \A a, b \in 1..n0 : cells[a] = cells[b] => a = b
          /\ \A a \in 1..n0 : path[cells[a]].next =
                                IF a < n0 THEN Resolved(cells[a + 1]) ELSE None
      BY SMTT(30), <1>3, <1>4, <2>1, LayoutParts
    <3>2. CASE i < n0
      <4>1. /\ i \in 1..n0 /\ i + 1 \in 1..n0 /\ n0 \in 1..n0
            /\ cells[i] # cells[n0]
        BY <1>4, <3>1, <3>2
      <4>2. path'[cells[i]].next = path[cells[i]].next
        BY <1>3, <1>4, <1>6, <4>1 DEF LastOf
      <4>3. path[cells[i]].next = Resolved(cells[i + 1])
        BY <3>1, <3>2, <4>1
      <4>4. more[i] = cells[i] /\ more[i + 1] = cells[i + 1]
        BY <1>6, <4>1
      <4> QED BY <1>4, <3>2, <4>2, <4>3, <4>4
    <3>3. CASE i = n0
      <4>1. i \in 1..n0 /\ n0 # 0 /\ cells # <<>>
        BY <1>4, <3>3, EmptySeq
      <4>2. path'[cells[i]].next = Resolved(c0)
        BY <1>3, <1>4, <1>6, <3>3, <4>1 DEF LastOf
      <4> QED BY <1>6, <3>3, <4>1, <4>2
    <3>4. CASE i = n0 + 1
      BY <1>3, <1>6, <3>4
    <3> QED BY <2>1, <3>2, <3>3, <3>4
  <2>2. ASSUME NEW f \in SetFolders, f # f0, Alone(f), NEW i \in 1..Len(Vector(f))
        PROVE  path'[Vector(f)[i]].next =
                 IF i < Len(Vector(f)) THEN Resolved(Vector(f)[i + 1]) ELSE None
    <3>1. /\ Vector(f)[i] \in DOMAIN path /\ Vector(f)[i] \in Cells(Vector(f))
          /\ path[Vector(f)[i]].next =
               IF i < Len(Vector(f)) THEN Resolved(Vector(f)[i + 1]) ELSE None
      BY <2>2, LayoutParts
    <3>2. Vector(f)[i] \notin Cells(cells)
      BY <1>3, <2>2, <3>1 DEF Alone
    <3>3. cells # <<>> => LastOf(cells) \in Cells(cells)
      BY <1>3, CellsOfSeq DEF LastOf
    <3> QED BY <1>3, <3>1, <3>2, <3>3
  <2>3. ASSUME NEW f \in SetFolders', Alone(f)'
        PROVE  \A i \in 1..Len(Vector(f)') :
                 path'[Vector(f)'[i]].next =
                   IF i < Len(Vector(f)') THEN Resolved(Vector(f)'[i + 1]) ELSE None
    <3>1. CASE f = f0
      <4>1. Alone(f0)
        BY <1>3, <1>11, <2>3, <3>1
      <4> QED BY <1>6, <1>8, <2>1, <3>1, <4>1
    <3>2. CASE f \in SetFolders /\ f # f0
      <4>1. Alone(f)
        BY <1>11, <2>3, <3>2
      <4> QED BY <1>8, <2>2, <3>2, <4>1
    <3>3. CASE f \in new
      BY <1>8, <1>10, <3>3
    <3> QED BY <1>8, <2>3, <3>1, <3>2, <3>3
  <2> QED BY <2>3 DEF LinkedIfAlone
<1> QED
  BY <1>13, <1>14, <1>15 DEF LayoutOK

LEMMA LayoutRearrange ==
  ASSUME TypeOK, LayoutOK, client.edits # "any", UNCHANGED folders,
         NEW f0 \in DOMAIN folder, NEW cells, Rearranges(f0, cells)
  PROVE  LayoutOK'
<1>1. /\ f0 \in SetFolders /\ cells \in Seq(DOMAIN path)
      /\ Len(cells) = Len(Vector(f0))
      /\ \A a, b \in 1..Len(cells) : cells[a] = cells[b] => a = b
      /\ Cells(cells) = Cells(Vector(f0)) /\ LastOf(cells) = LastOf(Vector(f0))
      /\ client.edits = "linked"
  BY DEF Rearranges, SetFolders
<1>2. PICK n0 \in Nat : n0 = Len(cells)
  BY <1>1, LenProperties
<1>3. /\ \A i \in 1..(n0 - 1) : path'[cells[i]].next = Resolved(cells[i + 1])
      /\ \A c \in DOMAIN path :
           (\A i \in 1..(n0 - 1) : cells[i] # c) => path'[c].next = path[c].next
  <2>1. /\ \A i \in 1..(Len(cells) - 1) : path'[cells[i]].next = Resolved(cells[i + 1])
        /\ \A c \in DOMAIN path :
             (\A i \in 1..(Len(cells) - 1) : cells[i] # c)
               => path'[c].next = path[c].next
    BY <1>1, RearrangesFolders
  <2> QED BY <1>2, <2>1
<1>4. /\ SetFolders' = SetFolders /\ Vector(f0)' = cells
      /\ \A f \in SetFolders : f # f0 => Vector(f)' = Vector(f)
  <2>1. /\ DOMAIN folder' = DOMAIN folder /\ folder'[f0].children = Set(cells)
        /\ \A g \in DOMAIN folder : g # f0 => folder'[g] = folder[g]
    BY RearrangesFolders
  <2> QED BY <1>1, <2>1 DEF SetFolders, Vector, IsSet, Set
<1>5. \A f \in SetFolders : Cells(Vector(f)') = Cells(Vector(f))
  BY <1>1, <1>4
<1>6. \A f \in SetFolders : Alone(f)' <=> Alone(f)
  BY <1>4, <1>5 DEF Alone
<1>7. NoChildTwice'
  BY <1>1, <1>4 DEF LayoutOK, NoChildTwice
<1>8. NewFoldersAlone'
  BY <1>4, <1>6 DEF LayoutOK, NewFoldersAlone
<1>9. LinkedIfAlone'
  <2>1. ASSUME Alone(f0), NEW i \in 1..n0
        PROVE  path'[cells[i]].next = IF i < n0 THEN Resolved(cells[i + 1]) ELSE None
    <3>1. CASE i < n0
      BY <1>2, <1>3, <3>1
    <3>2. CASE i = n0
      <4>1. \A h \in 1..(n0 - 1) : cells[h] # cells[n0]
        BY <1>1, <1>2, <3>2
      <4>2. cells[n0] = Vector(f0)[n0] /\ cells[n0] \in DOMAIN path
        BY <1>1, <1>2, <3>2, ElementOfSeq DEF LastOf
      <4>3. path[Vector(f0)[n0]].next = None
        BY <1>1, <1>2, <2>1, <3>2, LayoutParts
      <4> QED BY <1>3, <3>2, <4>1, <4>2, <4>3
    <3> QED BY <1>2, <2>1, <3>1, <3>2
  <2>2. ASSUME NEW f \in SetFolders, f # f0, Alone(f), NEW i \in 1..Len(Vector(f))
        PROVE  path'[Vector(f)[i]].next =
                 IF i < Len(Vector(f)) THEN Resolved(Vector(f)[i + 1]) ELSE None
    <3>1. /\ Vector(f)[i] \in DOMAIN path /\ Vector(f)[i] \in Cells(Vector(f))
          /\ path[Vector(f)[i]].next =
               IF i < Len(Vector(f)) THEN Resolved(Vector(f)[i + 1]) ELSE None
      BY <2>2, LayoutParts
    <3>2. Vector(f)[i] \notin Cells(cells)
      BY <1>1, <2>2, <3>1 DEF Alone
    <3>3. \A h \in 1..(n0 - 1) : cells[h] \in Cells(cells)
      BY <1>2 DEF Cells
    <3> QED BY <1>3, <3>1, <3>2, <3>3
  <2>3. ASSUME NEW f \in SetFolders, Alone(f)
        PROVE  \A i \in 1..Len(Vector(f)') :
                 path'[Vector(f)'[i]].next =
                   IF i < Len(Vector(f)') THEN Resolved(Vector(f)'[i + 1]) ELSE None
    <3>1. CASE f = f0
      BY <1>2, <1>4, <2>1, <2>3, <3>1
    <3>2. CASE f # f0
      BY <1>4, <2>2, <2>3, <3>2
    <3> QED BY <3>1, <3>2
  <2> QED BY <1>4, <1>6, <2>3 DEF LinkedIfAlone
<1> QED
  BY <1>7, <1>8, <1>9 DEF LayoutOK

LEMMA LayoutStep ==
  ASSUME TypeOK, SessionOK, MakersOK, PassedOK, LayoutOK, EngineStep
  PROVE  LayoutOK'
<1>1. CASE Still
  BY <1>1, StillTables, LayoutSame
<1>2. CASE Read
  <2>1. SetFolders' = {}
    BY <1>2, AsOnDiskRead DEF SetFolders
  <2> QED BY <2>1 DEF LayoutOK, NoChildTwice, NewFoldersAlone, LinkedIfAlone
<1>3. CASE ResolvePaths
  <2>1. /\ path' = [c \in DOMAIN path |->
                      IF c \in Cells(paths) THEN ResolvePath(path[c]) ELSE path[c]]
        /\ UNCHANGED <<folder, folders>>
    BY <1>3 DEF ResolvePaths, tableVars
  <2>2. ASSUME NEW f \in SetFolders, NEW c \in Cells(Vector(f))
        PROVE  path'[c].next = path[c].next
    <3>1. NoneUnresolved
      BY DEF SessionOK, SetFolders
    <3>2. c \in DOMAIN path
      BY LayoutParts
    <3>3. path[c] \in SearchPath(DOMAIN folder, DOMAIN path) /\ ~IsUnresolved(path[c].next)
      BY <3>1, <3>2, TableCells DEF NoneUnresolved
    <3> QED BY <2>1, <3>2, <3>3 DEF ResolvePath, Resolve, SearchPath
  <2> QED BY <2>1, <2>2, LayoutSame
<1>4. CASE WalkStop
  <2>1. CASE ~IsSet(folder[folders[k]].children)
    BY <1>4, <2>1, LayoutWalkStop
  <2>2. CASE IsSet(folder[folders[k]].children)
    BY <1>4, <2>2, WalkStopIs DEF SessionOK, WalkFollowsDisk
  <2> QED BY <2>1, <2>2
<1>5. CASE Reorganize
  <2>1. /\ UNCHANGED <<folder, path>> /\ folders' = folderMaker.table
        /\ pc = "push" /\ k > Len(folders)
    BY <1>5 DEF Reorganize, Pushed, heapVars
  <2>2. k \in Nat /\ Len(folders) \in Nat
    BY TableCells DEF TypeOK
  <2>3. \A i \in 1..Len(folders) : folders[i] \in DOMAIN folderMaker.index
    BY <2>1, <2>2 DEF PassedOK, HasCell
  <2>4. Cells(folders) \subseteq Cells(folders')
    BY <2>1, <2>3 DEF MakersOK, MakerOK, Cells
  <2> QED BY <2>1, <2>4, LayoutSame
<1>6. CASE \E p \in DOMAIN folderLookup : ListFolder(folderLookup[p])
  <2>1. PICK f \in DOMAIN folder : folders' = Append(folders, f)
    BY <1>6 DEF ListFolder, TypeOK, IsMap
  <2>2. UNCHANGED <<folder, path>>
    BY <1>6 DEF ListFolder, heapVars
  <2>3. /\ Len(folders) \in Nat /\ Len(folders') = Len(folders) + 1
        /\ \A i \in 1..Len(folders) : folders'[i] = folders[i]
    BY <2>1, AppendElement, TableCells DEF TypeOK
  <2>4. Cells(folders) \subseteq Cells(folders')
    <3>1. \A i \in 1..Len(folders) : i \in 1..Len(folders') /\ folders'[i] = folders[i]
      BY <2>3
    <3> QED BY <3>1 DEF Cells
  <2> QED BY <2>2, <2>4, LayoutSame
<1> QED
  BY <1>1, <1>2, <1>3, <1>4, <1>5, <1>6, EngineSteps, LayoutAdds DEF Adds

-----------------------------------------------------------------------------
(* What a save buffers.                                                    *)

\* The image buffered, and the cells ft and pt that its entries are made of.
IsBuffer(image, ft, pt, nf, np) ==
  /\ nf \in Nat /\ np \in Nat /\ np <= INVALID_INDEX
  /\ nf = Len(image.folders) /\ np = Len(image.paths)
  /\ \A i \in 1..nf :
       /\ ft[i] \in SetFolders /\ ft[i] \in Cells(folders)
       /\ image.folders[i].fullPath = folder[ft[i]].fullPath
       /\ Vector(ft[i]) = <<>> => image.folders[i].first = INVALID_INDEX
       /\ Vector(ft[i]) # <<>> =>
            /\ image.folders[i].first \in Nat
            /\ image.folders[i].first + 1 \in 1..np
            /\ pt[image.folders[i].first + 1] = Vector(ft[i])[1]
  /\ \A f \in Cells(folders) : \E i \in 1..nf : f = ft[i]
  /\ \A i, h \in 1..nf : ft[i] = ft[h] => i = h
  /\ \A n \in 1..np :
       /\ pt[n] \in DOMAIN path
       /\ image.paths[n].fullPath = path[pt[n]].fullPath
       /\ \/ path[pt[n]].next = None /\ image.paths[n].next = INVALID_INDEX
          \/ /\ image.paths[n].next \in Nat /\ image.paths[n].next + 1 \in 1..np
             /\ path[pt[n]].next = Resolved(pt[image.paths[n].next + 1])
       /\ \E f \in Cells(folders) : \E a \in 1..Len(Vector(f)) : pt[n] = Vector(f)[a]
  /\ \A n, h \in 1..np : pt[n] = pt[h] => n = h
  /\ \A f \in Cells(folders) : \A a \in 1..Len(Vector(f)) :
       \E n \in 1..np : pt[n] = Vector(f)[a]
  /\ image.pathKeys = DOMAIN pathLookup
  /\ \A p \in DOMAIN pathLookup : \E n \in 1..np : pt[n] = pathLookup[p]

\* No cell is a child twice of the folders that the writer passed.
LEMMA PushedApart ==
  ASSUME TypeOK, PassedOK, Pushed,
         NEW f \in Cells(folders), NEW g \in Cells(folders),
         f \in SetFolders, g \in SetFolders,
         NEW m \in 1..Len(Vector(f)), NEW n \in 1..Len(Vector(g)),
         Vector(f)[m] = Vector(g)[n]
  PROVE  f = g /\ m = n
<1>1. pc = "push" /\ k > Len(folders) /\ k \in Nat /\ Len(folders) \in Nat
  BY TableCells DEF Pushed, TypeOK
<1>2. PICK i \in 1..Len(folders), h \in 1..Len(folders) : f = folders[i] /\ g = folders[h]
  BY DEF Cells
<1>3. Passed(i, m) /\ Passed(h, n)
  BY <1>1, <1>2 DEF Passed
<1>4. i = h /\ m = n
  BY <1>1, <1>2, <1>3, Zenon DEF PassedOK
<1> QED
  BY <1>2, <1>4

\* Each folder that the writer passed is alone with its children.
LEMMA PushedAlone ==
  ASSUME TypeOK, PassedOK, LayoutOK, Pushed, Cells(folders) \subseteq SetFolders,
         NEW f \in Cells(folders)
  PROVE  Alone(f)
<1>1. SUFFICES ASSUME NEW g \in SetFolders, f # g,
                      NEW c, c \in Cells(Vector(f)), c \in Cells(Vector(g))
               PROVE  FALSE
  BY DEF Alone
<1>2. f \in SetFolders
  OBVIOUS
<1>3. CASE g \in Cells(folders)
  <2>1. PICK m \in 1..Len(Vector(f)) : c = Vector(f)[m]
    BY <1>1, <1>2, LayoutParts
  <2>2. PICK n \in 1..Len(Vector(g)) : c = Vector(g)[n]
    BY <1>1, LayoutParts
  <2> QED BY <1>1, <1>2, <1>3, <2>1, <2>2, PushedApart
<1>4. CASE g \notin Cells(folders)
  <2>1. Alone(g)
    BY <1>1, <1>4 DEF LayoutOK, NewFoldersAlone
  <2>2. Cells(Vector(g)) \cap Cells(Vector(f)) = {}
    BY <1>1, <1>2, <2>1 DEF Alone
  <2> QED BY <1>1, <2>2
<1> QED
  BY <1>3, <1>4

\* A path entry's next index is that of its next cell.
LEMMA BufferedNext ==
  ASSUME TypeOK, MakersOK, Serialisable, NEW c \in Cells(pathMaker.table)
  PROVE  \/ path[c].next = None /\ WritePath(path[c]).next = INVALID_INDEX
         \/ \E x \in Nat : /\ x = WritePath(path[c]).next
                           /\ x + 1 \in 1..Len(pathMaker.table)
                           /\ path[c].next = Resolved(pathMaker.table[x + 1])
<1>1. pathMaker.table \in Seq(DOMAIN path) /\ MakerOK(pathMaker)
      /\ Len(pathMaker.table) \in Nat /\ Len(pathMaker.table) <= MaxTable
  <2>1. pathMaker.table \in Seq(DOMAIN path)
    BY DEF TypeOK, IsMaker
  <2> QED BY <2>1, LenProperties DEF MakersOK
<1>2. c \in DOMAIN path
  BY <1>1, CellsOfSeq
<1>3. CASE IsNone(path[c].next)
  BY <1>2, <1>3, NextType, WrittenFields
<1>4. CASE ~IsNone(path[c].next)
  <2>0. PICK d, x : d = path[c].next.cell /\ x = GetIndex(pathMaker, d)
    OBVIOUS
  <2>1. IsCell(path[c].next) /\ HasCell(pathMaker, d)
    BY <1>4, <2>0 DEF Serialisable
  <2>2. path[c].next = Resolved(d)
    BY <1>2, <2>0, <2>1, NextType
  <2>3. HashKeyIndex(x) = x /\ x \in Nat /\ pathMaker.table[x + 1] = d
    BY <1>1, <2>0, <2>1, IndexSurvives
  <2>4. WritePath(path[c]).next = x
    BY <1>4, <2>0, <2>3, WrittenFields
  <2>5. x + 1 \in 1..Len(pathMaker.table)
    <3>1. d \in Cells(pathMaker.table)
      BY <1>1, <2>1 DEF HasCell, MakerOK
    <3>2. PICK i \in 1..Len(pathMaker.table) : d = pathMaker.table[i]
      BY <3>1 DEF Cells
    <3>3. x = i - 1
      BY <1>1, <2>0, <3>2 DEF GetIndex, MakerOK
    <3> QED BY <1>1, <3>2, <3>3
  <2> QED BY <2>2, <2>3, <2>4, <2>5
<1> QED
  BY <1>3, <1>4

\* What the writer buffers has one entry for each folder in the table and for
\* each child of one of them.
LEMMA BufferWritten ==
  ASSUME TypeOK, MakersOK, PassedOK, Pushed, Serialisable,
         NEW image, image = WrittenImage
  PROVE  /\ \E ft, pt, nf, np : IsBuffer(image, ft, pt, nf, np)
         /\ Cells(folders) \subseteq SetFolders
<1> DEFINE ft == folderMaker.table
           pt == pathMaker.table
           nf == Len(ft)
           np == Len(pt)
<1>0. pc = "push" /\ k > Len(folders) /\ k \in Nat /\ Len(folders) \in Nat
  BY TableCells DEF Pushed, TypeOK
<1>1. /\ MakerOK(folderMaker) /\ MakerOK(pathMaker) /\ nf \in Nat /\ np \in Nat
      /\ np <= INVALID_INDEX
      /\ \A i \in 1..nf : ft[i] \in DOMAIN folder /\ ft[i] \in Cells(ft)
      /\ \A n \in 1..np : pt[n] \in DOMAIN path /\ pt[n] \in Cells(pt)
      /\ \A f \in Cells(ft) : \E i \in 1..nf : f = ft[i]
      /\ \A c \in Cells(pt) : \E n \in 1..np : c = pt[n]
  <2>1. ft \in Seq(DOMAIN folder) /\ pt \in Seq(DOMAIN path)
    BY DEF TypeOK, IsMaker
  <2>2. nf \in Nat /\ np \in Nat /\ MakerOK(folderMaker) /\ MakerOK(pathMaker)
        /\ np <= MaxTable
    BY <2>1, LenProperties DEF MakersOK
  <2>3. np <= INVALID_INDEX
    BY <2>2, ConstantsOK DEF INVALID_INDEX
  <2>4. \A i \in 1..nf : ft[i] \in DOMAIN folder /\ ft[i] \in Cells(ft)
    BY <2>1, ElementOfSeq DEF Cells
  <2>5. \A n \in 1..np : pt[n] \in DOMAIN path /\ pt[n] \in Cells(pt)
    BY <2>1, ElementOfSeq DEF Cells
  <2> QED BY <2>2, <2>3, <2>4, <2>5 DEF Cells
<1>2. Cells(ft) = Cells(folders)
  <2>1. ASSUME NEW f \in Cells(ft) PROVE f \in Cells(folders)
    BY <1>0, <2>1 DEF MakersOK, PushedFolders, Cells
  <2>2. ASSUME NEW f \in Cells(folders) PROVE f \in Cells(ft)
    <3>1. PICK i \in 1..Len(folders) : f = folders[i]
      BY <2>2 DEF Cells
    <3>2. i < k
      BY <1>0
    <3>3. HasCell(folderMaker, f)
      BY <1>0, <3>1, <3>2 DEF PassedOK
    <3> QED BY <1>1, <3>3 DEF HasCell, MakerOK
  <2> QED BY <2>1, <2>2
<1>3. ASSUME NEW f \in Cells(folders)
      PROVE  /\ f \in SetFolders
             /\ Vector(f) # <<>> => HasCell(pathMaker, Vector(f)[1])
  <2>1. f \in Cells(ft) /\ f \in DOMAIN folder
    BY <1>2, <1>3, TableCells
  <2> QED BY <2>1 DEF Serialisable, SetFolders, Vector
<1>4. ASSUME NEW c, HasCell(pathMaker, c)
      PROVE  \E n \in 1..np : pt[n] = c /\ GetIndex(pathMaker, c) = n - 1
  <2>1. c \in Cells(pt)
    BY <1>1, <1>4 DEF HasCell, MakerOK
  <2>2. PICK n \in 1..np : c = pt[n]
    BY <2>1 DEF Cells
  <2> QED BY <1>1, <2>2 DEF GetIndex, MakerOK
<1>5. /\ Len(image.folders) = nf /\ Len(image.paths) = np
      /\ \A i \in 1..nf : image.folders[i] = WriteFolder(folder[ft[i]])
      /\ \A n \in 1..np : image.paths[n] = WritePath(path[pt[n]])
      /\ image.pathKeys = DOMAIN pathLookup
  BY <1>1 DEF WrittenImage
<1>6. ASSUME NEW i \in 1..nf
      PROVE  /\ ft[i] \in SetFolders /\ ft[i] \in Cells(folders)
             /\ image.folders[i].fullPath = folder[ft[i]].fullPath
             /\ Vector(ft[i]) = <<>> => image.folders[i].first = INVALID_INDEX
             /\ Vector(ft[i]) # <<>> =>
                  /\ image.folders[i].first \in Nat
                  /\ image.folders[i].first + 1 \in 1..np
                  /\ pt[image.folders[i].first + 1] = Vector(ft[i])[1]
  <2>1. ft[i] \in Cells(folders) /\ ft[i] \in SetFolders
    BY <1>1, <1>2, <1>3
  <2>2. image.folders[i] = WriteFolder(folder[ft[i]])
    BY <1>5
  <2>3. image.folders[i].fullPath = folder[ft[i]].fullPath
    BY <2>2, WrittenFields
  <2>4. Vector(ft[i]) = <<>> => image.folders[i].first = INVALID_INDEX
    BY <2>2 DEF WriteFolder, Vector
  <2>5. ASSUME Vector(ft[i]) # <<>>
        PROVE  /\ image.folders[i].first \in Nat
               /\ image.folders[i].first + 1 \in 1..np
               /\ pt[image.folders[i].first + 1] = Vector(ft[i])[1]
    <3>1. image.folders[i].first = GetIndex(pathMaker, Vector(ft[i])[1])
      BY <2>2, <2>5, WrittenFields DEF Vector
    <3>2. HasCell(pathMaker, Vector(ft[i])[1])
      BY <1>3, <2>1, <2>5
    <3>3. PICK n \in 1..np : pt[n] = Vector(ft[i])[1]
                             /\ GetIndex(pathMaker, Vector(ft[i])[1]) = n - 1
      BY <1>4, <3>2
    <3> QED BY <1>1, <3>1, <3>3
  <2> QED BY <2>1, <2>3, <2>4, <2>5
<1>7. ASSUME NEW n \in 1..np
      PROVE  \E f \in Cells(folders) : \E a \in 1..Len(Vector(f)) : pt[n] = Vector(f)[a]
  <2>1. PICK i \in 1..Len(folders) :
          \E a \in 1..Len(folder[folders[i]].children.cells) :
            pt[n] = folder[folders[i]].children.cells[a]
    BY <1>0, <1>1 DEF MakersOK, PushedPaths
  <2>2. folders[i] \in Cells(folders)
    BY DEF Cells
  <2> QED BY <2>1, <2>2 DEF Vector
<1>8. ASSUME NEW n \in 1..np
      PROVE  /\ pt[n] \in DOMAIN path
             /\ image.paths[n].fullPath = path[pt[n]].fullPath
             /\ \/ path[pt[n]].next = None /\ image.paths[n].next = INVALID_INDEX
                \/ /\ image.paths[n].next \in Nat /\ image.paths[n].next + 1 \in 1..np
                   /\ path[pt[n]].next = Resolved(pt[image.paths[n].next + 1])
  <2>1. pt[n] \in DOMAIN path /\ pt[n] \in Cells(pt)
        /\ image.paths[n] = WritePath(path[pt[n]])
    BY <1>1, <1>5
  <2>2. image.paths[n].fullPath = path[pt[n]].fullPath
    BY <2>1, WrittenFields
  <2>3. \/ path[pt[n]].next = None /\ WritePath(path[pt[n]]).next = INVALID_INDEX
        \/ \E x \in Nat : /\ x = WritePath(path[pt[n]]).next
                          /\ x + 1 \in 1..Len(pathMaker.table)
                          /\ path[pt[n]].next = Resolved(pathMaker.table[x + 1])
    BY <2>1, BufferedNext
  <2> QED BY <2>1, <2>2, <2>3
<1>9. /\ \A i, h \in 1..nf : ft[i] = ft[h] => i = h
      /\ \A n, h \in 1..np : pt[n] = pt[h] => n = h
  BY <1>1, MakerInjective
<1>10. ASSUME NEW f \in Cells(folders), NEW a \in 1..Len(Vector(f))
       PROVE  \E n \in 1..np : pt[n] = Vector(f)[a]
  <2>1. PICK i \in 1..Len(folders) : f = folders[i]
    BY <1>10 DEF Cells
  <2>2. Passed(i, a)
    BY <1>0, <2>1 DEF Passed
  <2>3. HasCell(pathMaker, Vector(f)[a])
    BY <1>0, <2>1, <2>2 DEF PassedOK
  <2> QED BY <1>4, <2>3
<1>11. ASSUME NEW p \in DOMAIN pathLookup PROVE \E n \in 1..np : pt[n] = pathLookup[p]
  <2>1. HasCell(pathMaker, pathLookup[p])
    BY <1>11 DEF Serialisable
  <2> QED BY <1>4, <2>1
<1>12. \A f \in Cells(folders) : \E i \in 1..nf : f = ft[i]
  BY <1>1, <1>2
<1> HIDE DEF ft, pt, nf, np
<1>13. IsBuffer(image, ft, pt, nf, np)
  BY <1>1, <1>5, <1>6, <1>7, <1>8, <1>9, <1>10, <1>11, <1>12, Zenon DEF IsBuffer
<1> QED
  BY <1>3, <1>13

-----------------------------------------------------------------------------
(* Its links, where the client kept them in step with its vectors. *)

\* Each cell of the buffered paths is in one vector, and the next one follows.
LEMMA BufferLinked ==
  ASSUME TypeOK, PassedOK, LayoutOK, Pushed, Cells(folders) \subseteq SetFolders,
         NEW f \in Cells(folders), NEW a \in 1..Len(Vector(f))
  PROVE  path[Vector(f)[a]].next =
           IF a < Len(Vector(f)) THEN Resolved(Vector(f)[a + 1]) ELSE None
<1>1. f \in SetFolders
  OBVIOUS
<1>2. Alone(f)
  BY PushedAlone
<1> QED
  BY <1>1, <1>2, LayoutParts

\* Each folder's entry begins the list of its vector.
LEMMA BufferLists ==
  ASSUME TypeOK, PassedOK, LayoutOK, Pushed, Cells(folders) \subseteq SetFolders,
         NEW image, NEW ft, NEW pt, NEW nf, NEW np, IsBuffer(image, ft, pt, nf, np),
         NEW i \in 1..nf, Vector(ft[i]) # <<>>
  PROVE  \E s \in Seq(1..np) :
           IsListIn(image, np, image.folders[i].first, Len(Vector(ft[i])), s, pt,
                    Vector(ft[i]))
<1>0. PICK v, m, f, first : v = Vector(ft[i]) /\ m = Len(v) /\ f = ft[i]
                            /\ first = image.folders[i].first
  OBVIOUS
<1>1. /\ nf \in Nat /\ np \in Nat /\ np <= INVALID_INDEX /\ np = Len(image.paths)
      /\ f \in SetFolders /\ f \in Cells(folders)
      /\ first \in Nat /\ first + 1 \in 1..np /\ pt[first + 1] = v[1]
      /\ \A n, h \in 1..np : pt[n] = pt[h] => n = h
      /\ \A a \in 1..m : \E n \in 1..np : pt[n] = v[a]
  <2>1. /\ ft[i] \in SetFolders /\ ft[i] \in Cells(folders)
        /\ Vector(ft[i]) # <<>> =>
             /\ image.folders[i].first \in Nat
             /\ image.folders[i].first + 1 \in 1..np
             /\ pt[image.folders[i].first + 1] = Vector(ft[i])[1]
    BY Zenon DEF IsBuffer
  <2>2. /\ nf \in Nat /\ np \in Nat /\ np <= INVALID_INDEX /\ np = Len(image.paths)
        /\ \A n, h \in 1..np : pt[n] = pt[h] => n = h
        /\ \A g \in Cells(folders) : \A a \in 1..Len(Vector(g)) :
             \E n \in 1..np : pt[n] = Vector(g)[a]
    BY Zenon DEF IsBuffer
  <2> QED BY <1>0, <2>1, <2>2
<1>2. \A n \in 1..np :
        \/ path[pt[n]].next = None /\ image.paths[n].next = INVALID_INDEX
        \/ /\ image.paths[n].next \in Nat /\ image.paths[n].next + 1 \in 1..np
           /\ path[pt[n]].next = Resolved(pt[image.paths[n].next + 1])
  BY Zenon DEF IsBuffer
<1>3. m \in Nat /\ m >= 1 /\ \A a, b \in 1..m : v[a] = v[b] => a = b
  <2>1. v \in Seq(DOMAIN path) /\ \A a, b \in 1..m : v[a] = v[b] => a = b
    BY <1>0, <1>1, LayoutParts
  <2> QED BY <1>0, <2>1, LenProperties, EmptySeq
<1>4. \A a \in 1..m : path[v[a]].next = IF a < m THEN Resolved(v[a + 1]) ELSE None
  BY SMTT(30), <1>0, <1>1, BufferLinked
<1>5. PICK s : s = [a \in 1..m |-> CHOOSE n \in 1..np : pt[n] = v[a]]
  OBVIOUS
<1>6. \A a \in 1..m : s[a] \in 1..np /\ pt[s[a]] = v[a]
  BY <1>1, <1>5
<1>7. s \in Seq(1..np) /\ Len(s) = m
  <2>1. s \in [1..m -> 1..np] /\ DOMAIN s = 1..m
    BY <1>5, <1>6
  <2>2. \A S, x : x \in Nat /\ s \in [1..x -> S] => s \in Seq(S)
    BY SeqDef
  <2>3. s \in Seq(1..np)
    BY <1>3, <2>1, <2>2
  <2> QED BY <1>3, <2>1, <2>3, LenProperties
<1>8. s[1] = first + 1
  <2>1. 1 \in 1..m
    BY <1>3
  <2>2. s[1] \in 1..np /\ pt[s[1]] = v[1]
    BY <1>6, <2>1
  <2> QED BY <1>1, <2>2
<1>9. \A n, h \in 1..m : s[n] = s[h] => n = h
  <2>1. ASSUME NEW n \in 1..m, NEW h \in 1..m, s[n] = s[h] PROVE n = h
    <3>1. v[n] = v[h]
      BY <1>6, <2>1
    <3> QED BY <1>3, <3>1
  <2> QED BY <2>1
<1>10. ASSUME NEW a \in 1..m
       PROVE  image.paths[s[a]].next = IF a < m THEN s[a + 1] - 1 ELSE INVALID_INDEX
  <2>0. PICK n, x : n = s[a] /\ x = image.paths[n].next
    OBVIOUS
  <2>1. n \in 1..np /\ pt[n] = v[a]
    BY <1>6, <2>0
  <2>2. \/ path[v[a]].next = None /\ x = INVALID_INDEX
        \/ x \in Nat /\ x + 1 \in 1..np /\ path[v[a]].next = Resolved(pt[x + 1])
    BY <1>2, <2>0, <2>1
  <2>3. CASE a < m
    <3>1. a + 1 \in 1..m /\ path[v[a]].next = Resolved(v[a + 1])
      BY <1>3, <1>4, <2>3
    <3>2. x \in Nat /\ x + 1 \in 1..np /\ pt[x + 1] = v[a + 1]
      BY <2>2, <3>1, Kinds
    <3>3. s[a + 1] \in 1..np /\ pt[s[a + 1]] = v[a + 1]
      BY <1>6, <3>1
    <3>4. x + 1 = s[a + 1]
      BY <1>1, <3>2, <3>3
    <3> QED BY <2>0, <2>3, <3>2, <3>3, <3>4
  <2>4. CASE ~(a < m)
    <3>1. path[v[a]].next = None
      BY <1>4, <2>4
    <3>2. x = INVALID_INDEX
      BY <2>2, <3>1, Kinds
    <3> QED BY <2>0, <2>4, <3>2
  <2> QED BY <2>3, <2>4
<1>11. IsListAt(s, m, first, np, image.paths, pt, v)
  BY <1>6, <1>7, <1>8, <1>9, <1>10 DEF IsListAt
<1>12. IsListIn(image, np, first, m, s, pt, v)
  BY <1>1, <1>3, <1>11 DEF IsListIn
<1> QED
  BY <1>0, <1>7, <1>12

\* Its links are lists apart.
LEMMA BufferForest ==
  ASSUME TypeOK, PassedOK, LayoutOK, Pushed, Cells(folders) \subseteq SetFolders,
         NEW image, NEW ft, NEW pt, NEW nf, NEW np, IsBuffer(image, ft, pt, nf, np)
  PROVE  IsForest(image)
<1> DEFINE next(n) == image.paths[n].next
           first(i) == image.folders[i].first
           Follows(n, f, a, b) ==
             /\ f \in Cells(folders) /\ f \in SetFolders
             /\ a \in 1..Len(Vector(f)) /\ b \in 1..Len(Vector(f)) /\ b = a + 1
             /\ pt[n] = Vector(f)[a] /\ pt[next(n) + 1] = Vector(f)[b]
<1>1. /\ nf \in Nat /\ np \in Nat /\ np <= INVALID_INDEX
      /\ nf = Len(image.folders) /\ np = Len(image.paths)
      /\ \A i, h \in 1..nf : ft[i] = ft[h] => i = h
      /\ \A n, h \in 1..np : pt[n] = pt[h] => n = h
  BY Zenon DEF IsBuffer
<1>2. \A n \in 1..np :
        \/ path[pt[n]].next = None /\ next(n) = INVALID_INDEX
        \/ next(n) \in Nat /\ next(n) + 1 \in 1..np /\ path[pt[n]].next = Resolved(pt[next(n) + 1])
  BY Zenon DEF IsBuffer
<1>3. \A n \in 1..np :
        \E f \in Cells(folders) : \E a \in 1..Len(Vector(f)) : pt[n] = Vector(f)[a]
  BY Zenon DEF IsBuffer
<1>4. \A i \in 1..nf :
       /\ ft[i] \in SetFolders /\ ft[i] \in Cells(folders)
       /\ Vector(ft[i]) = <<>> => first(i) = INVALID_INDEX
       /\ Vector(ft[i]) # <<>> =>
            first(i) \in Nat /\ first(i) + 1 \in 1..np /\ pt[first(i) + 1] = Vector(ft[i])[1]
  BY Zenon DEF IsBuffer
<1>5. ASSUME NEW n \in 1..np, next(n) # INVALID_INDEX
      PROVE  \E f, a, b : Follows(n, f, a, b)
  <2>1. path[pt[n]].next = Resolved(pt[next(n) + 1])
    BY <1>2, <1>5
  <2>2. PICK f \in Cells(folders) : \E a \in 1..Len(Vector(f)) : pt[n] = Vector(f)[a]
    BY <1>3
  <2>3. PICK a \in 1..Len(Vector(f)) : pt[n] = Vector(f)[a]
    BY <2>2
  <2>4. path[pt[n]].next = IF a < Len(Vector(f)) THEN Resolved(Vector(f)[a + 1]) ELSE None
    BY <2>3, BufferLinked
  <2>5. Len(Vector(f)) \in Nat
    BY LayoutParts
  <2>6. a < Len(Vector(f)) /\ pt[next(n) + 1] = Vector(f)[a + 1]
    <3>1. a < Len(Vector(f))
      BY <2>1, <2>4, Kinds
    <3> QED BY <2>1, <2>4, <3>1, Kinds
  <2>7. \A b : b = a + 1 => Follows(n, f, a, b)
    BY <2>3, <2>5, <2>6
  <2> QED BY <2>7
<1>6. ASSUME NEW m \in 1..np, NEW n \in 1..np, next(m) = next(n), next(m) # INVALID_INDEX
      PROVE  m = n
  <2>1. next(n) # INVALID_INDEX
    BY <1>6
  <2>2. PICK f, a, b : Follows(m, f, a, b)
    BY <1>5, <1>6
  <2>3. PICK g, c, d : Follows(n, g, c, d)
    BY <1>5, <2>1
  <2>4. Vector(f)[b] = Vector(g)[d]
    BY <1>6, <2>2, <2>3
  <2>5. f = g /\ b = d
    BY <2>2, <2>3, <2>4, PushedApart
  <2>6. pt[m] = pt[n]
    BY <2>2, <2>3, <2>5
  <2> QED BY <1>1, <2>6
<1>7. ASSUME NEW i \in 1..nf, first(i) # INVALID_INDEX
      PROVE  /\ ft[i] \in SetFolders /\ ft[i] \in Cells(folders)
             /\ 1 \in 1..Len(Vector(ft[i])) /\ pt[first(i) + 1] = Vector(ft[i])[1]
  <2>1. ft[i] \in SetFolders /\ ft[i] \in Cells(folders) /\ Vector(ft[i]) # <<>>
        /\ pt[first(i) + 1] = Vector(ft[i])[1]
    BY <1>4, <1>7
  <2>2. Vector(ft[i]) \in Seq(DOMAIN path)
    BY <2>1, LayoutParts
  <2> QED BY <2>1, <2>2, LenProperties, EmptySeq
<1>8. ASSUME NEW i \in 1..nf, NEW h \in 1..nf, first(i) = first(h), first(i) # INVALID_INDEX
      PROVE  i = h
  <2>1. Vector(ft[i])[1] = Vector(ft[h])[1]
    BY <1>7, <1>8
  <2>2. ft[i] = ft[h]
    BY <1>7, <1>8, <2>1, PushedApart
  <2> QED BY <1>1, <2>2
<1>9. ASSUME NEW i \in 1..nf, NEW n \in 1..np, first(i) = next(n), first(i) # INVALID_INDEX
      PROVE  FALSE
  <2>1. PICK f, a, b : Follows(n, f, a, b)
    BY <1>5, <1>9
  <2>2. Vector(ft[i])[1] = Vector(f)[b]
    BY <1>7, <1>9, <2>1
  <2>3. 1 = b
    BY <1>7, <1>9, <2>1, <2>2, PushedApart
  <2> QED BY <2>1, <2>3
<1> QED
  BY <1>1, <1>6, <1>8, <1>9 DEF IsForest

\* Each entry is in the list of a folder.
LEMMA BufferListed ==
  ASSUME TypeOK, PassedOK, LayoutOK, Pushed, Cells(folders) \subseteq SetFolders,
         NEW image, NEW ft, NEW pt, NEW nf, NEW np, IsBuffer(image, ft, pt, nf, np),
         NEW n \in 1..np
  PROVE  \E i \in 1..nf : n \in EntriesFrom(image, image.folders[i].first)
<1>1. PICK f \in Cells(folders) : \E a \in 1..Len(Vector(f)) : pt[n] = Vector(f)[a]
  BY Zenon DEF IsBuffer
<1>2. PICK a \in 1..Len(Vector(f)) : pt[n] = Vector(f)[a]
  BY <1>1
<1>3. PICK i \in 1..nf : f = ft[i]
  BY Zenon DEF IsBuffer
<1>4. np \in Nat /\ np = Len(image.paths) /\ \A m, h \in 1..np : pt[m] = pt[h] => m = h
  BY Zenon DEF IsBuffer
<1>5. PICK v, m, first : v = Vector(ft[i]) /\ m = Len(v) /\ first = image.folders[i].first
  OBVIOUS
<1>6. m \in Nat /\ a \in 1..m /\ v # <<>>
  <2>1. v \in Seq(DOMAIN path)
    BY <1>3, <1>5, LayoutParts
  <2> QED BY <1>2, <1>3, <1>5, <2>1, LenProperties, EmptySeq
<1>7. PICK s \in Seq(1..np) : IsListIn(image, np, first, m, s, pt, v)
  BY <1>5, <1>6, BufferLists
<1>8. s[a] = n
  <2>1. s[a] \in 1..np /\ pt[s[a]] = v[a]
    BY <1>6, <1>7 DEF IsListIn, IsListAt
  <2> QED BY <1>2, <1>3, <1>4, <1>5, <2>1
<1>9. /\ \A l \in 0..np : Hops(image, first)[l]
                            = IF l < m THEN s[l + 1] - 1 ELSE INVALID_INDEX
      /\ {l \in 0..np : Hops(image, first)[l] < np} = 0..(m - 1)
  BY <1>7, HopsOfList
<1>10. /\ a - 1 \in {l \in 0..np : Hops(image, first)[l] < np}
       /\ Hops(image, first)[a - 1] + 1 = n
  <2>1. a - 1 \in 0..(m - 1)
    BY <1>6
  <2>2. a - 1 \in {l \in 0..np : Hops(image, first)[l] < np}
    BY <1>9, <2>1
  <2>3. a - 1 \in 0..np /\ a - 1 < m /\ (a - 1) + 1 = a
    BY <1>6, <2>2
  <2>4. Hops(image, first)[a - 1] = s[a] - 1
    BY <1>9, <2>3
  <2> QED BY <1>8, <2>2, <2>4
<1>11. n \in {Hops(image, first)[l] + 1 : l \in {h \in 0..np : Hops(image, first)[h] < np}}
  BY <1>10
<1>12. n \in EntriesFrom(image, first)
  BY <1>4, <1>11 DEF EntriesFrom
<1> QED
  BY <1>5, <1>12

\* Its keys are the paths of its entries, and none is the padding's.
LEMMA BufferKeys ==
  ASSUME TypeOK, PathsFound,
         NEW image, NEW ft, NEW pt, NEW nf, NEW np, IsBuffer(image, ft, pt, nf, np)
  PROVE  /\ {image.paths[n].fullPath : n \in 1..Len(image.paths)} = image.pathKeys
         /\ Plain(image)
<1>1. /\ np = Len(image.paths) /\ np <= INVALID_INDEX
      /\ image.pathKeys = DOMAIN pathLookup
      /\ \A n \in 1..np : /\ pt[n] \in DOMAIN path
                          /\ image.paths[n].fullPath = path[pt[n]].fullPath
      /\ \A p \in DOMAIN pathLookup : \E n \in 1..np : pt[n] = pathLookup[p]
  BY Zenon DEF IsBuffer
<1>2. \A n \in 1..np : image.paths[n].fullPath \in DOMAIN pathLookup
  BY <1>1 DEF PathsFound
<1>3. ASSUME NEW p \in DOMAIN pathLookup PROVE \E n \in 1..np : image.paths[n].fullPath = p
  <2>1. PICK n \in 1..np : pt[n] = pathLookup[p]
    BY <1>1, <1>3
  <2>2. image.paths[n].fullPath = path[pathLookup[p]].fullPath
    BY <1>1, <2>1
  <2> QED BY <1>3, <2>2 DEF PathsFound
<1>4. Plain(image)
  BY <1>1, <1>2 DEF Plain, PathsFound
<1>5. {image.paths[n].fullPath : n \in 1..np} = DOMAIN pathLookup
  BY <1>2, <1>3
<1> QED
  BY <1>1, <1>4, <1>5

\* A list that begins outside the table is empty.
LEMMA NoList ==
  ASSUME NEW image, NEW n \in Nat, n = Len(image.paths), NEW first \in Nat, n <= first
  PROVE  ListFrom(image, first) = <<>>
<1>0. PICK h : h = Hops(image, first)
  OBVIOUS
<1>1. /\ h[0] = first
      /\ \A i \in 1..n : h[i] = IF h[i - 1] < n THEN image.paths[h[i - 1] + 1].next
                                ELSE h[i - 1]
  <2>1. IsHops(h, n, first, image.paths)
    BY <1>0, HopsAre
  <2> QED BY <2>1, HopsGoOn
<1>2. {i \in 0..n : h[i] < n} = {}
  <2> DEFINE T == {i \in 0..n : h[i] < n}
  <2>1. SUFFICES ASSUME T # {} PROVE FALSE
    OBVIOUS
  <2>2. PICK i \in T : \A m \in T : ~(m < i)
    <3>1. T \subseteq Nat
      OBVIOUS
    <3> HIDE DEF T
    <3> QED BY <2>1, <3>1, FirstOf
  <2>3. i \in 0..n /\ h[i] < n
    BY <2>2
  <2>4. i # 0
    BY <1>1, <2>3
  <2>5. i - 1 \in 0..n /\ i - 1 < i
    BY <2>3, <2>4
  <2>6. ~(h[i - 1] < n)
    BY <2>2, <2>5
  <2>7. h[i] = h[i - 1]
    BY <1>1, <2>3, <2>4, <2>6
  <2> QED BY <2>3, <2>6, <2>7
<1>3. Cardinality({i \in 0..n : h[i] < n}) = 0
  BY <1>2, FS_EmptySet
<1>4. ListFrom(image, first) = [i \in 1..0 |-> image.paths[h[i - 1] + 1].fullPath]
  BY <1>0, <1>3 DEF ListFrom
<1> QED
  BY <1>4

\* What is buffered shows what the engine shows.
LEMMA BufferShown ==
  ASSUME TypeOK, PassedOK, LayoutOK, Pushed, Cells(folders) \subseteq SetFolders,
         NEW image, NEW ft, NEW pt, NEW nf, NEW np, IsBuffer(image, ft, pt, nf, np)
  PROVE  {<<image.folders[i].fullPath, ListFrom(image, image.folders[i].first)>> :
            i \in 1..Len(image.folders)}
           = {<<folder[f].fullPath, ChildPaths(f)>> : f \in Cells(folders)}
<1>1. /\ nf = Len(image.folders)
      /\ np \in Nat /\ np = Len(image.paths) /\ np <= INVALID_INDEX
      /\ \A f \in Cells(folders) : \E i \in 1..nf : f = ft[i]
  BY Zenon DEF IsBuffer
<1>2. \A i \in 1..nf :
       /\ ft[i] \in SetFolders /\ ft[i] \in Cells(folders)
       /\ image.folders[i].fullPath = folder[ft[i]].fullPath
       /\ Vector(ft[i]) = <<>> => image.folders[i].first = INVALID_INDEX
  BY Zenon DEF IsBuffer
<1>3. \A n \in 1..np : path[pt[n]].fullPath = image.paths[n].fullPath
  BY Zenon DEF IsBuffer
<1>4. ASSUME NEW i \in 1..nf
      PROVE  ListFrom(image, image.folders[i].first) = ChildPaths(ft[i])
  <2>1. PICK v, m, first : v = Vector(ft[i]) /\ m = Len(v) /\ first = image.folders[i].first
    OBVIOUS
  <2>2. ChildPaths(ft[i]) = NamesOf(path, v, m)
    BY <2>1 DEF ChildPaths, NamesOf, Vector
  <2>3. CASE v = <<>>
    <3>1. m = 0 /\ first = INVALID_INDEX
      BY <1>2, <2>1, <2>3
    <3>2. ListFrom(image, first) = <<>>
      BY <1>1, <3>1, NoList DEF INVALID_INDEX
    <3>3. NamesOf(path, v, m) = <<>>
      BY <3>1 DEF NamesOf
    <3> QED BY <2>1, <2>2, <3>2, <3>3
  <2>4. CASE v # <<>>
    <3>1. PICK s \in Seq(1..np) : IsListIn(image, np, first, m, s, pt, v)
      BY <2>1, <2>4, BufferLists
    <3>2. ListFrom(image, first) = NamesOf(path, v, m)
      BY <1>3, <3>1, ListOfCells
    <3> QED BY <2>1, <2>2, <3>2
  <2> QED BY <2>3, <2>4
<1> QED
  BY SMTT(30), <1>1, <1>2, <1>4

\* Its lists end: a list of cells that ends, ends as a list of their entries.
LEMMA BufferEndsAsCells ==
  ASSUME TypeOK, CellsEnd,
         NEW image, NEW ft, NEW pt, NEW nf, NEW np, IsBuffer(image, ft, pt, nf, np)
  PROVE  LinksEnd(image.paths)
<1>1. /\ np = Len(image.paths) /\ np \in Nat /\ np <= INVALID_INDEX
      /\ \A n \in 1..np : pt[n] \in DOMAIN path
      /\ \A n \in 1..np :
        \/ path[pt[n]].next = None /\ image.paths[n].next = INVALID_INDEX
        \/ /\ image.paths[n].next \in Nat /\ image.paths[n].next + 1 \in 1..np
           /\ path[pt[n]].next = Resolved(pt[image.paths[n].next + 1])
  BY Zenon DEF IsBuffer
<1>2. SUFFICES ASSUME NEW S \in SUBSET (1..np), S # {}
               PROVE  \E n \in S : image.paths[n].next + 1 \notin S
  BY <1>1 DEF LinksEnd
<1> DEFINE C == {pt[n] : n \in S}
<1>3. C \subseteq DOMAIN path /\ C # {}
  BY ZenonT(40), <1>1, <1>2
<1>4. PICK c \in C : After[c] \cap C = {}
  <2> HIDE DEF C
  <2> QED BY <1>3 DEF CellsEnd
<1>5. PICK n \in S : c = pt[n]
  BY <1>4
<1>6. n \in 1..np
  BY <1>2
<1>7. ASSUME image.paths[n].next + 1 \in S PROVE FALSE
  <2>0. PICK x : x = image.paths[n].next
    OBVIOUS
  <2>1. x + 1 \in S /\ x + 1 \in 1..np
    BY <1>2, <1>7, <2>0
  <2>2. x # INVALID_INDEX
    BY <1>1, <2>1 DEF INVALID_INDEX
  <2>3. path[c].next = Resolved(pt[x + 1])
    BY <1>1, <1>5, <1>6, <2>0, <2>2
  <2>4. pt[x + 1] \in C /\ pt[x + 1] \in DOMAIN path
    BY <1>1, <2>1
  <2>5. pt[x + 1] \in After[c]
    BY <1>3, <1>4, <2>3, <2>4, AfterIs
  <2> QED BY <1>4, <2>4, <2>5
<1> QED
  BY <1>5, <1>7

\* And so it does if vectors and links agree: of the entries of one vector there
\* is a last one.
LEMMA BufferEndsAsVectors ==
  ASSUME TypeOK, PassedOK, LayoutOK, Pushed, Cells(folders) \subseteq SetFolders,
         NEW image, NEW ft, NEW pt, NEW nf, NEW np, IsBuffer(image, ft, pt, nf, np)
  PROVE  LinksEnd(image.paths)
<1>1. /\ np = Len(image.paths) /\ np \in Nat /\ np <= INVALID_INDEX
      /\ \A n, h \in 1..np : pt[n] = pt[h] => n = h
      /\ \A n \in 1..np :
        \/ path[pt[n]].next = None /\ image.paths[n].next = INVALID_INDEX
        \/ /\ image.paths[n].next \in Nat /\ image.paths[n].next + 1 \in 1..np
           /\ path[pt[n]].next = Resolved(pt[image.paths[n].next + 1])
  BY Zenon DEF IsBuffer
<1>2. SUFFICES ASSUME NEW S \in SUBSET (1..np), S # {}
               PROVE  \E n \in S : image.paths[n].next + 1 \notin S
  BY <1>1 DEF LinksEnd
<1>3. PICK n0 \in S : TRUE
  BY <1>2
<1>4. PICK f \in Cells(folders) : \E a \in 1..Len(Vector(f)) : pt[n0] = Vector(f)[a]
  <2>1. n0 \in 1..np
    BY <1>2
  <2> QED BY <2>1, Zenon DEF IsBuffer
<1>5. PICK m, v : m = Len(v) /\ v = Vector(f)
  OBVIOUS
<1>6. m \in Nat
  BY <1>5, LayoutParts
<1> DEFINE T == {l \in 0..m : \E a \in 1..m, n \in S : pt[n] = v[a] /\ l = m - a}
<1>7. T \subseteq Nat /\ T # {}
  <2>1. PICK a \in 1..m : pt[n0] = v[a]
    BY <1>4, <1>5
  <2>2. m - a \in 0..m
    BY <1>6
  <2>3. m - a \in T
    BY <1>3, <2>1, <2>2
  <2> QED BY <2>3
<1>8. PICK l \in T : \A h \in T : ~(h < l)
  <2> HIDE DEF T
  <2> QED BY <1>7, FirstOf
<1>9. PICK a \in 1..m, n \in S : pt[n] = v[a] /\ l = m - a
  BY <1>8
<1>10. n \in 1..np
  BY <1>2
<1>11. path[v[a]].next = IF a < m THEN Resolved(v[a + 1]) ELSE None
  BY <1>5, BufferLinked
<1>12. ASSUME image.paths[n].next + 1 \in S PROVE FALSE
  <2>0. PICK x : x = image.paths[n].next
    OBVIOUS
  <2>1. x + 1 \in S /\ x + 1 \in 1..np
    BY <1>2, <1>12, <2>0
  <2>2. x # INVALID_INDEX
    BY <1>1, <2>1 DEF INVALID_INDEX
  <2>3. path[v[a]].next = Resolved(pt[x + 1])
    BY <1>1, <1>9, <1>10, <2>0, <2>2
  <2>4. a < m
    BY <1>11, <2>3, Kinds
  <2>5. pt[x + 1] = v[a + 1]
    BY <1>11, <2>3, <2>4, Kinds
  <2>6. a + 1 \in 1..m /\ m - (a + 1) \in 0..m /\ m - (a + 1) < l
    BY <1>6, <1>9, <2>4
  <2>7. m - (a + 1) \in T
    BY <2>1, <2>5, <2>6
  <2> QED BY <1>8, <2>6, <2>7
<1> QED
  BY <1>9, <1>12

\* What a client's edits keep, a save buffers.
LEMMA BufferParts ==
  ASSUME EditTypeOK, MakersOK, PassedOK, PathsFound, BufferImage,
         client.edits = "any" => CellsEnd, client.edits # "any" => LayoutOK
  PROVE  /\ Plain(buffer)' /\ LinksEnd(buffer'.paths)
         /\ client.edits # "any" =>
              /\ Complete(buffer)'
              /\ {<<buffer'.folders[i].fullPath,
                    ListFrom(buffer', buffer'.folders[i].first)>> :
                    i \in 1..Len(buffer'.folders)}
                   = {<<folder[f].fullPath, ChildPaths(f)>> : f \in Cells(folders)}
<1>1. Pushed /\ Serialisable /\ pc = "push" /\ buffer' = WrittenImage
  BY DEF BufferImage, Pushed
<1>2. TypeOK
  BY <1>1 DEF EditTypeOK
<1>3. PICK image : image = buffer'
  OBVIOUS
<1>4. image = WrittenImage
  BY <1>1, <1>3
<1>5. Cells(folders) \subseteq SetFolders
      /\ \E ft, pt, nf, np : IsBuffer(image, ft, pt, nf, np)
  BY <1>1, <1>2, <1>4, BufferWritten
<1>6. PICK ft, pt, nf, np : IsBuffer(image, ft, pt, nf, np)
  BY <1>5
<1>7. /\ {image.paths[n].fullPath : n \in 1..Len(image.paths)} = image.pathKeys
      /\ Plain(image)
  BY <1>2, <1>6, BufferKeys
<1>8. LinksEnd(image.paths)
  <2>1. CASE client.edits = "any"
    BY <1>2, <1>6, <2>1, BufferEndsAsCells
  <2>2. CASE client.edits # "any"
    BY <1>1, <1>2, <1>5, <1>6, <2>2, BufferEndsAsVectors
  <2> QED BY <2>1, <2>2
<1>9. ASSUME client.edits # "any"
      PROVE  /\ Complete(image)
             /\ {<<image.folders[i].fullPath, ListFrom(image, image.folders[i].first)>> :
                   i \in 1..Len(image.folders)}
                  = {<<folder[f].fullPath, ChildPaths(f)>> : f \in Cells(folders)}
  <2>1. IsForest(image)
    BY <1>1, <1>2, <1>5, <1>6, <1>9, BufferForest
  <2>2. nf = Len(image.folders) /\ np = Len(image.paths)
    BY <1>6, Zenon DEF IsBuffer
  <2>3. ASSUME NEW n \in 1..np
        PROVE  \E i \in 1..nf : n \in EntriesFrom(image, image.folders[i].first)
    BY <1>1, <1>2, <1>5, <1>6, <1>9, <2>3, BufferListed
  <2>4. Complete(image)
    BY <1>7, <2>1, <2>2, <2>3 DEF Complete
  <2>5. {<<image.folders[i].fullPath, ListFrom(image, image.folders[i].first)>> :
           i \in 1..Len(image.folders)}
          = {<<folder[f].fullPath, ChildPaths(f)>> : f \in Cells(folders)}
    BY <1>1, <1>2, <1>5, <1>6, <1>9, BufferShown
  <2> QED BY <2>4, <2>5
<1>10. Plain(buffer') /\ (client.edits # "any" => Complete(buffer'))
  BY <1>3, <1>7, <1>9
<1> QED
  BY <1>3, <1>8, <1>9, <1>10 DEF Plain, Complete

-----------------------------------------------------------------------------
(* Lists that end.                                                         *)

\* Of one more index than there are entries two are the same.
LEMMA TwoAlike ==
  ASSUME NEW n \in Nat, NEW h, \A i \in 0..n : h[i] \in 0..(n - 1)
  PROVE  \E a, b \in 0..n : a < b /\ h[a] = h[b]
<1> SUFFICES ASSUME \A a, b \in 0..n : a < b => h[a] # h[b] PROVE FALSE
  OBVIOUS
<1>1. PICK s : s = [i \in 1..(n + 1) |-> h[i - 1]]
  OBVIOUS
<1>2. PICK t : t = [i \in 1..n |-> i - 1]
  OBVIOUS
<1>3. s \in Seq(0..(n - 1)) /\ Len(s) = n + 1
      /\ \A i \in 1..(n + 1) : s[i] = h[i - 1] /\ i - 1 \in 0..n
  <2>1. \A i \in 1..(n + 1) : s[i] = h[i - 1] /\ i - 1 \in 0..n /\ s[i] \in 0..(n - 1)
    BY <1>1
  <2>2. s \in [1..(n + 1) -> 0..(n - 1)] /\ DOMAIN s = 1..(n + 1)
    BY <1>1, <2>1
  <2>3. \A S, x : x \in Nat /\ s \in [1..x -> S] => s \in Seq(S)
    BY SeqDef
  <2>4. s \in Seq(0..(n - 1))
    BY <2>2, <2>3
  <2> QED BY <2>1, <2>2, <2>4, LenProperties
<1>4. Len(t) = n /\ \A i \in 1..n : t[i] = i - 1
  <2>1. \A i \in 1..n : t[i] = i - 1 /\ t[i] \in Nat
    BY <1>2
  <2>2. t \in [1..n -> Nat] /\ DOMAIN t = 1..n
    BY <1>2, <2>1
  <2>3. \A S, x : x \in Nat /\ t \in [1..x -> S] => t \in Seq(S)
    BY SeqDef
  <2>4. t \in Seq(Nat)
    BY <2>2, <2>3
  <2> QED BY <2>1, <2>2, <2>4, LenProperties
<1>5. \A i, l \in 1..Len(s) : s[i] = s[l] => i = l
  <2>1. ASSUME NEW i \in 1..(n + 1), NEW l \in 1..(n + 1), s[i] = s[l], i # l PROVE FALSE
    <3>1. h[i - 1] = h[l - 1] /\ i - 1 \in 0..n /\ l - 1 \in 0..n
      BY <1>3, <2>1
    <3>2. i - 1 < l - 1 \/ l - 1 < i - 1
      BY <2>1
    <3> QED BY <3>1, <3>2
  <2> QED BY <1>3, <2>1
<1>6. Cells(s) \subseteq Cells(t)
  <2>1. ASSUME NEW x \in Cells(s) PROVE x \in Cells(t)
    <3>1. x \in 0..(n - 1)
      BY <1>3, <2>1, CellsOfSeq
    <3>2. x + 1 \in 1..n /\ t[x + 1] = x
      BY <1>4, <3>1
    <3> QED BY <1>4, <3>2 DEF Cells
  <2> QED BY <2>1
<1>7. Len(s) <= Len(t)
  <2>1. Len(s) \in Nat /\ Len(t) \in Nat
    BY <1>3, <1>4
  <2> QED BY <1>5, <1>6, <2>1, NoLonger
<1> QED
  BY <1>3, <1>4, <1>7

\* A list that goes on for as many hops as there are entries comes back to one.
LEMMA EndOfLinks ==
  ASSUME NEW image, image \in Image, LinksEnd(image.paths), NEW first \in Nat
  PROVE  Hops(image, first)[Len(image.paths)] >= Len(image.paths)
<1>0. PICK n, h : n = Len(image.paths) /\ h = Hops(image, first)
  OBVIOUS
<1>1. n \in Nat /\ \A i \in 1..n : image.paths[i].next \in Nat
  <2>1. image.paths \in Seq(PathEntry)
    BY DEF Image
  <2>2. n \in Nat
    BY <1>0, <2>1, LenProperties
  <2>3. ASSUME NEW i \in 1..n PROVE image.paths[i].next \in Nat
    <3>1. image.paths[i] \in PathEntry
      BY <1>0, <2>1, ElementOfSeq
    <3> QED BY <3>1 DEF PathEntry
  <2> QED BY <2>2, <2>3
<1>2. /\ h[0] = first
      /\ \A i \in 1..n : h[i] = IF h[i - 1] < n THEN image.paths[h[i - 1] + 1].next
                                ELSE h[i - 1]
  <2>1. IsHops(h, n, first, image.paths)
    BY <1>0, <1>1, HopsAre
  <2> QED BY <1>1, <2>1, HopsGoOn
<1>3. \A i \in 0..n : h[i] \in Nat
  <2> DEFINE T == {i \in 0..n : h[i] \notin Nat}
  <2>1. SUFFICES ASSUME T # {} PROVE FALSE
    OBVIOUS
  <2>2. PICK i \in T : \A m \in T : ~(m < i)
    <3>1. T \subseteq Nat
      OBVIOUS
    <3> HIDE DEF T
    <3> QED BY <2>1, <3>1, FirstOf
  <2>3. i \in 1..n
    BY <1>2, <2>2
  <2>4. i - 1 \in 0..n /\ i - 1 < i
    BY <1>1, <2>3
  <2>5. h[i - 1] \in Nat
    BY <2>2, <2>4
  <2>6. CASE h[i - 1] < n
    <3>1. h[i - 1] + 1 \in 1..n
      BY <1>1, <2>5, <2>6
    <3>2. h[i] \in Nat
      BY <1>1, <1>2, <2>3, <2>6, <3>1
    <3> QED BY <2>2, <3>2
  <2>7. CASE ~(h[i - 1] < n)
    BY <1>2, <2>2, <2>3, <2>5, <2>7
  <2> QED BY <2>6, <2>7
<1>4. SUFFICES ASSUME ~(h[n] >= n) PROVE FALSE
  BY <1>0
<1>5. h[n] < n
  BY <1>1, <1>3, <1>4
<1>6. \A i \in 0..n : h[i] < n
  <2> DEFINE T == {l \in 0..n : ~(h[n - l] < n)}
  <2>1. SUFFICES ASSUME T # {} PROVE FALSE
    <3>1. ASSUME NEW i \in 0..n, ~(h[i] < n) PROVE FALSE
      <4>1. n - i \in 0..n /\ n - (n - i) = i
        BY <1>1
      <4> QED BY <2>1, <3>1, <4>1
    <3> QED BY <3>1
  <2>2. PICK l \in T : \A m \in T : ~(m < l)
    <3>1. T \subseteq Nat
      OBVIOUS
    <3> HIDE DEF T
    <3> QED BY <2>1, <3>1, FirstOf
  <2>3. PICK i : i = n - l
    OBVIOUS
  <2>4. l \in 0..n /\ i \in 0..n /\ ~(h[i] < n)
    BY <1>1, <2>2, <2>3
  <2>5. l # 0
    <3>1. l = 0 => i = n
      BY <1>1, <2>3
    <3> QED BY <1>5, <2>4, <3>1
  <2>6. l - 1 \in 0..n /\ l - 1 < l /\ n - (l - 1) = i + 1
    BY <1>1, <2>3, <2>4, <2>5
  <2>7. h[i + 1] < n
    BY <2>2, <2>6
  <2>8. i + 1 \in 1..n /\ (i + 1) - 1 = i
    BY <1>1, <2>3, <2>4, <2>5
  <2>9. h[i + 1] = h[i]
    BY <1>2, <2>4, <2>8
  <2> QED BY <2>4, <2>7, <2>9
<1>7. \A i \in 0..n : h[i] \in 0..(n - 1)
  BY <1>1, <1>3, <1>6
<1>8. PICK a \in 0..n, b \in 0..n : a < b /\ h[a] = h[b]
  BY <1>1, <1>7, TwoAlike
<1> DEFINE S == {h[i] + 1 : i \in a..(b - 1)}
<1>9. S \subseteq 1..n /\ S # {}
  <2>1. ASSUME NEW i \in a..(b - 1) PROVE h[i] + 1 \in 1..n
    <3>1. i \in 0..n
      <4>1. a \in Nat /\ b \in Nat /\ a <= n /\ b <= n /\ i \in Int /\ a <= i /\ i <= b - 1
        BY <1>1, <2>1
      <4> QED BY <1>1, <4>1
    <3>2. h[i] \in 0..(n - 1)
      BY <1>7, <3>1
    <3> QED BY <1>1, <3>2
  <2>2. a \in a..(b - 1)
    BY <1>8
  <2> QED BY <2>1, <2>2
<1>10. PICK c \in S : image.paths[c].next + 1 \notin S
  <2> HIDE DEF S
  <2> QED BY <1>0, <1>9 DEF LinksEnd
<1>11. PICK i \in a..(b - 1) : c = h[i] + 1
  BY <1>10
<1>12. i + 1 \in 1..n /\ (i + 1) - 1 = i /\ i \in 0..n /\ i + 1 \in a..b
  BY <1>1, <1>8, <1>11
<1>13. h[i + 1] = image.paths[c].next
  BY <1>2, <1>6, <1>11, <1>12
<1>14. h[i + 1] + 1 \in S
  <2>1. CASE i + 1 = b
    <3>1. h[i + 1] = h[a] /\ a \in a..(b - 1)
      BY <1>8, <2>1
    <3> QED BY <3>1
  <2>2. CASE i + 1 # b
    <3>1. i + 1 \in a..(b - 1)
      BY <1>8, <1>12, <2>2
    <3> QED BY <3>1
  <2> QED BY <2>1, <2>2
<1> QED
  BY <1>10, <1>13, <1>14

-----------------------------------------------------------------------------
(* A session that follows no failed save is a careful client's.            *)

\* What the links anew of a vector leave: each cell of a vector is followed by
\* the next one, and what no folder lists goes on to no child.
LEMMA RelinkedVectors ==
  ASSUME TypeOK, Linked, Settled, pc = "idle", client.edits # "any",
         NEW f \in DOMAIN folder, NEW cells, Rearranges(f, cells),
         NEW W, W = [g \in DOMAIN folder |-> IF g = f THEN cells ELSE Vector(g)]
  PROVE  /\ \A g \in DOMAIN folder :
              /\ W[g] \in Seq(DOMAIN path) /\ Len(W[g]) \in Nat
              /\ \A a \in 1..Len(W[g]) : W[g][a] \in DOMAIN path
         /\ \A g, h \in DOMAIN folder : \A a \in 1..Len(W[g]), b \in 1..Len(W[h]) :
              W[g][a] = W[h][b] => g = h /\ a = b
         /\ \A g \in DOMAIN folder : \A a \in 1..Len(W[g]) :
              path'[W[g][a]].next = IF a < Len(W[g]) THEN Resolved(W[g][a + 1]) ELSE None
         /\ \A c \in DOMAIN path :
              (\A g \in DOMAIN folder : \A a \in 1..Len(W[g]) : c # W[g][a]) =>
                /\ path'[c].next = path[c].next
                /\ \A g \in DOMAIN folder : \A a \in 1..Len(W[g]) :
                     path[c].next # Resolved(W[g][a])
<1>1. \A g \in DOMAIN folder :
        /\ IsSet(folder[g].children) /\ Collected(g) = Vector(g)
        /\ Vector(g) \in Seq(DOMAIN path) /\ Len(Vector(g)) \in Nat
        /\ \A a \in 1..Len(Vector(g)) :
             Vector(g)[a] \in DOMAIN path /\ Vector(g)[a] \in Cells(Vector(g))
        /\ \A c \in Cells(Vector(g)) : \E a \in 1..Len(Vector(g)) : c = Vector(g)[a]
  <2>1. ASSUME NEW g \in DOMAIN folder
        PROVE  IsSet(folder[g].children) /\ Collected(g) = Vector(g)
    BY AllSet DEF Vector
  <2>2. ASSUME NEW g \in DOMAIN folder
        PROVE  /\ Vector(g) \in Seq(DOMAIN path) /\ Len(Vector(g)) \in Nat
               /\ \A a \in 1..Len(Vector(g)) :
                    Vector(g)[a] \in DOMAIN path /\ Vector(g)[a] \in Cells(Vector(g))
               /\ \A c \in Cells(Vector(g)) : \E a \in 1..Len(Vector(g)) : c = Vector(g)[a]
    BY <2>1, VectorType
  <2> QED BY <2>1, <2>2
<1>2. /\ cells \in Seq(DOMAIN path) /\ Len(cells) = Len(Vector(f))
      /\ \A a, b \in 1..Len(cells) : cells[a] = cells[b] => a = b
      /\ Cells(cells) = Cells(Vector(f)) /\ LastOf(cells) = LastOf(Vector(f))
  BY DEF Rearranges
<1>3. /\ client.edits = "linked" /\ ~(client.edits = "any")
      /\ \A i \in 1..(Len(cells) - 1) : path'[cells[i]].next = Resolved(cells[i + 1])
      /\ \A c \in DOMAIN path :
           (\A i \in 1..(Len(cells) - 1) : cells[i] # c) => path'[c].next = path[c].next
  <2>1. client.edits = "linked"
    BY DEF Rearranges
  <2> QED BY <2>1, RearrangesFolders
<1>4. /\ \A g, h \in DOMAIN folder : \A a \in 1..Len(Vector(g)), b \in 1..Len(Vector(h)) :
           Vector(g)[a] = Vector(h)[b] => g = h /\ a = b
      /\ \A g \in DOMAIN folder : \A a \in 1..(Len(Vector(g)) - 1) :
           path[Vector(g)[a]].next = Resolved(Vector(g)[a + 1])
      /\ \A g \in DOMAIN folder : Vector(g) # <<>> => path[LastOf(Vector(g))].next = None
      /\ \A g \in DOMAIN folder, c \in DOMAIN path :
           Vector(g) # <<>> => path[c].next # Resolved(Vector(g)[1])
  <2>1. CollectedOnce /\ FollowsLinks /\ EndsWithNone /\ FirstsFollowNone
    BY DEF Linked
  <2>2. \A g, h \in DOMAIN folder : \A a \in 1..Len(Vector(g)), b \in 1..Len(Vector(h)) :
           Vector(g)[a] = Vector(h)[b] => g = h /\ a = b
    <3>1. ASSUME NEW g \in DOMAIN folder, NEW h \in DOMAIN folder,
                 NEW v, v = Vector(g), NEW w, w = Vector(h),
                 NEW a \in 1..Len(v), NEW b \in 1..Len(w), v[a] = w[b]
          PROVE  g = h /\ a = b
      <4>1. Collected(g) = v /\ Collected(h) = w
        BY <1>1, <3>1
      <4> QED BY <2>1, <3>1, <4>1, ZenonT(40) DEF CollectedOnce
    <3> QED BY <3>1
  <2>3. \A g \in DOMAIN folder : \A a \in 1..(Len(Vector(g)) - 1) :
           path[Vector(g)[a]].next = Resolved(Vector(g)[a + 1])
    <3>1. ASSUME NEW g \in DOMAIN folder, NEW v, v = Vector(g), NEW a \in 1..(Len(v) - 1)
          PROVE  path[v[a]].next = Resolved(v[a + 1])
      <4>1. Collected(g) = v
        BY <1>1, <3>1
      <4> QED BY <2>1, <3>1, <4>1, Zenon DEF FollowsLinks
    <3> QED BY <3>1
  <2>4. \A g \in DOMAIN folder : Vector(g) # <<>> => path[LastOf(Vector(g))].next = None
    BY <1>1, <2>1, Zenon DEF EndsWithNone
  <2>5. \A g \in DOMAIN folder, c \in DOMAIN path :
           Vector(g) # <<>> => path[c].next # Resolved(Vector(g)[1])
    BY <1>1, <2>1, Zenon DEF FirstsFollowNone
  <2> QED BY <2>2, <2>3, <2>4, <2>5
<1>5. ASSUME NEW g \in DOMAIN folder
      PROVE  /\ W[g] \in Seq(DOMAIN path) /\ Len(W[g]) = Len(Vector(g))
             /\ Cells(W[g]) = Cells(Vector(g))
             /\ g # f => W[g] = Vector(g)
             /\ \A a \in 1..Len(W[g]) : \E b \in 1..Len(Vector(g)) : W[g][a] = Vector(g)[b]
  <2>1. W[g] \in Seq(DOMAIN path) /\ Len(W[g]) = Len(Vector(g))
        /\ Cells(W[g]) = Cells(Vector(g)) /\ (g # f => W[g] = Vector(g))
    BY <1>1, <1>2
  <2>2. \A a \in 1..Len(W[g]) : W[g][a] \in Cells(Vector(g))
    BY <2>1, CellsOfSeq
  <2> QED BY <1>1, <2>1, <2>2
<1>6. \A g \in DOMAIN folder :
        /\ W[g] \in Seq(DOMAIN path) /\ Len(W[g]) \in Nat
        /\ \A a \in 1..Len(W[g]) : W[g][a] \in DOMAIN path
  BY <1>1, <1>5, ElementOfSeq
<1>7. ASSUME NEW g \in DOMAIN folder, NEW h \in DOMAIN folder,
             NEW a \in 1..Len(W[g]), NEW b \in 1..Len(W[h]), W[g][a] = W[h][b]
      PROVE  g = h /\ a = b
  <2>1. g = h
    <3>1. PICK l \in 1..Len(Vector(g)) : W[g][a] = Vector(g)[l]
      BY <1>5
    <3>2. PICK m \in 1..Len(Vector(h)) : W[h][b] = Vector(h)[m]
      BY <1>5
    <3> QED BY <1>4, <1>7, <3>1, <3>2
  <2>2. CASE g = f
    BY <1>2, <1>7, <2>1, <2>2
  <2>3. CASE g # f
    BY <1>4, <1>5, <1>7, <2>1, <2>3
  <2> QED BY <2>1, <2>2, <2>3
<1>8. ASSUME NEW g \in DOMAIN folder, NEW a \in 1..Len(W[g])
      PROVE  path'[W[g][a]].next = IF a < Len(W[g]) THEN Resolved(W[g][a + 1]) ELSE None
  <2>1. CASE g = f /\ a < Len(W[g])
    <3>1. W[g] = cells /\ a \in 1..(Len(cells) - 1)
      BY <1>6, <2>1
    <3> QED BY <1>3, <2>1, <3>1
  <2>2. CASE ~(g = f /\ a < Len(W[g]))
    <3>1. ASSUME NEW i \in 1..(Len(cells) - 1) PROVE cells[i] # W[g][a]
      <4>1. W[f] = cells /\ Len(cells) \in Nat
        BY <1>6
      <4>2. i \in 1..Len(W[f]) /\ i < Len(W[f]) /\ W[f][i] = cells[i]
        BY <4>1
      <4> QED BY <1>7, <2>2, <4>2
    <3>2. path'[W[g][a]].next = path[W[g][a]].next
      BY <1>3, <1>6, <3>1
    <3>3. CASE a < Len(W[g])
      <4>1. W[g] = Vector(g) /\ a \in 1..(Len(Vector(g)) - 1)
        BY <1>5, <1>6, <2>2, <3>3
      <4> QED BY <1>4, <3>2, <3>3, <4>1
    <3>4. CASE ~(a < Len(W[g]))
      <4>1. a = Len(W[g]) /\ W[g][a] = LastOf(W[g])
        BY <1>6, <3>4 DEF LastOf
      <4>2. LastOf(W[g]) = LastOf(Vector(g))
        BY <1>2, <1>5
      <4>3. Vector(g) # <<>>
        BY <1>1, <1>5, LenProperties, EmptySeq
      <4> QED BY <1>4, <3>2, <3>4, <4>1, <4>2, <4>3
    <3> QED BY <3>3, <3>4
  <2> QED BY <2>1, <2>2
<1>9. ASSUME NEW c \in DOMAIN path,
             \A g \in DOMAIN folder : \A a \in 1..Len(W[g]) : c # W[g][a]
      PROVE  /\ path'[c].next = path[c].next
             /\ \A g \in DOMAIN folder : \A a \in 1..Len(W[g]) :
                  path[c].next # Resolved(W[g][a])
  <2>1. path'[c].next = path[c].next
    <3>1. ASSUME NEW i \in 1..(Len(cells) - 1) PROVE cells[i] # c
      <4>1. W[f] = cells /\ Len(cells) \in Nat
        BY <1>6
      <4>2. i \in 1..Len(W[f]) /\ W[f][i] = cells[i]
        BY <4>1
      <4> QED BY <1>9, <4>2
    <3> QED BY <1>3, <3>1
  <2>2. ASSUME NEW g \in DOMAIN folder, NEW a \in 1..Len(W[g]),
               path[c].next = Resolved(W[g][a])
        PROVE  FALSE
    <3>1. PICK b \in 1..Len(Vector(g)) : W[g][a] = Vector(g)[b]
      BY <1>5
    <3>2. b # 1
      <4>1. Vector(g) # <<>>
        BY <1>1, EmptySeq
      <4> QED BY <1>4, <2>2, <3>1, <4>1
    <3>3. PICK l : l = b - 1
      OBVIOUS
    <3>4. l \in 1..(Len(Vector(g)) - 1) /\ l \in 1..Len(Vector(g)) /\ l + 1 = b
      BY <1>1, <3>2, <3>3
    <3>5. path[Vector(g)[l]].next = Resolved(Vector(g)[b]) /\ Vector(g)[l] \in DOMAIN path
      BY <1>1, <1>4, <3>4
    <3>6. c = Vector(g)[l]
      <4>1. IsCell(path[c].next) /\ path[c].next = path[Vector(g)[l]].next
        BY <2>2, <3>1, <3>5, Kinds
      <4> QED BY <3>5, <4>1 DEF Linked, NextInjective
    <3>7. PICK x \in 1..Len(W[g]) : W[g][x] = Vector(g)[l]
      <4>1. Vector(g)[l] \in Cells(W[g])
        BY <1>1, <1>5, <3>4
      <4>2. \A y \in Cells(W[g]) : \E x \in 1..Len(W[g]) : y = W[g][x]
        BY <1>5, CellsOfSeq
      <4> QED BY <4>1, <4>2
    <3> QED BY <1>9, <3>6, <3>7
  <2> QED BY <2>1, <2>2
<1> QED
  BY <1>6, <1>7, <1>8, <1>9

LEMMA RearrangeLinked ==
  ASSUME TypeOK, Linked, Settled, pc = "idle", pc' = "idle", client.edits # "any",
         UNCHANGED <<folders, paths, walked, k>>,
         NEW f \in DOMAIN folder, NEW cells, Rearranges(f, cells)
  PROVE  Linked' /\ OneOwner' /\ ChildrenAreLinked'
<1>0. PICK W : W = [g \in DOMAIN folder |-> IF g = f THEN cells ELSE Vector(g)]
  OBVIOUS
<1>1. DOMAIN folder' = DOMAIN folder /\ DOMAIN path' = DOMAIN path
  BY RearrangesFolders
<1>2. ASSUME NEW g \in DOMAIN folder
      PROVE  /\ IsSet(folder'[g].children) /\ folder'[g].children.cells = W[g]
             /\ Collected(g)' = W[g]
  <2>1. IsSet(folder'[g].children) /\ folder'[g].children.cells = W[g]
    <3>1. CASE g = f
      <4>1. folder'[f].children = Set(cells)
        BY RearrangesFolders
      <4> QED BY <1>0, <3>1, <4>1 DEF Set, IsSet
    <3>2. CASE g # f
      <4>1. folder'[g] = folder[g]
        BY <3>2, RearrangesFolders
      <4> QED BY <1>0, <3>2, <4>1 DEF Settled, Vector
    <3> QED BY <3>1, <3>2
  <2> QED BY <2>1 DEF Collected
<1>3. \A g \in DOMAIN folder :
        /\ W[g] \in Seq(DOMAIN path) /\ Len(W[g]) \in Nat
        /\ \A a \in 1..Len(W[g]) : W[g][a] \in DOMAIN path
  BY <1>0, RelinkedVectors
<1>4. \A g, h \in DOMAIN folder : \A a \in 1..Len(W[g]), b \in 1..Len(W[h]) :
        W[g][a] = W[h][b] => g = h /\ a = b
  BY <1>0, RelinkedVectors
<1>5. \A g \in DOMAIN folder : \A a \in 1..Len(W[g]) :
        path'[W[g][a]].next = IF a < Len(W[g]) THEN Resolved(W[g][a + 1]) ELSE None
  BY <1>0, RelinkedVectors
<1>6. \A c \in DOMAIN path :
        (\A g \in DOMAIN folder : \A a \in 1..Len(W[g]) : c # W[g][a]) =>
          /\ path'[c].next = path[c].next
          /\ \A g \in DOMAIN folder : \A a \in 1..Len(W[g]) :
               path[c].next # Resolved(W[g][a])
  BY <1>0, RelinkedVectors
<1> DEFINE Child(c) == \E g \in DOMAIN folder : \E a \in 1..Len(W[g]) : c = W[g][a]
           Before(c, d) == \E g \in DOMAIN folder : \E a, b \in 1..Len(W[g]) :
                             b = a + 1 /\ c = W[g][a] /\ d = W[g][b]
<1>7. ASSUME NEW c \in DOMAIN path
      PROVE  \/ /\ Child(c)
                /\ \/ path'[c].next = None
                   \/ \E d : Before(c, d) /\ path'[c].next = Resolved(d)
             \/ /\ ~Child(c) /\ path'[c].next = path[c].next
                /\ \A d : Child(d) => path[c].next # Resolved(d)
  <2>1. CASE Child(c)
    <3>1. PICK g \in DOMAIN folder : \E a \in 1..Len(W[g]) : c = W[g][a]
      BY <2>1
    <3>2. PICK a \in 1..Len(W[g]) : c = W[g][a]
      BY <3>1
    <3>3. CASE a < Len(W[g])
      <4>1. PICK b : b = a + 1
        OBVIOUS
      <4>2. b \in 1..Len(W[g]) /\ path'[c].next = Resolved(W[g][b])
        BY <1>3, <1>5, <3>2, <3>3, <4>1
      <4>3. Before(c, W[g][b])
        BY <3>2, <4>1, <4>2
      <4> QED BY <2>1, <4>2, <4>3
    <3>4. CASE ~(a < Len(W[g]))
      BY <1>5, <2>1, <3>2, <3>4
    <3> QED BY <3>3, <3>4
  <2>2. CASE ~Child(c)
    BY <1>6, <2>2
  <2> QED BY <2>1, <2>2
<1>8. ASSUME NEW c, NEW d, NEW x, Before(c, x), Before(d, x) PROVE c = d
  <2>1. PICK g \in DOMAIN folder : \E a, b \in 1..Len(W[g]) :
                                     b = a + 1 /\ c = W[g][a] /\ x = W[g][b]
    BY <1>8
  <2>2. PICK a \in 1..Len(W[g]), b \in 1..Len(W[g]) : b = a + 1 /\ c = W[g][a] /\ x = W[g][b]
    BY <2>1
  <2>3. PICK h \in DOMAIN folder : \E l, m \in 1..Len(W[h]) :
                                     m = l + 1 /\ d = W[h][l] /\ x = W[h][m]
    BY <1>8
  <2>4. PICK l \in 1..Len(W[h]), m \in 1..Len(W[h]) : m = l + 1 /\ d = W[h][l] /\ x = W[h][m]
    BY <2>3
  <2>a. W[g][b] = W[h][m]
    BY <2>2, <2>4
  <2>5. g = h /\ b = m
    BY <1>4, <2>a, ZenonT(40)
  <2>6. a = l
    BY <2>2, <2>4, <2>5
  <2> QED BY <2>2, <2>4, <2>5, <2>6
<1>9. \A c, d : Before(c, d) => Child(d)
  OBVIOUS
<1> HIDE DEF Before
<1>10. NoneUnresolved'
  <2>1. ASSUME NEW c \in DOMAIN path PROVE ~IsUnresolved(path'[c].next)
    <3>1. ~IsUnresolved(path[c].next)
      BY DEF Linked, NoneUnresolved
    <3> QED BY <1>7, <3>1, Kinds
  <2> QED BY <1>1, <2>1 DEF NoneUnresolved
<1>11. NextInjective'
  <2>1. ASSUME NEW c \in DOMAIN path, NEW d \in DOMAIN path,
               IsCell(path'[c].next), path'[c].next = path'[d].next
        PROVE  c = d
    <3>1. ASSUME NEW x, Before(c, x), path'[c].next = Resolved(x) PROVE c = d
      <4>1. Child(x)
        BY <1>9, <3>1
      <4>2. PICK y : Before(d, y) /\ path'[d].next = Resolved(y)
        BY <1>7, <2>1, <3>1, <4>1, Kinds
      <4>3. x = y
        BY <2>1, <3>1, <4>2, Kinds
      <4> QED BY <1>8, <3>1, <4>2, <4>3
    <3>2. ASSUME NEW x, Before(d, x), path'[d].next = Resolved(x) PROVE c = d
      <4>1. Child(x)
        BY <1>9, <3>2
      <4>2. PICK y : Before(c, y) /\ path'[c].next = Resolved(y)
        BY <1>7, <2>1, <3>2, <4>1, Kinds
      <4> QED BY <3>1, <4>2
    <3>3. ASSUME path'[c].next = path[c].next, path'[d].next = path[d].next PROVE c = d
      BY <2>1, <3>3 DEF Linked, NextInjective
    <3>4. path'[c].next # None /\ path'[d].next # None
      BY <2>1, Kinds
    <3> QED BY <1>7, <3>1, <3>2, <3>3, <3>4
  <2> QED BY <1>1, <2>1 DEF NextInjective
<1>12. FollowsLinks'
  <2>1. ASSUME NEW g \in DOMAIN folder, NEW a \in 1..(Len(W[g]) - 1)
        PROVE  path'[W[g][a]].next = Resolved(W[g][a + 1])
    <3>1. a \in 1..Len(W[g]) /\ a < Len(W[g])
      BY <1>3
    <3> QED BY <1>5, <3>1
  <2>2. ASSUME NEW g \in DOMAIN folder', NEW a \in 1..(Len(Collected(g)') - 1)
        PROVE  path'[Collected(g)'[a]].next = Resolved(Collected(g)'[a + 1])
    BY <1>1, <1>2, <2>1, <2>2
  <2> QED BY <2>2 DEF FollowsLinks
<1>13. EndsWithNone'
  <2>1. ASSUME NEW g \in DOMAIN folder, W[g] # <<>> PROVE path'[LastOf(W[g])].next = None
    <3>1. Len(W[g]) \in 1..Len(W[g])
      BY <1>3, <2>1, LenProperties, EmptySeq
    <3> QED BY <1>5, <3>1 DEF LastOf
  <2>2. ASSUME NEW g \in DOMAIN folder', Collected(g)' # <<>>
        PROVE  path'[LastOf(Collected(g)')].next = None
    BY <1>1, <1>2, <2>1, <2>2
  <2> QED BY <2>2 DEF EndsWithNone, LastOf
<1>14. CollectedOnce'
  <2>1. ASSUME NEW g \in DOMAIN folder', NEW h \in DOMAIN folder',
               NEW a \in 1..Len(Collected(g)'), NEW b \in 1..Len(Collected(h)'),
               Collected(g)'[a] = Collected(h)'[b]
        PROVE  g = h /\ a = b
    BY <1>1, <1>2, <1>4, <2>1
  <2> QED BY <2>1 DEF CollectedOnce
<1>15. FirstsFollowNone'
  <2>1. ASSUME NEW g \in DOMAIN folder, NEW c \in DOMAIN path, W[g] # <<>>,
               path'[c].next = Resolved(W[g][1])
        PROVE  FALSE
    <3>1. 1 \in 1..Len(W[g]) /\ Child(W[g][1])
      BY <1>3, <2>1, LenProperties, EmptySeq
    <3>2. Before(c, W[g][1])
      BY <1>7, <2>1, <3>1, Kinds
    <3>3. PICK h \in DOMAIN folder : \E l, m \in 1..Len(W[h]) :
                                       m = l + 1 /\ c = W[h][l] /\ W[g][1] = W[h][m]
      BY <3>2 DEF Before
    <3>4. PICK l \in 1..Len(W[h]), m \in 1..Len(W[h]) :
            m = l + 1 /\ c = W[h][l] /\ W[g][1] = W[h][m]
      BY <3>3
    <3>5. m = 1
      BY <1>4, <3>1, <3>4
    <3> QED BY <3>4, <3>5
  <2>2. ASSUME NEW g \in DOMAIN folder', NEW c \in DOMAIN path', Collected(g)' # <<>>,
               path'[c].next = Resolved(Collected(g)'[1])
        PROVE  FALSE
    BY <1>1, <1>2, <2>1, <2>2
  <2> QED BY <2>2 DEF FirstsFollowNone
<1>16. BeginningsApart' /\ WalkOK'
  BY <1>1, <1>2 DEF BeginningsApart, WalkOK, Begins
<1>17. Linked'
  BY <1>10, <1>11, <1>12, <1>13, <1>14, <1>15, <1>16 DEF Linked
<1>18. OneOwner'
  <2>1. \A g \in DOMAIN folder' : folder'[g].children.cells = Collected(g)'
    BY <1>1, <1>2
  <2> QED BY <1>14, <2>1 DEF OneOwner, CollectedOnce
<1>19. ChildrenAreLinked'
  BY <1>1, <1>2, <1>5 DEF ChildrenAreLinked
<1> QED
  BY <1>17, <1>18, <1>19

\* What keeps of the tree: paths, folders and lookups are as they were, and a
\* vector has the children it had.
LEMMA RearrangeTree ==
  ASSUME TypeOK, Linked', TreeOK, pc = "idle", pc' = "idle", Settled, client.edits # "any",
         UNCHANGED <<folders, paths, folderLookup, pathLookup, current>>,
         NEW f \in DOMAIN folder, NEW cells, Rearranges(f, cells)
  PROVE  TreeOK'
<1>1. /\ DOMAIN folder' = DOMAIN folder /\ DOMAIN path' = DOMAIN path
      /\ folder'[f].children = Set(cells)
      /\ \A g \in DOMAIN folder : folder'[g].fullPath = folder[g].fullPath
      /\ \A g \in DOMAIN folder : g # f => folder'[g] = folder[g]
      /\ \A c \in DOMAIN path : /\ path'[c].fullPath = path[c].fullPath
                                /\ path'[c].folder = path[c].folder
  BY RearrangesFolders
<1>2. Cells(cells) = Cells(Vector(f))
  BY DEF Rearranges
<1>3. /\ FoldersNamed /\ PathsNamed /\ PathsInFolders /\ EntriesMatchFolders
      /\ RefsInBounds /\ ListsAreComplete /\ NoFolderIsEmpty
  BY TreeParts DEF IsOpen
<1>4. Entries' = Entries
  BY <1>1 DEF Entries
<1>5. \A g \in DOMAIN folder : ChildrenOf(g)' = ChildrenOf(g)
  <2>1. ASSUME NEW g \in DOMAIN folder PROVE ChildrenOf(g)' = ChildrenOf(g)
    <3>1. \A c \in Entries : c \in DOMAIN path
      BY DEF Entries
    <3> QED BY <1>1, <1>4, <3>1 DEF ChildrenOf
  <2> QED BY <2>1
<1>6. FoldersNamed'
  <2>1. {folder'[g].fullPath : g \in DOMAIN folder'} = {folder[g].fullPath : g \in DOMAIN folder}
    BY <1>1
  <2> QED BY <1>1, <1>3, <2>1 DEF FoldersNamed
<1>7. PathsNamed'
  <2>1. \A c \in Entries : path'[c].fullPath = path[c].fullPath
    BY <1>1 DEF Entries
  <2>2. {path'[c].fullPath : c \in Entries'} = {path[c].fullPath : c \in Entries}
    BY <1>4, <2>1
  <2> QED BY <1>3, <1>4, <2>1, <2>2 DEF PathsNamed
<1>8. PathsInFolders'
  <2>1. \A c \in Entries : path'[c].fullPath = path[c].fullPath
    BY <1>1 DEF Entries
  <2> QED BY <1>1, <1>3, <1>4, <1>5, <2>1 DEF PathsInFolders
<1>9. EntriesMatchFolders'
  <2>1. \A c \in Entries : c \in DOMAIN path
    BY DEF Entries
  <2> QED BY <1>1, <1>3, <1>4, <2>1 DEF EntriesMatchFolders
<1>10. RefsInBounds'
  <2>1. \A c \in DOMAIN path' : ~IsUnresolved(path'[c].next)
    BY DEF Linked, NoneUnresolved
  <2> QED BY <1>1, <1>3, <2>1 DEF RefsInBounds
<1>11. ListsAreComplete'
  <2>1. ASSUME NEW g \in DOMAIN folder
        PROVE  /\ IsSet(folder'[g].children)
               /\ Cells(folder'[g].children.cells) = ChildrenOf(g)
    <3>0. IsSet(folder[g].children) /\ Cells(Vector(g)) = ChildrenOf(g)
      BY <1>3 DEF ListsAreComplete, Settled, Vector
    <3>1. CASE g = f
      BY <1>1, <1>2, <3>0, <3>1 DEF Set, IsSet
    <3>2. CASE g # f
      BY <1>1, <3>0, <3>2 DEF Vector
    <3> QED BY <3>1, <3>2
  <2>2. ASSUME NEW g \in DOMAIN folder'
        PROVE  /\ IsSet(folder'[g].children)
               /\ Cells(folder'[g].children.cells) = ChildrenOf(g)'
    BY <1>1, <1>5, <2>1, <2>2
  <2> QED BY <2>2 DEF ListsAreComplete, Cells
<1>12. NoFolderIsEmpty'
  BY <1>1, <1>3, <1>5 DEF NoFolderIsEmpty
<1> QED
  BY <1>6, <1>7, <1>8, <1>9, <1>10, <1>11, <1>12 DEF TreeOK

\* An engine with no cells, and its image, is a careful client's.
LEMMA EmptyCareful ==
  ASSUME Consumed, pc = "closed", IsTree(disk), IsForest(disk)
  PROVE  Invariant /\ CarefulInvariant
<1>1. FoldersOnce /\ MakersOK
  BY ConsumedParts
<1>2. DOMAIN folder = {}
  BY DEF Consumed, EmptyMap
<1>3. HeapOK
  BY <1>2 DEF HeapOK, OneOwner, ChildrenAreLinked
<1> QED
  BY <1>1, <1>3 DEF Invariant, DiskIsForest, CarefulInvariant, NoPanic, TreeOK, IsOpen, AddOK, PushOK

LEMMA RearrangeCareful ==
  ASSUME TypeOK, Invariant, CarefulInvariant, FoldersOnce', MakersOK',
         LayoutOK, client.edits # "any", NEW f \in DOMAIN folder, Rearrange(f)
  PROVE  Invariant' /\ CarefulInvariant'
<1>1. /\ pc = "idle" /\ pc' = "idle" /\ Settled
      /\ UNCHANGED <<guid, folders, paths, folderLookup, pathLookup, disk, file, depth,
                     current, k, walked, j, folderMaker, pathMaker, target, buffer,
                     done, ragged, torn>>
      /\ \E cells : Rearranges(f, cells)
  BY RearrangeIs DEF LayoutOK
<1>2. PICK cells : Rearranges(f, cells)
  BY <1>1
<1>3. Linked
  <2>1. ~Fresh
    BY <1>1 DEF Fresh, Settled
  <2> QED BY <1>1, <2>1 DEF Invariant, HeapOK
<1>4. Linked' /\ OneOwner' /\ ChildrenAreLinked'
  BY <1>1, <1>2, <1>3, RearrangeLinked
<1>5. TreeOK'
  BY <1>1, <1>2, <1>4, RearrangeTree DEF CarefulInvariant
<1>6. Invariant'
  <2>1. IsForest(disk')
    BY <1>1 DEF Invariant, DiskIsForest
  <2> QED BY <1>1, <1>4, <2>1 DEF Invariant, DiskIsForest, HeapOK
<1>7. CarefulInvariant'
  <2>1. IsTree(disk')
    BY <1>1 DEF CarefulInvariant
  <2> QED BY <1>1, <1>5, <2>1 DEF CarefulInvariant, NoPanic, AddOK, PushOK
<1> QED
  BY <1>6, <1>7

\* The lists of an image that is a tree and a forest end: what follows itself
\* has no beginning.
LEMMA TreeEnds ==
  ASSUME NEW image, image \in Image, IsTree(image), IsForest(image), Plain(image)
  PROVE  LinksEnd(image.paths)
<1>0. PICK np, nf, P, F : /\ np = Len(image.paths) /\ nf = Len(image.folders)
                          /\ P = image.paths /\ F = image.folders
  OBVIOUS
<1>1. np \in Nat /\ nf \in Nat /\ np <= INVALID_INDEX
      /\ (\A n \in 1..np : P[n].next \in Nat) /\ \A f \in 1..nf : F[f].first \in Nat
  <2>1. P \in Seq(PathEntry) /\ F \in Seq(FolderEntry)
    BY <1>0 DEF Image
  <2>2. np \in Nat /\ nf \in Nat
    BY <1>0, <2>1, LenProperties
  <2>3. ASSUME NEW n \in 1..np PROVE P[n].next \in Nat
    <3>1. P[n] \in PathEntry
      BY <1>0, <2>1, ElementOfSeq
    <3> QED BY <3>1 DEF PathEntry
  <2>4. ASSUME NEW f \in 1..nf PROVE F[f].first \in Nat
    <3>1. F[f] \in FolderEntry
      BY <1>0, <2>1, ElementOfSeq
    <3> QED BY <3>1 DEF FolderEntry
  <2> QED BY <1>0, <2>2, <2>3, <2>4 DEF IsForest
<1>2. SUFFICES ASSUME NEW S \in SUBSET (1..np), S # {}, \A n \in S : P[n].next + 1 \in S
               PROVE  FALSE
  BY <1>0 DEF LinksEnd
<1>3. \A n \in S : n \in 1..np /\ P[n].next # INVALID_INDEX
  <2>1. ASSUME NEW n \in S, P[n].next = INVALID_INDEX PROVE FALSE
    BY <1>1, <1>2, <2>1 DEF INVALID_INDEX
  <2> QED BY <1>2, <2>1
<1>4. \A m, n \in 1..np : P[m].next = P[n].next /\ P[m].next # INVALID_INDEX => m = n
  BY <1>0 DEF IsForest
<1>5. \A f \in 1..nf, n \in 1..np : F[f].first = P[n].next => F[f].first = INVALID_INDEX
  BY <1>0 DEF IsForest
\* Each entry of S follows one of S.
<1>6. ASSUME NEW d \in S PROVE \E m \in S : d = P[m].next + 1
  <2>1. PICK g : g = [n \in S |-> P[n].next + 1]
    OBVIOUS
  <2>2. g \in [S -> S]
    BY <1>2, <2>1
  <2>3. ASSUME NEW m \in S, NEW n \in S, g[m] = g[n] PROVE m = n
    <3>0. P[m].next \in Nat /\ P[n].next \in Nat
      BY <1>1, <1>3
    <3>1. P[m].next = P[n].next
      <4>1. P[m].next + 1 = P[n].next + 1
        BY <2>1, <2>3
      <4> QED BY <3>0, <4>1
    <3> QED BY <1>3, <1>4, <3>1
  <2>4. IsFiniteSet(S)
    <3>1. 1 \in Int /\ np \in Int
      BY <1>1
    <3>2. IsFiniteSet(1..np)
      BY <3>1, FS_Interval
    <3> QED BY <1>2, <3>2, FS_Subset
  <2>5. g \in Injection(S, S)
    BY <2>2, <2>3 DEF Injection, IsInjective
  <2>6. g \in Surjection(S, S)
    BY <2>4, <2>5, FS_Injection
  <2>7. PICK m \in S : g[m] = d
    BY <2>6 DEF Surjection
  <2> QED BY <2>1, <2>7
<1>7. PICK n0 \in S : TRUE
  BY <1>2
<1>8. n0 \in EntriesIn(image)
  BY <1>0, <1>2 DEF EntriesIn, Plain
<1>9. PICK f \in 1..nf : n0 \in ChildrenIn(image, f)
  BY <1>0, <1>8 DEF IsTree
<1>10. PICK C, first, after : /\ C = ChildrenIn(image, f) /\ first = F[f].first + 1
                              /\ after = AfterIn(image)
  OBVIOUS
<1>11. IsList(C, first, after)
  BY <1>0, <1>10 DEF IsTree
<1>12. \A n \in 1..np : after[n] = {m \in 1..np : m = P[n].next + 1}
  BY <1>0, <1>10 DEF AfterIn
<1>13. C \subseteq 1..np
  BY <1>0, <1>10 DEF ChildrenIn, EntriesIn
<1>14. first \notin S
  <2>1. SUFFICES ASSUME first \in S PROVE FALSE
    OBVIOUS
  <2>2. PICK m \in S : first = P[m].next + 1
    BY <1>6, <2>1
  <2>3. F[f].first = P[m].next
    BY <1>1, <1>3, <1>10, <2>2
  <2> QED BY <1>3, <1>5, <2>3
<1>15. ASSUME NEW c \in C \ S PROVE after[c] \subseteq C \ S
  <2>1. c \in 1..np /\ after[c] \subseteq C
    BY <1>11, <1>13 DEF IsList
  <2>2. ASSUME NEW d \in after[c], d \in S PROVE FALSE
    <3>1. d = P[c].next + 1
      BY <1>12, <2>1, <2>2
    <3>2. PICK m \in S : d = P[m].next + 1
      BY <1>6, <2>2
    <3>3. P[m].next = P[c].next
      BY <1>1, <1>3, <2>1, <3>1, <3>2
    <3>4. m = c
      BY <1>3, <1>4, <2>1, <3>3
    <3> QED BY <3>4
  <2> QED BY <2>1, <2>2
<1>16. C \ S = C
  <2>1. first \in C \ S /\ C \ S \in SUBSET C
    BY <1>11, <1>14 DEF IsList
  <2> QED BY <1>11, <1>15, <2>1 DEF IsList
<1> QED
  BY <1>7, <1>9, <1>10, <1>16

-----------------------------------------------------------------------------
(* Saves that all return.                                                  *)

\* What the engine of a careful session buffers is a tree.
LEMMA SessionBuffers ==
  ASSUME TypeOK, Invariant, CarefulInvariant, BufferImage, IsForest(buffer')
  PROVE  CarefulSession'
<1>1. PICK image : image = buffer'
  OBVIOUS
<1>2. Writes(image)
  BY <1>1 DEF Writes, BufferImage
<1>3. IsTree(image) /\ Cardinality(image.pathKeys) = Len(image.paths)
  BY <1>2, WrittenTree
<1>4. /\ IsTree(buffer') /\ IsForest(buffer')
      /\ Cardinality(buffer'.pathKeys) = Len(buffer'.paths)
  BY <1>1, <1>3
<1>5. pc' = "saving" /\ done' = 0 /\ 1..0 = {}
  BY DEF BufferImage
<1> QED
  BY <1>4, <1>5 DEF CarefulSession

\* Two images that have the same kind and the same files are one image.
LEMMA AllSaved ==
  ASSUME NEW a \in Image, NEW b \in Image, a.kind = b.kind,
         \A i \in 1..Len(FilesInOrder) : a[FilesInOrder[i]] = b[FilesInOrder[i]]
  PROVE  a = b
<1>1. /\ Len(FilesInOrder) = 5
      /\ FilesInOrder[1] = "folders" /\ FilesInOrder[2] = "paths"
      /\ FilesInOrder[3] = "pathLinks" /\ FilesInOrder[4] = "folderKeys"
      /\ FilesInOrder[5] = "pathKeys"
  BY DEF FilesInOrder
<1>2. 1 \in 1..5 /\ 2 \in 1..5 /\ 3 \in 1..5 /\ 4 \in 1..5 /\ 5 \in 1..5
  OBVIOUS
<1>3. /\ a.folders = b.folders /\ a.paths = b.paths /\ a.pathLinks = b.pathLinks
      /\ a.folderKeys = b.folderKeys /\ a.pathKeys = b.pathKeys
  BY <1>1, <1>2
<1> QED
  BY <1>3 DEF Image

\* A file is as it is buffered once it is written.
LEMMA SessionWrites ==
  ASSUME EditTypeOK, CarefulSession, WriteFile
  PROVE  CarefulSession'
<1>1. /\ pc = "saving" /\ pc' = "saving" /\ done < Len(FilesInOrder)
      /\ done' = done + 1 /\ buffer' = buffer
      /\ disk' = [disk EXCEPT ![File] = buffer[File]]
  BY DEF WriteFile, Saving
<1>2. done \in Nat /\ done + 1 \in 1..Len(FilesInOrder) /\ disk \in Image
  BY <1>1 DEF EditTypeOK, FilesInOrder
<1>3. File = FilesInOrder[done + 1] /\ File \in DOMAIN disk
  BY <1>2 DEF File, FilesInOrder, Image
<1>4. ASSUME NEW i \in 1..(done + 1) PROVE Saved(FilesInOrder[i])'
  <2>1. CASE i = done + 1
    BY <1>1, <1>3, <2>1 DEF Saved
  <2>2. CASE i # done + 1
    <3>1. i \in 1..done
      BY <1>2, <2>2
    <3>2. disk[FilesInOrder[i]] = buffer[FilesInOrder[i]]
      BY <1>1, <3>1 DEF CarefulSession, Saved
    <3>3. CASE FilesInOrder[i] = File
      BY <1>1, <1>3, <3>3 DEF Saved
    <3>4. CASE FilesInOrder[i] # File
      BY <1>1, <3>2, <3>4 DEF Saved
    <3> QED BY <3>3, <3>4
  <2> QED BY <2>1, <2>2
<1>5. /\ IsTree(buffer') /\ IsForest(buffer')
      /\ Cardinality(buffer'.pathKeys) = Len(buffer'.paths)
  BY <1>1 DEF CarefulSession
<1> QED
  BY <1>1, <1>4, <1>5 DEF CarefulSession

\* When the last file is written the disk has the tree that was buffered.
LEMMA SessionReturns ==
  ASSUME EditTypeOK, CarefulSession, disk.kind = buffer.kind, SaveReturns
  PROVE  CarefulSession'
<1>1. pc = "saving" /\ pc' = "closed" /\ done = Len(FilesInOrder) /\ disk' = disk
  BY DEF SaveReturns, Closes
<1>2. \A i \in 1..Len(FilesInOrder) : disk[FilesInOrder[i]] = buffer[FilesInOrder[i]]
  BY <1>1 DEF CarefulSession, Saved
<1>3. disk = buffer
  BY <1>2, AllSaved DEF EditTypeOK
<1>4. IsTree(disk') /\ IsForest(disk')
  BY <1>1, <1>3 DEF CarefulSession
<1>5. Consumed'
  BY SaveSteps DEF Consumed
<1>6. (pc = "closed")' /\ IsTree(disk)' /\ IsForest(disk)'
  BY <1>1, <1>4
<1>7. (Invariant /\ CarefulInvariant)'
  BY <1>5, <1>6, EmptyCareful, PTL
<1> QED
  BY <1>1, <1>7 DEF CarefulSession

\* A careful session's engine is that of a careful client.
LEMMA SessionSteps ==
  ASSUME EditTypeOK, EditTypeOK', SoundClients, CarefulSession, EngineStep
  PROVE  CarefulSession'
<1>1. TypeOK /\ Invariant /\ CarefulInvariant /\ Next
  BY SavingOnlySaves DEF EditTypeOK, CarefulSession, EngineStep
<1>2. TypeOK' /\ pc' # "saving"
  <2>1. TypeOK'
    BY <1>1, TypeStep
  <2> QED BY <2>1 DEF TypeOK
<1>3. Invariant'
  BY <1>1, <1>2, HeapStep, FoldersStep, MakersStep, DiskStep DEF Invariant
<1>4. CarefulInvariant'
  BY <1>1, CarefulStep DEF SoundClients
<1> QED
  BY <1>2, <1>3, <1>4 DEF CarefulSession

-----------------------------------------------------------------------------
(* The inductive invariant.                                                *)

LEMMA EditBegins ==
  ASSUME SoundClients, EditInit
  PROVE  EditInvariant
<1>1. /\ pc = "closed" /\ client \in Clients /\ disk = client.image
      /\ buffer = NoImage /\ disk \in Images
  BY DEF EditInit, Init
<1>2. IsTree(disk) /\ Plain(disk) /\ disk.kind = "directory"
  BY <1>1 DEF SoundClients
<1>3. IsForest(disk) /\ disk \in Image
  BY <1>1, ConstantsOK
<1>4. Consumed
  BY ConstantsOK, EmptySeq DEF EditInit, Init, Consumed, FullPaths
<1>5. FoldersOnce /\ MakersOK /\ SessionOK /\ PassedOK /\ PathsFound /\ CellsEnd /\ LayoutOK
  BY <1>1, <1>4, ConsumedParts
<1>6. Plain(buffer) /\ LinksEnd(buffer.paths) /\ buffer.kind = "directory"
  BY <1>1, NoImagePlain DEF NoImage
<1>7. LinksEnd(disk.paths)
  BY <1>2, <1>3, TreeEnds
<1>8. CarefulSession
  BY <1>1, <1>2, <1>3, <1>4, EmptyCareful DEF CarefulSession
<1> QED
  BY <1>1, <1>2, <1>4, <1>5, <1>6, <1>7, <1>8 DEF EditInvariant

LEMMA EditStutters ==
  ASSUME EditTypeOK, EditInvariant, UNCHANGED editVars
  PROVE  EditInvariant'
<1>1. /\ UNCHANGED <<folder, path, guid, folders, paths, folderLookup, pathLookup, disk, pc>>
      /\ UNCHANGED <<file, depth, current, k, walked, j, folderMaker, pathMaker, target>>
      /\ UNCHANGED <<buffer, done, ragged, torn, client, vars>>
  BY DEF editVars, saveVars, vars, heapVars, tableVars, lookupVars, addVars, walkVars,
         makerVars
<1>2. FoldersOnce' /\ MakersOK'
  BY <1>1 DEF EditInvariant, FoldersOnce, MakersOK, PushedFolders, PushedPaths
<1>3. SessionOK' /\ (pc' = "closed" => Consumed')
  BY <1>1 DEF EditInvariant, SessionOK, Settled, AsOnDisk, RefersTo, WalkFollowsDisk,
              NoneUnresolved, Consumed
<1>4. PassedOK'
  <2>1. UNCHANGED <<folder, folders, pc, k, j, folderMaker, pathMaker>> /\ PassedOK
    BY <1>1 DEF EditInvariant
  <2>2. pc' # "push" => PassedOK'
    BY DEF PassedOK
  <2>3. ASSUME pc = "push" PROVE PassedOK'
    <3>6. (\A i \in 1..Len(folders) :
            i < k \/ (i = k /\ j >= 1) => HasCell(folderMaker, folders[i]))'
      BY <2>1, <2>3 DEF PassedOK
    <3>7. (\A i \in 1..Len(folders) : \A n \in 1..Len(Vector(folders[i])) :
            Passed(i, n) => HasCell(pathMaker, Vector(folders[i])[n]))'
      BY <2>1, <2>3 DEF PassedOK, Passed, Vector
    <3>8. (\A i, h \in 1..Len(folders) :
            \A m \in 1..Len(Vector(folders[i])), n \in 1..Len(Vector(folders[h])) :
              Passed(i, m) /\ Passed(h, n)
                /\ Vector(folders[i])[m] = Vector(folders[h])[n]
              => i = h /\ m = n)'
      BY <2>1, <2>3 DEF PassedOK, Passed, Vector
    <3> QED BY <3>6, <3>7, <3>8 DEF PassedOK
  <2> QED BY <2>1, <2>2, <2>3
<1>5. Plain(disk)' /\ Plain(buffer)' /\ PathsFound'
      /\ disk'.kind = "directory" /\ buffer'.kind = "directory"
  BY <1>1 DEF EditInvariant, Plain, PathsFound
<1>6. client'.edits = "any" => CellsEnd'
  <2>1. After' = After
    BY <1>1 DEF After
  <2>2. CellsEnd => CellsEnd'
    BY <1>1, <2>1, Zenon DEF CellsEnd
  <2> QED BY <1>1, <2>2 DEF EditInvariant
<1>7. LinksEnd(disk'.paths) /\ LinksEnd(buffer'.paths)
  BY <1>1 DEF EditInvariant
<1>8. LayoutOK' = LayoutOK
  BY <1>1 DEF LayoutOK, NoChildTwice, NewFoldersAlone, LinkedIfAlone, Alone, SetFolders,
              Vector
<1>9. Complete(buffer') = Complete(buffer) /\ Complete(buffer)' = Complete(buffer')
  BY <1>1 DEF Complete
<1>10. CarefulSession => CarefulSession'
  <2>1. CASE pc = "saving"
    BY <1>1, <2>1 DEF CarefulSession, Saved
  <2>2. CASE pc # "saving"
    BY <1>1, <2>2, InvariantStutters, CarefulStutters DEF CarefulSession, EditTypeOK
  <2> QED BY <2>1, <2>2
<1> QED
  BY <1>1, <1>2, <1>3, <1>4, <1>5, <1>6, <1>7, <1>8, <1>9, <1>10 DEF EditInvariant

\* No step of the engine's own puts it away.
LEMMA StaysOpen ==
  ASSUME EngineStep PROVE pc' # "closed"
<1>1. Still => pc' # "closed"
  BY DEF Still, Panic, WalkSkip, WalkStart, WalkHop, ResolveReturns, Walking, Descend,
         Descending, PushFolder, PushPath, PushNext, Pushing, AddFile, FromEngine
<1>2. Read \/ ResolvePaths \/ WalkStop \/ (MakeFolder /\ ~Panic) \/ MakeFile \/ Reorganize
        => pc' # "closed"
  BY DEF Read, ResolvePaths, WalkStop, Walking, MakeFolder, Descending, MakeFile, Landing,
         Reorganize, Panic
<1>3. (\E p \in DOMAIN folderLookup : ListFolder(folderLookup[p])) => pc' # "closed"
  BY DEF ListFolder
<1> QED
  BY <1>1, <1>2, <1>3, EngineSteps

\* The engine's own steps.
LEMMA EditsEngine ==
  ASSUME SoundClients, EditTypeOK, EditTypeOK', EditInvariant, EngineStep,
         client' = client
  PROVE  EditInvariant'
<1>1. TypeOK /\ Next /\ pc # "saving" /\ UNCHANGED <<buffer, done, ragged, torn>>
  BY SavingOnlySaves DEF EditTypeOK, EngineStep, saveVars
<1>2. disk' = disk /\ pc' # "saving"
  <2>1. TypeOK'
    BY <1>1, TypeStep
  <2>2. disk' = disk
    BY EngineSteps DEF Still, Read, ResolvePaths, WalkStop, MakeFolder, MakeFile,
       Reorganize, ListFolder
  <2> QED BY <2>1, <2>2 DEF TypeOK
<1>3. FoldersOnce'
  BY <1>1, FoldersStep DEF EditInvariant
<1>4. MakersOK'
  BY <1>1, MakersStep DEF EditInvariant
<1>5. SessionOK'
  BY <1>1, SessionEngine DEF EditInvariant
<1>6. PassedOK'
  BY <1>1, PassedStep DEF EditInvariant
<1>7. PathsFound'
  BY <1>1, PathsFoundStep DEF EditInvariant
<1>8. client'.edits = "any" => CellsEnd'
  BY <1>1, CellsEndStep DEF EditInvariant
<1>9. client.edits # "any" => LayoutOK'
  BY <1>1, LayoutStep DEF EditInvariant
<1>10. client.edits # "any" /\ torn = 0 => CarefulSession'
  BY SessionSteps DEF EditInvariant
<1>11. Plain(disk)' /\ Plain(buffer)'
      /\ disk'.kind = "directory" /\ buffer'.kind = "directory"
  BY <1>1, <1>2 DEF EditInvariant, Plain
<1>12. LinksEnd(disk'.paths) /\ LinksEnd(buffer'.paths)
  BY <1>1, <1>2 DEF EditInvariant
<1> QED
  BY <1>1, <1>2, <1>3, <1>4, <1>5, <1>6, <1>7, <1>8, <1>9, <1>10, <1>11, <1>12,
     StaysOpen
  DEF EditInvariant

\* The client's rearranging.
LEMMA EditsRearrange ==
  ASSUME SoundClients, EditTypeOK, EditInvariant, NEW f \in DOMAIN folder, Rearrange(f),
         client' = client
  PROVE  EditInvariant'
<1>1. TypeOK /\ pc # "saving" /\ (client.edits # "any" => LayoutOK)
      /\ (client.edits = "linked" => NoChildTwice)
  BY SavingOnlySaves DEF EditTypeOK, EditInvariant, LayoutOK
<1>2. /\ pc = "idle" /\ pc' = "idle" /\ Settled
      /\ UNCHANGED <<guid, folders, paths, folderLookup, pathLookup, disk, file, depth,
                     current, k, walked, j, folderMaker, pathMaker, target, buffer,
                     done, ragged, torn>>
      /\ \E cells : Rearranges(f, cells)
  BY <1>1, RearrangeIs
<1>3. PICK cells : Rearranges(f, cells)
  BY <1>2
<1>4. FoldersOnce' /\ MakersOK'
  BY <1>2 DEF EditInvariant, FoldersOnce, MakersOK
<1>5. SessionOK'
  BY <1>1, SessionRearrange DEF EditInvariant
<1>6. PassedOK'
  BY <1>2 DEF PassedOK
<1>7. PathsFound'
  BY <1>1, <1>2, <1>3, PathsFoundStep DEF EditInvariant
<1>8. client'.edits = "any" => CellsEnd'
  <2>1. SUFFICES ASSUME client.edits = "any" PROVE CellsEnd'
    OBVIOUS
  <2>2. UNCHANGED <<path, paths>>
    BY <1>2, <1>3, <2>1 DEF Rearranges
  <2> QED BY <1>1, <1>3, <2>1, <2>2, CellsEndStep DEF EditInvariant
<1>9. client.edits # "any" => LayoutOK'
  BY <1>1, <1>2, <1>3, LayoutRearrange
<1>10. client.edits # "any" /\ torn = 0 => CarefulSession'
  <2>1. SUFFICES ASSUME client.edits # "any", torn = 0 PROVE CarefulSession'
    OBVIOUS
  <2>2. Invariant /\ CarefulInvariant
    BY <1>1, <2>1 DEF EditInvariant, CarefulSession
  <2>3. Invariant' /\ CarefulInvariant'
    BY <1>1, <1>4, <2>1, <2>2, RearrangeCareful
  <2> QED BY <1>2, <2>3 DEF CarefulSession
<1>11. Plain(disk)' /\ Plain(buffer)'
      /\ disk'.kind = "directory" /\ buffer'.kind = "directory"
  BY <1>2 DEF EditInvariant, Plain
<1>12. LinksEnd(disk'.paths) /\ LinksEnd(buffer'.paths)
  BY <1>2 DEF EditInvariant
<1> QED
  BY <1>2, <1>4, <1>5, <1>6, <1>7, <1>8, <1>9, <1>10, <1>11, <1>12 DEF EditInvariant

\* Buffering consumes the engine.
LEMMA EditsBuffer ==
  ASSUME EditTypeOK, EditTypeOK', EditInvariant, BufferImage, client' = client
  PROVE  EditInvariant'
<1>1. /\ TypeOK /\ pc = "push" /\ pc' = "saving" /\ UNCHANGED <<disk, torn>>
      /\ Consumed'
  BY DEF EditTypeOK, BufferImage, Pushed
<1>2. FoldersOnce' /\ MakersOK' /\ SessionOK' /\ PassedOK' /\ PathsFound' /\ CellsEnd'
      /\ LayoutOK'
  <2>1. (pc \in {"saving", "closed"})'
    BY <1>1
  <2> QED BY <1>1, <2>1, ConsumedParts, PTL
<1>3. /\ Plain(buffer)' /\ LinksEnd(buffer'.paths)
      /\ client.edits # "any" => Complete(buffer)'
  BY <1>1, BufferParts DEF EditInvariant
<1>4. buffer'.kind = "directory"
  BY DEF BufferImage, WrittenImage
<1>5. client.edits # "any" /\ torn = 0 => CarefulSession'
  <2>1. SUFFICES ASSUME client.edits # "any", torn = 0 PROVE CarefulSession'
    OBVIOUS
  <2>2. Invariant /\ CarefulInvariant
    BY <1>1, <2>1 DEF EditInvariant, CarefulSession
  <2>3. IsForest(buffer')
    <3>1. Complete(buffer)'
      BY <1>3, <2>1
    <3> QED BY <3>1 DEF Complete
  <2> QED BY <1>1, <2>2, <2>3, SessionBuffers
<1>6. Plain(disk)' /\ disk'.kind = "directory" /\ LinksEnd(disk'.paths)
  BY <1>1 DEF EditInvariant, Plain
<1> QED
  BY <1>1, <1>2, <1>3, <1>4, <1>5, <1>6 DEF EditInvariant

\* No file of a save has the kind of the image.
LEMMA SaveKeepsKind ==
  ASSUME EditTypeOK, WriteFile \/ SaveReturns \/ SaveFails
  PROVE  disk'.kind = disk.kind
<1>1. File \in Cells(FilesInOrder) => File # "kind"
  <2>1. \A i \in 1..5 : FilesInOrder[i] # "kind"
    BY DEF FilesInOrder
  <2> QED BY <2>1 DEF Cells, FilesInOrder
<1>2. disk \in Image
  BY DEF EditTypeOK
<1>3. CASE WriteFile
  <2>1. disk' = [disk EXCEPT ![File] = buffer[File]]
    BY <1>3 DEF WriteFile
  <2> QED BY <1>1, <1>2, <1>3, <2>1, SaveSteps DEF Image
<1>4. CASE ~WriteFile
  <2>1. UNCHANGED disk \/ FileCut
    BY <1>4 DEF SaveReturns, SaveFails, TearTable, FileCut
  <2> QED BY <1>2, <2>1 DEF FileCut, Image
<1> QED
  BY <1>3, <1>4

\* One file after another reaches the disk, or does not.
LEMMA EditsSave ==
  ASSUME EditTypeOK, EditTypeOK', EditInvariant, WriteFile \/ SaveReturns \/ SaveFails,
         client' = client
  PROVE  EditInvariant'
<1>1. /\ pc = "saving" /\ Consumed
      /\ \/ pc' = "saving" /\ buffer' = buffer
         \/ pc' = "closed" /\ buffer' = NoImage
  BY SaveSteps
<1>2. Consumed'
  BY SaveSteps DEF Consumed
<1>3. FoldersOnce' /\ MakersOK' /\ SessionOK' /\ PassedOK' /\ PathsFound' /\ CellsEnd'
      /\ LayoutOK'
  <2>1. (pc \in {"saving", "closed"})'
    BY <1>1
  <2> QED BY <1>2, <2>1, ConsumedParts, PTL
<1>4. /\ Plain(disk)' /\ Plain(buffer)'
      /\ LinksEnd(disk'.paths) /\ LinksEnd(buffer'.paths)
  BY SavedParts DEF EditInvariant
<1>5. disk'.kind = "directory" /\ buffer'.kind = "directory"
  <2>1. disk'.kind = disk.kind
    BY SaveKeepsKind
  <2> QED BY <1>1, <2>1 DEF EditInvariant, NoImage
<1>6. client.edits # "any" /\ pc' = "saving" => Complete(buffer)'
  BY <1>1 DEF EditInvariant, Complete
<1>7. client.edits # "any" /\ torn' = 0 => CarefulSession'
  <2>1. SUFFICES ASSUME client.edits # "any", torn' = 0 PROVE CarefulSession'
    OBVIOUS
  <2>2. ~SaveFails
    BY <2>1 DEF SaveFails, EditTypeOK
  <2>3. torn = 0 /\ (WriteFile \/ SaveReturns)
    BY <2>1, <2>2 DEF WriteFile, SaveReturns
  <2>4. CarefulSession /\ disk.kind = buffer.kind
    BY <2>1, <2>3 DEF EditInvariant
  <2> QED BY <2>3, <2>4, SessionWrites, SessionReturns
<1> QED
  BY <1>1, <1>2, <1>3, <1>4, <1>5, <1>6, <1>7 DEF EditInvariant

LEMMA EditStep ==
  ASSUME SoundClients, EditTypeOK, EditTypeOK', EditInvariant, [EditNext]_editVars
  PROVE  EditInvariant'
<1>1. CASE UNCHANGED editVars
  BY <1>1, EditStutters
<1>2. CASE EditNext
  <2>1. /\ client' = client
        /\ \/ EngineStep
           \/ \E f \in DOMAIN folder : Rearrange(f)
           \/ BufferImage \/ WriteFile \/ SaveReturns \/ SaveFails
    BY <1>2, EditSteps
  <2> QED BY <2>1, EditsEngine, EditsRearrange, EditsBuffer, EditsSave
<1> QED
  BY <1>1, <1>2

\* What resolve sets is what the image has; nothing else sets what was not.
LEMMA ResolvesAsStored ==
  ASSUME SoundClients, EditTypeOK, EditInvariant, [EditNext]_editVars,
         NEW i \in 1..Len(folders), ~IsSet(folder[folders[i]].children),
         IsSet(folder'[folders[i]].children)
  PROVE  ChildPaths(folders[i])' = ListFrom(disk, disk.folders[i].first)
<1> USE DEF heapVars, tableVars, lookupVars
<1>1. CASE folder' = folder
  BY <1>1
<1>2. ASSUME pc \in {"saving", "closed"} PROVE FALSE
  <2>1. folders = <<>>
    BY <1>2 DEF EditTypeOK, EditInvariant, Consumed
  <2>2. 1..Len(folders) = {}
    BY <2>1
  <2> QED BY <2>2
<1>3. TypeOK /\ pc # "saving" /\ folders[i] \in DOMAIN folder
  BY <1>2, TableCells DEF EditTypeOK
<1>4. ~Settled
  BY <1>3 DEF Settled
<1>5. pc \notin {"add", "push"}
  BY <1>4 DEF EditInvariant, SessionOK
<1>6. CASE folder' # folder
  <2>1. EditNext
    BY <1>6 DEF editVars, vars
  <2>2. EngineStep
    <3>1. ~BufferImage /\ ~WriteFile /\ ~SaveReturns /\ ~SaveFails
      BY <1>3, <1>5 DEF BufferImage, Pushed, WriteFile, SaveReturns, SaveFails, Saving
    <3>2. \A f \in DOMAIN folder : ~Rearrange(f)
      BY <1>4 DEF Rearrange
    <3> QED BY <2>1, <3>1, <3>2, EditSteps
  <2>3. WalkStop
    <3>1. ~Still /\ ~ResolvePaths /\ ~Reorganize
          /\ ~(\E p \in DOMAIN folderLookup : ListFolder(folderLookup[p]))
      BY <1>6, StillTables DEF ResolvePaths, Reorganize, ListFolder
    <3>2. ~Read
      BY <1>2 DEF Read
    <3>3. ~MakeFolder /\ ~MakeFile
      BY <1>5 DEF MakeFolder, MakeFile, Descending, Landing
    <3> QED BY <2>2, <3>1, <3>2, <3>3, EngineSteps
  <2> QED BY <1>3, <2>3, WalkStopAsStored DEF EditInvariant
<1> QED
  BY <1>1, <1>6

-----------------------------------------------------------------------------
(* The theorems.  SoundClients says that what the clients begin with is a  *)
(* tree without padding, and that they resolve an engine before they write *)
(* it and look at what they call it with.                                  *)

THEOREM EditInvariantHolds ==
  SoundClients /\ EditSpec => [](EditTypeOK /\ EditInvariant)
<1> SUFFICES ASSUME SoundClients PROVE EditSpec => [](EditTypeOK /\ EditInvariant)
  OBVIOUS
<1>1. EditInit => EditTypeOK /\ EditInvariant
  BY EditTypeInit, EditBegins
<1>2. EditTypeOK /\ EditInvariant /\ [EditNext]_editVars => EditTypeOK' /\ EditInvariant'
  <2> SUFFICES ASSUME EditTypeOK, EditInvariant, [EditNext]_editVars
               PROVE  EditTypeOK' /\ EditInvariant'
    OBVIOUS
  <2>1. client.edits = "linked" => pc = "saving" \/ NoChildTwice
    BY DEF EditInvariant, LayoutOK
  <2>2. EditTypeOK'
    BY <2>1, EditTypeStep
  <2> QED BY <2>2, EditStep
<1> QED
  BY <1>1, <1>2, PTL DEF EditSpec

\* EditTypeOK: whatever is edited, saved and torn, the engine and both images
\* are what the code's types say.
THEOREM EditTypeCorrect == SoundClients /\ EditSpec => []EditTypeOK
BY EditInvariantHolds, PTL

\* SavesAreComplete: what to_directory has buffered is apart, has all its
\* entries in its lists and all its keys in its entries; and while no save has
\* failed no path twice.
THEOREM WholeSaves == SoundClients /\ EditSpec => []SavesAreComplete
<1>1. EditTypeOK /\ EditInvariant => SavesAreComplete
  BY DEF EditInvariant, SavesAreComplete, CarefulSession
<1> QED
  BY <1>1, EditInvariantHolds, PTL

\* ListsEnd: of whatever engines the tables on disk are, resolve follows every
\* list of them to its end.
THEOREM ListsOnDiskEnd == SoundClients /\ EditSpec => []ListsEnd
<1>1. EditTypeOK /\ EditInvariant => ListsEnd
  <2> SUFFICES ASSUME EditTypeOK, EditInvariant, NEW f \in 1..Len(disk.folders)
               PROVE  Hops(disk, disk.folders[f].first)[Len(disk.paths)] >= Len(disk.paths)
    BY DEF ListsEnd
  <2>1. disk \in Image /\ LinksEnd(disk.paths)
    BY DEF EditTypeOK, EditInvariant
  <2>2. disk.folders[f].first \in Nat
    <3>1. disk.folders \in Seq(FolderEntry)
      BY <2>1 DEF Image
    <3>2. disk.folders[f] \in FolderEntry
      BY <3>1, ElementOfSeq
    <3> QED BY <3>2 DEF FolderEntry
  <2> QED BY <2>1, <2>2, EndOfLinks
<1> QED
  BY <1>1, EditInvariantHolds, PTL

\* SavedAsShown: the lists a save buffers are the vectors of the engine it
\* consumes, folder by folder.
THEOREM SavesWhatItShows == SoundClients /\ EditSpec => SavedAsShown
<1>1. EditTypeOK /\ EditInvariant /\ [EditNext]_editVars
        => [client.edits # "any" /\ pc # "saving" /\ pc' = "saving" =>
              {<<buffer'.folders[i].fullPath, ListFrom(buffer', buffer'.folders[i].first)>> :
                 i \in 1..Len(buffer'.folders)}
                = {<<folder[f].fullPath, ChildPaths(f)>> : f \in Cells(folders)}]_editVars
  <2> SUFFICES ASSUME EditTypeOK, EditInvariant, [EditNext]_editVars,
                      client.edits # "any", pc # "saving", pc' = "saving"
               PROVE  {<<buffer'.folders[i].fullPath,
                         ListFrom(buffer', buffer'.folders[i].first)>> :
                         i \in 1..Len(buffer'.folders)}
                        = {<<folder[f].fullPath, ChildPaths(f)>> : f \in Cells(folders)}
    OBVIOUS
  <2>1. EditNext
    BY DEF editVars, vars
  <2>2. TypeOK
    BY DEF EditTypeOK
  <2>3. ~EngineStep
    <3>1. EngineStep => TypeOK'
      BY <2>2, TypeStep DEF EngineStep
    <3> QED BY <3>1 DEF TypeOK
  <2>4. BufferImage
    <3>1. ~WriteFile /\ ~SaveReturns /\ ~SaveFails /\ \A f \in DOMAIN folder : ~Rearrange(f)
      BY DEF WriteFile, SaveReturns, SaveFails, Saving, Rearrange
    <3> QED BY <2>1, <2>3, <3>1, EditSteps
  <2> QED BY <2>4, BufferParts DEF EditInvariant
<1> QED
  BY <1>1, EditInvariantHolds, PTL DEF EditSpec, SavedAsShown

\* ResolvedAsStored: a vector that resolve makes is the list of the image it
\* was read from, of its own folder, also where lists meet.
THEOREM ResolvesWhatIsStored == SoundClients /\ EditSpec => ResolvedAsStored
<1> SUFFICES ASSUME SoundClients PROVE EditSpec => ResolvedAsStored
  OBVIOUS
<1>1. EditTypeOK /\ EditInvariant /\ [EditNext]_editVars
        => [\A i \in 1..Len(folders) :
              ~IsSet(folder[folders[i]].children) /\ IsSet(folder'[folders[i]].children)
                => ChildPaths(folders[i])' = ListFrom(disk, disk.folders[i].first)]_editVars
  BY ResolvesAsStored
<1> QED
  BY <1>1, EditInvariantHolds, PTL DEF EditSpec, ResolvedAsStored
=============================================================================
