------------------------- MODULE SearchFsInvariant -------------------------
(***************************************************************************)
(* The inductive invariant of SearchFs: what a state of the engine keeps    *)
(* that OneOwner, ChildrenAreLinked, NoOverlappingGuids and DiskIsForest    *)
(* follow from, for every client; and what a careful client's program keeps *)
(* beyond that, which LookupIsTree, FolderRefsAgree and NoPanic follow from. *)
(* SearchFsProofs proves them; TLC checks the former on the careless       *)
(* instance of MCSearchFs.                                                 *)
(***************************************************************************)
EXTENDS SearchFs

-----------------------------------------------------------------------------
(* An engine nobody has resolved: its references are the image's indices,  *)
(* which form the image's forest, and a writer stops at the first folder.  *)

FreshLinksApart ==
  /\ \A c \in DOMAIN path : ~IsCell(path[c].next)
  /\ \A c, d \in DOMAIN path :
       IsUnresolved(path[c].next) /\ path[c].next = path[d].next => c = d
  /\ \A f, g \in DOMAIN folder :
       folder[f].children.index = folder[g].children.index
         => f = g \/ folder[f].children.index = INVALID_INDEX
  /\ \A f \in DOMAIN folder, c \in DOMAIN path :
       IsUnresolved(path[c].next)
         /\ path[c].next.index = folder[f].children.index
         => folder[f].children.index = INVALID_INDEX

Fresh ==
  /\ pc # "walk"
  /\ pc = "push" => k <= Len(folders)
  /\ Cells(folders) = DOMAIN folder /\ Cells(paths) = DOMAIN path
  /\ Len(paths) <= INVALID_INDEX
  /\ \A m, n \in 1..Len(paths) : paths[m] = paths[n] => m = n
  /\ \A f \in DOMAIN folder : ~IsSet(folder[f].children)
  /\ FreshLinksApart

-----------------------------------------------------------------------------
(* An engine whose paths are resolved. *)

\* What is known of the children of a folder: the vector, or as much of it as
\* resolve has walked.
Collected(f) ==
  IF IsSet(folder[f].children) THEN folder[f].children.cells
  ELSE IF pc = "walk" /\ k <= Len(folders) /\ folders[k] = f THEN walked
  ELSE <<>>

\* f's children are still an index, and h is the cell they will begin with.
Begins(f, h) ==
  /\ ~IsSet(folder[f].children)
  /\ InBounds(paths, folder[f].children.index)
  /\ h = CellAt(paths, folder[f].children.index)

NoneUnresolved == \A c \in DOMAIN path : ~IsUnresolved(path[c].next)

NextInjective ==
  \A c, d \in DOMAIN path :
    IsCell(path[c].next) /\ path[c].next = path[d].next => c = d

FollowsLinks ==
  \A f \in DOMAIN folder : \A i \in 1..(Len(Collected(f)) - 1) :
    path[Collected(f)[i]].next = Resolved(Collected(f)[i + 1])

EndsWithNone ==
  \A f \in DOMAIN folder :
    IsSet(folder[f].children) /\ Collected(f) # <<>>
      => path[LastOf(Collected(f))].next = None

CollectedOnce ==
  \A f, g \in DOMAIN folder :
    \A m \in 1..Len(Collected(f)), n \in 1..Len(Collected(g)) :
      Collected(f)[m] = Collected(g)[n] => f = g /\ m = n

FirstsFollowNone ==
  \A f \in DOMAIN folder, c \in DOMAIN path :
    Collected(f) # <<>> => path[c].next # Resolved(Collected(f)[1])

BeginningsApart ==
  \A f \in DOMAIN folder, h \in DOMAIN path :
    Begins(f, h) =>
      /\ \A c \in DOMAIN path : path[c].next # Resolved(h)
      /\ \A g \in DOMAIN folder : Begins(g, h) => f = g
      /\ \A g \in DOMAIN folder :
           IsSet(folder[g].children) =>
             \A i \in 1..Len(Collected(g)) : Collected(g)[i] # h

WalkOK ==
  /\ pc = "walk" /\ walked # <<>> => Begins(folders[k], walked[1])
  /\ \A f \in DOMAIN folder :
       ~IsSet(folder[f].children) =>
         pc = "walk" /\ \E i \in k..Len(folders) : folders[i] = f

\* Lists and vectors describe one forest.
Linked ==
  /\ NoneUnresolved
  /\ NextInjective
  /\ FollowsLinks
  /\ EndsWithNone
  /\ CollectedOnce
  /\ FirstsFollowNone
  /\ BeginningsApart
  /\ WalkOK

-----------------------------------------------------------------------------
(* The writer: what is in its tables comes from the folders passed so far. *)

FoldersOnce ==
  \A m, n \in 1..Len(folders) : folders[m] = folders[n] => m = n

PushedFolders ==
  \A f \in Cells(folderMaker.table) :
    \E i \in 1..Len(folders) : f = folders[i] /\ (i < k \/ (i = k /\ j >= 1))

PushedPaths ==
  \A c \in Cells(pathMaker.table) :
    \E i \in 1..Len(folders) :
      /\ i <= k
      /\ IsSet(folder[folders[i]].children)
      /\ \E n \in 1..Len(folder[folders[i]].children.cells) :
           c = folder[folders[i]].children.cells[n] /\ (i < k \/ n < j)

MakersOK ==
  /\ MakerOK(folderMaker) /\ MakerOK(pathMaker)
  /\ Len(pathMaker.table) <= MaxTable
  /\ pc = "push" => PushedFolders /\ PushedPaths

-----------------------------------------------------------------------------
\* A panicked engine's heap stays as the panic left it.
HeapOK ==
  /\ DOMAIN folder = {} \/ Fresh \/ Linked \/ pc = "panicked"
  /\ pc \in {"closed", "garbled"} => DOMAIN folder = {}
  /\ OneOwner /\ ChildrenAreLinked

\* The inductive invariant, relative to TypeOK: until somebody resolves the
\* engine its references are a forest of indices, from then on its vectors and
\* lists are a forest of cells, also in the middle of resolve; the tables name
\* no cell twice; and the image is a forest.
Invariant == DiskIsForest /\ FoldersOnce /\ HeapOK /\ MakersOK

-----------------------------------------------------------------------------
(* A careful client's program: full paths make a tree.                     *)

\* What the full paths of a folder's children begin with.
Prefix(p) == IF p = Root THEN Blank ELSE p

\* C is a list: what begins with "first" and goes on from each of its members
\* to those after it is all of C.
IsList(C, first, after) ==
  /\ first \in C
  /\ \A c \in C : after[c] \subseteq C
  /\ \A S \in SUBSET C :
       first \in S /\ (\A c \in S : after[c] \subseteq S) => S = C

\* The entries of an image that are no padding, those a folder is to list, and
\* the entries after an entry.
EntriesIn(image) == {i \in 1..Len(image.paths) : image.paths[i].fullPath # Blank}

ChildrenIn(image, f) ==
  {i \in EntriesIn(image) :
     Parent(image.paths[i].fullPath) = Prefix(image.folders[f].fullPath)}

AfterIn(image) ==
  [i \in 1..Len(image.paths) |->
     {n \in 1..Len(image.paths) : n = image.paths[i].next + 1}]

\* An image a careful client's archive may start from: no two entries have one
\* path, each path but a padding's is in the list of its parent's folder and
\* each list ends, path entries and folders match, and what is not a folder
\* has an extension.
IsTree(image) ==
  LET F == 1..Len(image.folders)
      folderPath(f) == image.folders[f].fullPath
      fullPath(i) == image.paths[i].fullPath
  IN /\ Aligned(image)
     /\ \E f \in F : folderPath(f) = Root
     /\ \A f, g \in F : folderPath(f) = folderPath(g) => f = g
     /\ \A i, h \in EntriesIn(image) : fullPath(i) = fullPath(h) => i = h
     /\ \A f \in F :
          /\ folderPath(f) # Blank
          /\ \/ folderPath(f) = Root
             \/ \E i \in EntriesIn(image) : fullPath(i) = folderPath(f)
          /\ IsList(ChildrenIn(image, f), image.folders[f].first + 1, AfterIn(image))
     /\ \A i \in EntriesIn(image) :
          /\ fullPath(i) # Root
          /\ \E f \in F : i \in ChildrenIn(image, f)
          /\ image.paths[i].isFolder <=> \E f \in F : folderPath(f) = fullPath(i)
          /\ image.paths[i].isFolder \/ HasExtension(fullPath(i))
     /\ \A i \in 1..Len(image.paths) :
          /\ fullPath(i) = Blank => ~image.paths[i].isFolder
          /\ \/ image.paths[i].next = INVALID_INDEX
             \/ image.paths[i].next < Len(image.paths)

\* A client that takes none of the liberties, of an archive that is a tree.
CarefulClient == Liberties = {} /\ \A image \in Images : IsTree(image)

-----------------------------------------------------------------------------
(* The engine.  Folders and paths in the order in which they were made are *)
(* a tree; so are the lookups, the lists and the vectors.                  *)

IsOpen == pc \in {"idle", "walk", "add", "push"}

Entries == {c \in DOMAIN path : path[c].fullPath # Blank}

ChildrenOf(f) ==
  {c \in Entries : Parent(path[c].fullPath) = Prefix(folder[f].fullPath)}

\* The cells after a cell, as an index or as a cell.
After ==
  [c \in DOMAIN path |->
     {d \in DOMAIN path :
        \/ path[c].next = Resolved(d)
        \/ /\ IsUnresolved(path[c].next)
           /\ InBounds(paths, path[c].next.index)
           /\ d = CellAt(paths, path[c].next.index)}]

FoldersNamed ==
  /\ Root \in DOMAIN folderLookup
  /\ DOMAIN folderLookup = {folder[f].fullPath : f \in DOMAIN folder}
  /\ \A f \in DOMAIN folder :
       folder[f].fullPath # Blank /\ folderLookup[folder[f].fullPath] = f

PathsNamed ==
  /\ DOMAIN pathLookup = {path[c].fullPath : c \in Entries}
  /\ \A c \in Entries : pathLookup[path[c].fullPath] = c

PathsInFolders ==
  \A c \in Entries :
    path[c].fullPath # Root /\ \E f \in DOMAIN folder : c \in ChildrenOf(f)

\* A path entry stands for a folder if and only if there is that folder.
EntriesMatchFolders ==
  /\ \A c \in Entries :
       IF IsNone(path[c].folder)
         THEN /\ path[c].fullPath \notin DOMAIN folderLookup
              /\ HasExtension(path[c].fullPath)
         ELSE /\ path[c].fullPath \in DOMAIN folderLookup
              /\ IsCell(path[c].folder) =>
                   path[c].folder.cell = folderLookup[path[c].fullPath]
  /\ DOMAIN folderLookup \subseteq DOMAIN pathLookup \cup {Root}
  /\ \A c \in DOMAIN path \ Entries : IsNone(path[c].folder)

\* No reference is an index once the engine is resolved; before, each of them
\* is one of an entry of the table.
RefsInBounds ==
  /\ Settled \/ pc = "walk" => \A c \in DOMAIN path : ~IsUnresolved(path[c].folder)
  /\ \A c \in DOMAIN path :
       IsUnresolved(path[c].next) => InBounds(paths, path[c].next.index)

ListsAreComplete ==
  \A f \in DOMAIN folder :
    IF IsSet(folder[f].children)
      THEN Cells(folder[f].children.cells) = ChildrenOf(f)
      ELSE /\ InBounds(paths, folder[f].children.index)
           /\ IsList(ChildrenOf(f), CellAt(paths, folder[f].children.index), After)

NoFolderIsEmpty ==
  \A f \in DOMAIN folder : ChildrenOf(f) # {} \/ (pc = "add" /\ f = current)

\* add_file is where the components done so far lead.
AddOK ==
  pc = "add" =>
    /\ Settled
    /\ WellNamed(file) /\ file \notin DOMAIN pathLookup
    /\ folder[current].fullPath =
         IF depth = 1 THEN Root ELSE SubSeq(file, 1, depth - 1)

\* The writer has what it has passed.
PushOK ==
  pc = "push" =>
    /\ Settled
    /\ target # "engine" => Listed
    /\ \A i \in 1..Len(folders) :
         i < k \/ (i = k /\ j >= 1) => HasCell(folderMaker, folders[i])
    /\ \A i \in 1..Len(folders) :
         \A n \in 1..Len(folder[folders[i]].children.cells) :
           i < k \/ (i = k /\ n < j) =>
             HasCell(pathMaker, folder[folders[i]].children.cells[n])

TreeOK ==
  IsOpen =>
    /\ FoldersNamed
    /\ PathsNamed
    /\ PathsInFolders
    /\ EntriesMatchFolders
    /\ RefsInBounds
    /\ ListsAreComplete
    /\ NoFolderIsEmpty

\* The inductive invariant of a careful client's program, relative to TypeOK
\* and Invariant.
CarefulInvariant == NoPanic /\ IsTree(disk) /\ TreeOK /\ AddOK /\ PushOK
=============================================================================
