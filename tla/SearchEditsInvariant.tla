------------------------ MODULE SearchEditsInvariant ------------------------
(***************************************************************************)
(* The inductive invariant of SearchEdits, which SavesAreComplete and       *)
(* ListsEnd follow from, and the action properties SavedAsShown and         *)
(* ResolvedAsStored.  A session may have read tables of two engines, so    *)
(* that vectors share cells: what is kept of them is what from_engine finds *)
(* to be so, or else panics.  SearchEditsProofs proves it.                 *)
(***************************************************************************)
EXTENDS SearchEdits, SearchFsInvariant

-----------------------------------------------------------------------------
(* Types.  While a save goes on its engine is gone. *)

Consumed ==
  /\ folder = EmptyMap /\ path = EmptyMap
  /\ folders = <<>> /\ paths = <<>>
  /\ folderLookup = EmptyMap /\ pathLookup = EmptyMap
  /\ folderMaker = NewMaker /\ pathMaker = NewMaker
  /\ guid \in Nat /\ file \in FullPaths /\ depth \in Nat /\ current \in Nat
  /\ k \in Nat /\ j \in Nat /\ walked = <<>>
  /\ target \in {"engine", "memory", "directory"}

EditTypeOK ==
  /\ client \in Clients
  /\ disk \in Image /\ buffer \in Image
  /\ done \in 0..Len(FilesInOrder)
  /\ ragged \subseteq {"folders", "paths"}
  /\ torn \in Nat
  /\ IF pc = "saving" THEN Consumed ELSE TypeOK

-----------------------------------------------------------------------------
(* The engine as it was read, until it is resolved. *)

\* What resolve finds is what the image has.
RefersTo(ref, n) ==
  IF n = INVALID_INDEX THEN ref = None
  ELSE \/ ref = Unresolved(n)
       \/ InBounds(paths, n) /\ ref = Resolved(CellAt(paths, n))

AsOnDisk ==
  /\ Len(folders) = Len(disk.folders) /\ Len(paths) = Len(disk.paths)
  /\ Cells(folders) = DOMAIN folder /\ Cells(paths) = DOMAIN path
  /\ \A m, n \in 1..Len(paths) : paths[m] = paths[n] => m = n
  /\ \A i \in 1..Len(folders) :
       ~IsSet(folder[folders[i]].children) =>
         folder[folders[i]].children = Start(disk.folders[i].first)
  /\ \A i \in 1..Len(paths) :
       /\ path[paths[i]].fullPath = disk.paths[i].fullPath
       /\ RefersTo(path[paths[i]].next, disk.paths[i].next)

\* The children found so far are those of the folder resolve is at.
WalkFollowsDisk ==
  pc = "walk" /\ walked # <<>> =>
    /\ ~IsSet(folder[folders[k]].children)
    /\ InBounds(paths, disk.folders[k].first)
    /\ walked[1] = CellAt(paths, disk.folders[k].first)
    /\ \A i \in 1..(Len(walked) - 1) : path[walked[i]].next = Resolved(walked[i + 1])

SessionOK ==
  /\ pc \in {"add", "push"} => Settled
  /\ pc \in {"idle", "walk"} /\ ~Settled => AsOnDisk
  /\ WalkFollowsDisk
  /\ DOMAIN folder # {}
       /\ (pc = "walk" \/ \E f \in DOMAIN folder : IsSet(folder[f].children))
         => NoneUnresolved

-----------------------------------------------------------------------------
(* The vectors of a client that keeps them in step with the links. *)

SetFolders == {f \in DOMAIN folder : IsSet(folder[f].children)}

Vector(f) == folder[f].children.cells

\* f shares no child with another folder.
Alone(f) ==
  \A g \in SetFolders : f # g => Cells(Vector(f)) \cap Cells(Vector(g)) = {}

NoChildTwice ==
  \A f \in SetFolders : \A m, n \in 1..Len(Vector(f)) :
    Vector(f)[m] = Vector(f)[n] => m = n

\* What the table of folders lacks was made by add_file.
NewFoldersAlone == \A f \in SetFolders \ Cells(folders) : Alone(f)

LinkedIfAlone ==
  \A f \in SetFolders :
    Alone(f) =>
      \A i \in 1..Len(Vector(f)) :
        path[Vector(f)[i]].next =
          IF i < Len(Vector(f)) THEN Resolved(Vector(f)[i + 1]) ELSE None

LayoutOK == NoChildTwice /\ NewFoldersAlone /\ LinkedIfAlone

-----------------------------------------------------------------------------
(* The writer has what it has passed, and nothing twice. *)

\* The n-th child of the i-th folder is in the writer's table.
Passed(i, n) ==
  /\ i \in 1..Len(folders) /\ n \in 1..Len(Vector(folders[i]))
  /\ i < k \/ (i = k /\ n < j)

PassedOK ==
  pc = "push" =>
    /\ \A i \in 1..Len(folders) :
         i < k \/ (i = k /\ j >= 1) => HasCell(folderMaker, folders[i])
    /\ \A i \in 1..Len(folders) : \A n \in 1..Len(Vector(folders[i])) :
         Passed(i, n) => HasCell(pathMaker, Vector(folders[i])[n])
    /\ \A i, h \in 1..Len(folders) :
         \A m \in 1..Len(Vector(folders[i])), n \in 1..Len(Vector(folders[h])) :
           Passed(i, m) /\ Passed(h, n)
             /\ Vector(folders[i])[m] = Vector(folders[h])[n]
           => i = h /\ m = n

-----------------------------------------------------------------------------
(* Names.  No image has padding, and each index fits in 24 bits. *)

Plain(image) ==
  /\ Len(image.paths) <= INVALID_INDEX
  /\ \A n \in 1..Len(image.paths) : image.paths[n].fullPath # Blank

PathsFound ==
  /\ Blank \notin DOMAIN pathLookup
  /\ \A c \in DOMAIN path : path[c].fullPath \in DOMAIN pathLookup
  /\ \A p \in DOMAIN pathLookup : path[pathLookup[p]].fullPath = p

-----------------------------------------------------------------------------
(* Links.  Going on from entry to entry, or from cell to cell, ends. *)

LinksEnd(entries) ==
  \A S \in SUBSET (1..Len(entries)) :
    S # {} => \E n \in S : entries[n].next + 1 \notin S

CellsEnd ==
  \A S \in SUBSET DOMAIN path : S # {} => \E c \in S : After[c] \cap S = {}

-----------------------------------------------------------------------------
(* Saves that all returned: the engine is that of a careful client, and the *)
(* tables of the image make a tree.                                        *)

Saved(file_) == disk[file_] = buffer[file_]

CarefulSession ==
  IF pc = "saving"
    THEN /\ IsTree(buffer) /\ IsForest(buffer)
         /\ \A i \in 1..done : Saved(FilesInOrder[i])
         /\ Cardinality(buffer.pathKeys) = Len(buffer.paths)
    ELSE Invariant /\ CarefulInvariant

-----------------------------------------------------------------------------
\* The client's images are trees without padding.
SoundClients ==
  /\ Liberties = {}
  /\ \A c \in Clients :
       /\ c.image.kind = "directory"
       /\ IsTree(c.image) /\ Plain(c.image)

EditInvariant ==
  /\ pc = "closed" => Consumed
  /\ FoldersOnce /\ MakersOK
  /\ SessionOK /\ PassedOK
  /\ disk.kind = "directory" /\ buffer.kind = "directory"
  /\ Plain(disk) /\ Plain(buffer) /\ PathsFound
  /\ client.edits = "any" => CellsEnd
  /\ LinksEnd(disk.paths) /\ LinksEnd(buffer.paths)
  /\ client.edits # "any" =>
       /\ LayoutOK
       /\ pc = "saving" => Complete(buffer)
       /\ torn = 0 => CarefulSession
=============================================================================
