---------------------------- MODULE SearchEdits ----------------------------
(***************************************************************************)
(* A client that edits the children of search folders itself and saves to  *)
(* a directory, file by file.                                              *)
(*                                                                         *)
(* SearchFolder::children is public, and TableLinkedReference gives its     *)
(* vector away: replace, insert, clear, cells_mut (src/src/engines/table.rs). *)
(* None of them touches the next references the archive is written from;   *)
(* these the client sets with SearchPath::set_path, which can make a list   *)
(* go on but never end: no operation takes a next reference away.          *)
(*                                                                         *)
(* SearchWriter::to_directory (src/src/engines/search/mod.rs) buffers its    *)
(* five tables and writes one file after another; an error, or the end of   *)
(* the program, between two of them leaves tables of two engines side by    *)
(* side, and within one of them a part of a table.  from_directory reads    *)
(* two of the files and does not ask whether they belong together.         *)
(***************************************************************************)
EXTENDS SearchListing

SeqOps == INSTANCE SequencesExt

\* What a run's client does: the image it starts from, the files it adds, how
\* it edits vectors ("not", "linked": it links the cells anew, "any"), and the
\* bounds on its failing saves and on the cells made before its last reading.
CONSTANT Clients

ASSUME ClientsOK ==
  \A c \in Clients :
    /\ c.image \in Images
    /\ c.files \subseteq Files
    /\ c.edits \in {"not", "linked", "any"}
    /\ c.maxTorn \in Nat
    /\ c.maxRead \in 0..MaxGuid

VARIABLES
  client,  \* one of Clients
  buffer,  \* to_directory: the image in its buffers
  done,    \* to_directory: the files written
  ragged,  \* the tables on disk whose length is no multiple of their entries
  torn     \* saves that have failed

saveVars == <<buffer, done, ragged, torn>>
editVars == <<vars, saveVars, client>>

Unlisted == DOMAIN path \ Children

\* cells_mut: two children change places.
Swapped(cells) ==
  {[cells EXCEPT ![m] = cells[n], ![n] = cells[m]] : m, n \in 1..Len(cells)}

\* replace by a vector without one of them; clear.
Shortened(cells) ==
  {SeqOps!RemoveAt(cells, i) : i \in 1..Len(cells)} \cup {<<>>}

\* insert and push of a path that is in no folder.
Lengthened(cells) ==
  {SeqOps!InsertAt(cells, i, c) : i \in 1..(Len(cells) + 1), c \in Unlisted}

Rearranged(cells) == Swapped(cells) \cup Shortened(cells) \cup Lengthened(cells)

\* Mutant: the last cell is linked to the first as well.
LinkedInRing(heap, cells) ==
  [c \in DOMAIN heap |->
     IF \E i \in 1..Len(cells) : cells[i] = c
       THEN [heap[c] EXCEPT !.next =
               LET i == CHOOSE i \in 1..Len(cells) : cells[i] = c
               IN Resolved(cells[IF i = Len(cells) THEN 1 ELSE i + 1])]
       ELSE heap[c]]

\* set_path along a vector: each cell to the next, the last one as it was.
LinkedAlong(heap, cells) ==
  [c \in DOMAIN heap |->
     IF \E i \in 1..(Len(cells) - 1) : cells[i] = c
       THEN [heap[c] EXCEPT !.next =
               Resolved(cells[1 + CHOOSE i \in 1..Len(cells) : cells[i] = c])]
       ELSE heap[c]]

\* A careful client keeps a folder's children, leaves the last one where it is
\* (its next reference is the end of the list) and links the others anew.
KeepsTheEnd(f, cells) ==
  /\ Cells(cells) = Cells(folder[f].children.cells)
  /\ LastOf(cells) = LastOf(folder[f].children.cells)

Rearrange(f) ==
  /\ pc = "idle"
  /\ Settled
  /\ \E cells \in Rearranged(folder[f].children.cells) :
       /\ folder' = [folder EXCEPT ![f].children = Set(cells)]
       /\ \/ client.edits = "any" /\ UNCHANGED path
          \/ /\ client.edits = "linked"
             /\ KeepsTheEnd(f, cells)
             /\ path' = LinkedAlong(path, cells)
  /\ UNCHANGED <<guid, tableVars, lookupVars, disk, pc, addVars, walkVars,
                 makerVars, saveVars>>

-----------------------------------------------------------------------------
FilesInOrder == <<"folders", "paths", "pathLinks", "folderKeys", "pathKeys">>

NoImage ==
  [kind |-> "directory", folders |-> <<>>, paths |-> <<>>, folderKeys |-> {},
   pathKeys |-> {}, pathLinks |-> 0]

-----------------------------------------------------------------------------
\* The engine is consumed before the first byte is written.
BufferImage ==
  /\ Pushed
  /\ target = "directory"
  /\ Serialisable
  /\ buffer' = WrittenImage
  /\ done' = 0
  /\ pc' = "saving"
  /\ folder' = EmptyMap /\ path' = EmptyMap
  /\ folders' = <<>> /\ paths' = <<>>
  /\ folderLookup' = EmptyMap /\ pathLookup' = EmptyMap
  /\ k' = 0
  /\ folderMaker' = NewMaker /\ pathMaker' = NewMaker
  /\ target' = "engine"
  /\ UNCHANGED <<guid, addVars, walked, j, disk, ragged, torn>>

Saving == pc = "saving" /\ done < Len(FilesInOrder)

File == FilesInOrder[done + 1]

\* fs::write replaces a file.
WriteFile ==
  /\ Saving
  /\ disk' = [disk EXCEPT ![File] = buffer[File]]
  /\ done' = done + 1
  /\ ragged' = ragged \ {File}
  /\ UNCHANGED <<heapVars, tableVars, lookupVars, pc, addVars, walkVars,
                 makerVars, buffer, torn>>

Closes ==
  /\ pc' = "closed"
  /\ buffer' = NoImage
  /\ done' = 0
  /\ UNCHANGED <<heapVars, tableVars, lookupVars, addVars, walkVars, makerVars>>

SaveReturns ==
  /\ pc = "saving"
  /\ done = Len(FilesInOrder)
  /\ Closes
  /\ UNCHANGED <<disk, ragged, torn>>

\* fs::write truncates the file and then writes: the old table may be there
\* still, or the first entries of the new one, with or without a part of the
\* next.
TearTable ==
  LET new == buffer[File]
  IN \/ UNCHANGED <<disk, ragged>>
     \/ \E n \in 0..Len(new) :
          /\ disk' = [disk EXCEPT ![File] = SubSeq(new, 1, n)]
          /\ \/ ragged' = ragged \ {File}
             \/ n < Len(new) /\ ragged' = ragged \cup {File}

SaveFails ==
  /\ Saving
  /\ torn < client.maxTorn
  /\ torn' = torn + 1
  /\ IF File \in {"folders", "paths"} THEN TearTable ELSE UNCHANGED <<disk, ragged>>
  /\ Closes

-----------------------------------------------------------------------------
EditInit ==
  /\ Init
  /\ client \in Clients
  /\ disk = client.image
  /\ buffer = NoImage /\ done = 0 /\ ragged = {} /\ torn = 0

\* read_table: a table that ends within an entry is an error.
ReadWhole ==
  /\ ragged = {}
  /\ guid + Len(disk.folders) + Len(disk.paths) <= client.maxRead
  /\ Read
  /\ UNCHANGED saveVars

SaveStep == BufferImage \/ WriteFile \/ SaveReturns \/ SaveFails

EditedCallStep ==
  /\ \/ SaveStep
     \/ /\ \/ ResolveStep \/ AddStep
           \/ PushFolder \/ PushPath \/ PushNext \/ Reorganize \/ WritePanics
        /\ UNCHANGED saveVars
  /\ UNCHANGED client

EditedClientStep ==
  /\ \/ ReadWhole
     \/ \E f \in DOMAIN folder : Rearrange(f)
     \/ /\ \/ ResolvePaths \/ ResolvePathsPanics
           \/ \E f \in client.files : AddFile(f)
           \/ \E p \in DOMAIN folderLookup : ListFolder(folderLookup[p])
           \/ \E t \in {"engine", "directory"} : FromEngine(t)
        /\ UNCHANGED saveVars
  /\ UNCHANGED client

EditNext == EditedCallStep \/ EditedClientStep

\* A call that has begun runs on; nothing obliges the client to make one.
EditSpec == EditInit /\ [][EditNext]_editVars /\ WF_editVars(EditedCallStep)

-----------------------------------------------------------------------------
(* Properties. *)

\* What a save buffers shows what the engine shows, if the client linked what
\* it rearranged: the links of paths are all that is stored of a vector
\* (types.rs, SearchPath::write_options), so every edit must keep them in step.
\* Each folder has its list, also where two of them have one path.
SavedAsShown ==
  [][client.edits # "any" /\ pc # "saving" /\ pc' = "saving" =>
       {<<buffer'.folders[i].fullPath, ListFrom(buffer', buffer'.folders[i].first)>> :
          i \in 1..Len(buffer'.folders)}
         = {<<folder[f].fullPath, ChildPaths(f)>> : f \in Cells(folders)}]_editVars

\* The vector that resolve first makes of a folder's list is the list of the
\* image, whichever folders were resolved before it.
ResolvedAsStored ==
  [][\A i \in 1..Len(folders) :
       ~IsSet(folder[folders[i]].children) /\ IsSet(folder'[folders[i]].children)
         => ChildPaths(folders[i])' = ListFrom(disk, disk.folders[i].first)]_editVars

\* However vectors were rearranged, as long as only add_file sets links the
\* lists of an image end: resolve follows them without looking back.
ListsEnd ==
  \A f \in 1..Len(disk.folders) :
    Hops(disk, disk.folders[f].first)[Len(disk.paths)] >= Len(disk.paths)

\* Whatever part of a save reached the disk, the next session's resolve ends:
\* it finds the list's end or panics at an index outside the table.  All the
\* links of an image are in one file.
CallsEnd ==
  pc \in {"walk", "add", "push", "saving"}
    ~> pc \notin {"walk", "add", "push", "saving"}

\* The entries of the list that begins with "first".
EntriesFrom(image, first) ==
  LET n == Len(image.paths)
      hop == Hops(image, first)
  IN {hop[i] + 1 : i \in {i \in 0..n : hop[i] < n}}

\* The lists of an image are apart, each entry is in one of them, and the keys
\* are the paths of the entries.
Complete(image) ==
  /\ IsForest(image)
  /\ \A n \in 1..Len(image.paths) : \E f \in 1..Len(image.folders) :
       n \in EntriesFrom(image, image.folders[f].first)
  /\ {image.paths[n].fullPath : n \in 1..Len(image.paths)} = image.pathKeys

\* What a save puts on disk as a whole is complete, unless the client left
\* vectors and links apart, and also if the session had read tables of two
\* engines: from_engine panics on a list that two folders share, to_directory on
\* a path that no folder has, before anything is written.  Only what such a
\* session adds may be there twice: add_file looks for a folder among the
\* children of its parent, which two engines' tables can put elsewhere.
SavesAreComplete ==
  pc = "saving" /\ client.edits # "any" =>
    /\ Complete(buffer)
    /\ torn = 0 => Cardinality(buffer.pathKeys) = Len(buffer.paths)
=============================================================================
