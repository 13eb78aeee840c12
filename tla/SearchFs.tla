------------------------------ MODULE SearchFs ------------------------------
(***************************************************************************)
(* The search filesystem of the archive (src/src/engines/search).          *)
(*                                                                         *)
(* A SearchFolder refers to the head of a linked list of SearchPaths, its  *)
(* children; a SearchPath that stands for a folder refers to that folder.  *)
(* An engine is read from an image, resolved, edited with add_file, put    *)
(* back into table order by a writer and serialised to an image again.     *)
(* The loops of a call are one step per turn.  A panic unwinds through the *)
(* engine's owner: the engine is lost and nothing more happens.            *)
(***************************************************************************)
EXTENDS Tables, FiniteSets

CONSTANTS
  Names,      \* components of a path
  Dotted,     \* the names that have an extension
  Files,      \* the arguments add_file is called with
  Images,     \* the images an archive may start from
  Liberties,  \* what a careless client does: see Settled, WellNamed, Listed
  MaxGuid,    \* bound: cells made in a run
  MaxTable    \* bound: entries of a table, so that an index fits in 24 bits

VARIABLES
  folder, path,              \* the cells: GUID -> SearchFolder, SearchPath
  guid,                      \* the static counter of TableCell::new
  folders, paths,            \* SearchEngine: the tables
  folderLookup, pathLookup,  \* SearchEngine: full path -> cell
  disk,                      \* the image last written, or the original
  pc,                        \* where the thread that owns the engine is
  file, depth, current,      \* add_file: argument, components done, folder
  k, walked,                 \* resolve, from_engine: folder; children found
  j, folderMaker, pathMaker, \* from_engine: child; SearchWriter
  target                     \* what the writer was made for

heapVars == <<folder, path, guid>>
tableVars == <<folders, paths>>
lookupVars == <<folderLookup, pathLookup>>
addVars == <<file, depth, current>>
walkVars == <<k, walked>>
makerVars == <<j, folderMaker, pathMaker, target>>
vars == <<heapVars, tableVars, lookupVars, disk, pc, addVars, walkVars,
          makerVars>>

-----------------------------------------------------------------------------
(* Full paths.  The root folder is "/"; the parent of "fighter" is "".  An  *)
(* entry with the blank path is padding of the table.                      *)

Slash == "/"
Root == <<Slash>>
Blank == <<>>
FullPaths == Seq(Names \cup {Slash})

Parent(p) == SubSeq(p, 1, Len(p) - 1)

HasExtension(p) == LastOf(p) \in Dotted

-----------------------------------------------------------------------------
(* The records, as parsed, as made by from_str, and as serialised. *)

\* F and P are the GUIDs of the folders and paths there are: no reference
\* dangles.
SearchFolder(P) ==
  [fullPath : FullPaths, parent : FullPaths, fileCount : Nat,
   folderCount : Nat, children : ReferenceSetOf(P)]

SearchPath(F, P) ==
  [fullPath : FullPaths, parent : FullPaths, folder : ReferenceTo(F),
   next : ReferenceTo(P)]

FolderEntry ==
  [fullPath : FullPaths, parent : FullPaths, fileCount : Nat,
   folderCount : Nat, first : Nat]

PathEntry ==
  [fullPath : FullPaths, parent : FullPaths, isFolder : BOOLEAN, next : Nat]

\* The hash -> index lookups are there by their keys, the links by their number.
Image ==
  [kind : {"memory", "directory"},
   folders : Seq(FolderEntry), paths : Seq(PathEntry),
   folderKeys : SUBSET FullPaths, pathKeys : SUBSET FullPaths, pathLinks : Nat]

\* The links of an image, which fit in 24 bits, are lists apart from each
\* other: no entry follows two others, begins two lists, or begins one and
\* follows another.
IsForest(image) ==
  LET next(i) == image.paths[i].next
      first(f) == image.folders[f].first
  IN /\ Len(image.paths) <= INVALID_INDEX
     /\ \A m, n \in 1..Len(image.paths) :
          next(m) = next(n) /\ next(m) # INVALID_INDEX => m = n
     /\ \A f, g \in 1..Len(image.folders) :
          first(f) = first(g) /\ first(f) # INVALID_INDEX => f = g
     /\ \A f \in 1..Len(image.folders), n \in 1..Len(image.paths) :
          first(f) = next(n) => first(f) = INVALID_INDEX

ASSUME ConstantsOK ==
  /\ Files \subseteq FullPaths \ {Blank}
  /\ Images \subseteq Image /\ \A image \in Images : IsForest(image)
  /\ MaxGuid \in Nat
  /\ MaxTable \in Nat /\ MaxTable <= INVALID_INDEX

ParseFolder(entry) ==
  [fullPath |-> entry.fullPath, parent |-> entry.parent,
   fileCount |-> entry.fileCount, folderCount |-> entry.folderCount,
   children |-> Start(entry.first)]

ParsePath(entry) ==
  [fullPath |-> entry.fullPath, parent |-> entry.parent,
   folder |-> IF entry.isFolder THEN Unresolved(INVALID_INDEX) ELSE None,
   next |-> IF entry.next = INVALID_INDEX THEN None
                                          ELSE Unresolved(entry.next)]

\* Mutant: from_str without children.replace(vec![]).
UnresolvedNewFolder(p) ==
  [fullPath |-> p, parent |-> Parent(p), fileCount |-> 0, folderCount |-> 0,
   children |-> Start(INVALID_INDEX)]

NewFolder(p) ==
  [fullPath |-> p, parent |-> Parent(p), fileCount |-> 0, folderCount |-> 0,
   children |-> Set(<<>>)]

NewPath(p, folderRef) ==
  [fullPath |-> p, parent |-> Parent(p), folder |-> folderRef, next |-> None]

WriteFolder(f) ==
  LET cells == f.children.cells IN
  [fullPath |-> f.fullPath, parent |-> f.parent,
   fileCount |-> HashKeyIndex(f.fileCount),
   folderCount |-> HashKeyIndex(f.folderCount),
   first |-> IF cells = <<>> THEN INVALID_INDEX
                             ELSE GetIndex(pathMaker, cells[1])]

\* Mutant: a path without a next entry is written with index 0.
ZeroForNoNext(p) ==
  [fullPath |-> p.fullPath, parent |-> p.fullPath,
   isFolder |-> ~IsNone(p.folder),
   next |-> IF IsNone(p.next) THEN 0
            ELSE HashKeyIndex(GetIndex(pathMaker, p.next.cell))]

\* The parent field is written from full_path.
WritePath(p) ==
  [fullPath |-> p.fullPath, parent |-> p.fullPath,
   isFolder |-> ~IsNone(p.folder),
   next |-> IF IsNone(p.next) THEN INVALID_INDEX
            ELSE HashKeyIndex(GetIndex(pathMaker, p.next.cell))]

-----------------------------------------------------------------------------
(* What a careful client sees to; "Liberties" names what it does not. *)

Settled == \A f \in DOMAIN folder : IsSet(folder[f].children)

Listed == {folderLookup[p] : p \in DOMAIN folderLookup} \subseteq Cells(folders)

WellNamed(p) ==
  /\ p[1] # Slash
  /\ HasExtension(p)
  /\ \A i \in 1..(Len(p) - 1) : p[i] \notin Dotted

Careful(liberty, condition) == liberty \in Liberties \/ condition

-----------------------------------------------------------------------------
Init ==
  /\ folder = EmptyMap /\ path = EmptyMap /\ guid = 0
  /\ folders = <<>> /\ paths = <<>>
  /\ folderLookup = EmptyMap /\ pathLookup = EmptyMap
  /\ disk \in Images
  /\ pc = "closed"
  /\ file = <<>> /\ depth = 0 /\ current = 0
  /\ k = 0 /\ walked = <<>>
  /\ j = 0 /\ folderMaker = NewMaker /\ pathMaker = NewMaker
  /\ target = "engine"

Panic ==
  /\ pc' = "panicked"
  /\ UNCHANGED <<heapVars, tableVars, lookupVars, disk, addVars, walkVars,
                 makerVars>>

-----------------------------------------------------------------------------
(* Reading: SearchEngine::from_directory, or ArchiveUserTables::read_options *)
(* for the image in the archive.                                           *)

\* The archive's reader skips as many keys and links as the header counts.
Aligned(image) ==
  image.kind = "memory" =>
    /\ Cardinality(image.folderKeys) = Len(image.folders)
    /\ Cardinality(image.pathKeys) = image.pathLinks

Read ==
  LET nf == Len(disk.folders)
      np == Len(disk.paths)
  IN /\ pc = "closed"
     /\ Aligned(disk)
     /\ guid + nf + np <= MaxGuid
     /\ folders' = [i \in 1..nf |-> guid + i - 1]
     /\ paths' = [i \in 1..np |-> guid + nf + i - 1]
     /\ folder' = [g \in guid..(guid + nf - 1) |->
                     ParseFolder(disk.folders[g - guid + 1])]
     /\ path' = [g \in (guid + nf)..(guid + nf + np - 1) |->
                   ParsePath(disk.paths[g - guid - nf + 1])]
     /\ guid' = guid + nf + np
     /\ folderLookup' = LookupOf(disk.folders, guid, {})
     /\ pathLookup' = LookupOf(disk.paths, guid + nf, {Blank})
     /\ pc' = "idle"
     /\ UNCHANGED <<disk, addVars, walkVars, makerVars>>

\* Entries are parsed out of the wrong bytes: what follows is not modelled.
ReadGarbled ==
  /\ pc = "closed"
  /\ ~Aligned(disk)
  /\ pc' = "garbled"
  /\ UNCHANGED <<heapVars, tableVars, lookupVars, disk, addVars, walkVars,
                 makerVars>>

-----------------------------------------------------------------------------
(* resolve: every path, then every folder along the links of its children. *)

Resolvable(p) ==
  /\ IsUnresolved(p.folder) => p.fullPath \in DOMAIN folderLookup
  /\ IsUnresolved(p.next) => InBounds(paths, p.next.index)

ResolvePath(p) ==
  [p EXCEPT !.folder = IF IsUnresolved(@)
                         THEN Resolved(folderLookup[p.fullPath]) ELSE @,
            !.next = Resolve(@, paths)]

ResolvePaths ==
  /\ pc = "idle"
  /\ \A c \in Cells(paths) : Resolvable(path[c])
  /\ path' = [c \in DOMAIN path |->
                IF c \in Cells(paths) THEN ResolvePath(path[c]) ELSE path[c]]
  /\ pc' = "walk"
  /\ k' = 1
  /\ UNCHANGED <<folder, guid, tableVars, lookupVars, disk, addVars, walked,
                 makerVars>>

ResolvePathsPanics ==
  /\ pc = "idle"
  /\ \E c \in Cells(paths) : ~Resolvable(path[c])
  /\ Panic

Walking == pc = "walk" /\ k <= Len(folders)

WalkSkip ==
  /\ Walking
  /\ walked = <<>>
  /\ IsSet(folder[folders[k]].children)
  /\ k' = k + 1
  /\ UNCHANGED <<heapVars, tableVars, lookupVars, disk, pc, addVars, walked,
                 makerVars>>

WalkStart ==
  LET start == folder[folders[k]].children.index
  IN /\ Walking
     /\ ~IsSet(folder[folders[k]].children)
     /\ walked = <<>>
     /\ IF InBounds(paths, start)
          THEN /\ walked' = <<CellAt(paths, start)>>
               /\ UNCHANGED <<heapVars, tableVars, lookupVars, disk, pc,
                              addVars, k, makerVars>>
          ELSE Panic

\* bound: a list with more hops than there are cells has a cycle, and the
\* code follows it forever; the model stops in the middle of the call.
WalkHop ==
  LET next == path[LastOf(walked)].next
  IN /\ Walking
     /\ walked # <<>>
     /\ ~IsNone(next)
     /\ Len(walked) <= MaxGuid
     /\ IF IsCell(next)
          THEN /\ walked' = Append(walked, next.cell)
               /\ UNCHANGED <<heapVars, tableVars, lookupVars, disk, pc,
                              addVars, k, makerVars>>
          ELSE Panic

\* Mutant: the children found for one folder are still there for the next.
WalkStopKeepsChildren ==
  /\ Walking
  /\ walked # <<>>
  /\ IsNone(path[LastOf(walked)].next)
  /\ folder' = [folder EXCEPT ![folders[k]].children = Set(walked)]
  /\ k' = k + 1
  /\ UNCHANGED <<path, guid, tableVars, lookupVars, disk, pc, addVars, walked,
                 makerVars>>

WalkStop ==
  /\ Walking
  /\ walked # <<>>
  /\ IsNone(path[LastOf(walked)].next)
  /\ folder' = [folder EXCEPT ![folders[k]].children = Set(walked)]
  /\ walked' = <<>>
  /\ k' = k + 1
  /\ UNCHANGED <<path, guid, tableVars, lookupVars, disk, pc, addVars,
                 makerVars>>

ResolveReturns ==
  /\ pc = "walk"
  /\ k > Len(folders)
  /\ pc' = "idle"
  /\ k' = 0
  /\ UNCHANGED <<heapVars, tableVars, lookupVars, disk, addVars, walked,
                 makerVars>>

-----------------------------------------------------------------------------
(* add_file: walk down from the root, make the folders that are missing,    *)
(* then put the file into the last one.                                    *)

AddFile(f) ==
  /\ pc = "idle"
  /\ guid + 2 * Len(f) <= MaxGuid
  /\ Careful("unresolved", Settled)
  /\ Careful("duplicate", f \notin DOMAIN pathLookup)
  /\ Careful("misnamed", WellNamed(f))
  /\ IF Root \in DOMAIN folderLookup
       THEN /\ pc' = "add"
            /\ file' = f
            /\ depth' = 1
            /\ current' = folderLookup[Root]
            /\ UNCHANGED <<heapVars, tableVars, lookupVars, disk, walkVars,
                           makerVars>>
       ELSE Panic

\* Mutant: the first child, whatever its name.
FirstChild(f, name) ==
  LET cells == folder[f].children.cells
  IN IF cells = <<>> THEN {} ELSE {cells[1]}

\* The children get_child_by_name may return: the first of that name.
ChildrenNamed(f, name) ==
  LET cells == folder[f].children.cells
      named(i) == path[cells[i]].fullPath # Blank
                    /\ LastOf(path[cells[i]].fullPath) = name
  IN {cells[i] : i \in {i \in 1..Len(cells) :
                          named(i) /\ \A h \in 1..(i - 1) : ~named(h)}}

\* Mutants: the last child is not linked to the new one; it is linked to the
\* first one instead.
LinkNone(heap, f, child) == heap

LinkFirst(heap, f, child) ==
  LET cells == folder[f].children.cells
  IN IF cells = <<>> THEN heap
     ELSE [heap EXCEPT ![LastOf(cells)].next = Resolved(cells[1])]

\* push_child: the last child links to the new one, which joins the vector.
LinkLast(heap, f, child) ==
  LET cells == folder[f].children.cells
  IN IF cells = <<>> THEN heap
     ELSE [heap EXCEPT ![LastOf(cells)].next = Resolved(child)]

PushChild(heap, f, child) ==
  [heap EXCEPT ![f].children = Set(Append(folder[f].children.cells, child))]

Descending == pc = "add" /\ depth < Len(file)
Landing == pc = "add" /\ depth = Len(file)

Descend ==
  /\ Descending
  /\ IsSet(folder[current].children)
  /\ \E child \in ChildrenNamed(current, file[depth]) :
       IF IsCell(path[child].folder)
         THEN /\ current' = path[child].folder.cell
              /\ depth' = depth + 1
              /\ UNCHANGED <<heapVars, tableVars, lookupVars, disk, pc, file,
                             walkVars, makerVars>>
         ELSE Panic

\* SearchPath::from_str makes the folder's cell before the path's own; it has
\* none to give to what looks like a file, and fails for "/", which has no
\* parent.
MakeFolder ==
  LET prefix == SubSeq(file, 1, depth)
  IN /\ Descending
     /\ IsSet(folder[current].children)
     /\ ChildrenNamed(current, file[depth]) = {}
     /\ IF HasExtension(prefix) \/ prefix = Root
          THEN Panic
          ELSE /\ folder' = PushChild(Insert(folder, guid, NewFolder(prefix)),
                                      current, guid + 1)
               /\ path' = LinkLast(Insert(path, guid + 1,
                                          NewPath(prefix, Resolved(guid))),
                                   current, guid + 1)
               /\ guid' = guid + 2
               /\ pathLookup' = Insert(pathLookup, prefix, guid + 1)
               /\ folderLookup' = Insert(folderLookup, prefix, guid)
               /\ current' = guid
               /\ depth' = depth + 1
               /\ UNCHANGED <<tableVars, disk, pc, file, walkVars, makerVars>>

MakeFile ==
  /\ Landing
  /\ IsSet(folder[current].children)
  /\ HasExtension(file) /\ file # Root
  /\ path' = LinkLast(Insert(path, guid, NewPath(file, None)), current, guid)
  /\ folder' = PushChild(folder, current, guid)
  /\ guid' = guid + 1
  /\ pathLookup' = Insert(pathLookup, file, guid)
  /\ pc' = "idle"
  /\ file' = <<>> /\ depth' = 0 /\ current' = 0
  /\ UNCHANGED <<tableVars, folderLookup, disk, walkVars, makerVars>>

\* "Added file must be a file!", a path without a parent, or children that
\* are not resolved yet.
AddFilePanics ==
  /\ \/ Descending /\ ~IsSet(folder[current].children)
     \/ Landing /\ ~(HasExtension(file) /\ file # Root
                     /\ IsSet(folder[current].children))
  /\ Panic

\* The table of folders is public, and add_file leaves new folders out of it.
ListFolder(f) ==
  /\ pc = "idle"
  /\ f \notin Cells(folders)
  /\ folders' = Append(folders, f)
  /\ UNCHANGED <<heapVars, paths, lookupVars, disk, pc, addVars, walkVars,
                 makerVars>>

-----------------------------------------------------------------------------
(* SearchWriter::from_engine, for reorganize, to_memory or to_directory. *)

FromEngine(t) ==
  /\ pc = "idle"
  /\ Careful("unresolved", Settled)
  /\ Careful("unlisted", t = "engine" \/ Listed)
  /\ pc' = "push"
  /\ target' = t
  /\ k' = 1
  /\ j' = 0
  /\ folderMaker' = NewMaker
  /\ pathMaker' = NewMaker
  /\ UNCHANGED <<heapVars, tableVars, lookupVars, disk, addVars, walked>>

Pushing == pc = "push" /\ k <= Len(folders)

PushFolder ==
  /\ Pushing
  /\ j = 0
  /\ Len(folderMaker.table) < MaxTable
  /\ IF ~HasCell(folderMaker, folders[k]) /\ IsSet(folder[folders[k]].children)
       THEN /\ folderMaker' = PushCell(folderMaker, folders[k])
            /\ j' = 1
            /\ UNCHANGED <<heapVars, tableVars, lookupVars, disk, pc, addVars,
                           walkVars, pathMaker, target>>
       ELSE Panic

PushPath ==
  LET cells == folder[folders[k]].children.cells
  IN /\ Pushing
     /\ j >= 1 /\ j <= Len(cells)
     /\ Len(pathMaker.table) < MaxTable
     /\ IF ~HasCell(pathMaker, cells[j])
          THEN /\ pathMaker' = PushCell(pathMaker, cells[j])
               /\ j' = j + 1
               /\ UNCHANGED <<heapVars, tableVars, lookupVars, disk, pc,
                              addVars, walkVars, folderMaker, target>>
          ELSE Panic

\* Mutant: the loop over the folders does not move on.
PushNextAgain ==
  /\ Pushing
  /\ j >= 1 /\ j > Len(folder[folders[k]].children.cells)
  /\ j' = 0
  /\ UNCHANGED <<heapVars, tableVars, lookupVars, disk, pc, addVars, walkVars,
                 folderMaker, pathMaker, target>>

PushNext ==
  /\ Pushing
  /\ j >= 1 /\ j > Len(folder[folders[k]].children.cells)
  /\ j' = 0
  /\ k' = k + 1
  /\ UNCHANGED <<heapVars, tableVars, lookupVars, disk, pc, addVars, walked,
                 folderMaker, pathMaker, target>>

Pushed == pc = "push" /\ k > Len(folders)

\* reorganize: the writer's tables become those of the engine.
Reorganize ==
  /\ Pushed
  /\ target = "engine"
  /\ folders' = folderMaker.table
  /\ paths' = pathMaker.table
  /\ pc' = "idle"
  /\ k' = 0
  /\ folderMaker' = NewMaker
  /\ pathMaker' = NewMaker
  /\ UNCHANGED <<heapVars, lookupVars, disk, addVars, walked, j, target>>

-----------------------------------------------------------------------------
(* to_memory and to_directory.  Both serialise every table before anything *)
(* reaches the disk, so a panic leaves the old image.                      *)

\* Mutant: a key whose path is in no table is written with some index.
SerialisableKeys ==
  /\ \A f \in Cells(folderMaker.table) :
       /\ IsSet(folder[f].children)
       /\ folder[f].children.cells # <<>> =>
            HasCell(pathMaker, folder[f].children.cells[1])
  /\ \A c \in Cells(pathMaker.table) :
       \/ IsNone(path[c].next)
       \/ IsCell(path[c].next) /\ HasCell(pathMaker, path[c].next.cell)
  /\ \A p \in DOMAIN folderLookup : HasCell(folderMaker, folderLookup[p])

Serialisable ==
  /\ \A f \in Cells(folderMaker.table) :
       /\ IsSet(folder[f].children)
       /\ folder[f].children.cells # <<>> =>
            HasCell(pathMaker, folder[f].children.cells[1])
  /\ \A c \in Cells(pathMaker.table) :
       \/ IsNone(path[c].next)
       \/ IsCell(path[c].next) /\ HasCell(pathMaker, path[c].next.cell)
  /\ \A p \in DOMAIN folderLookup : HasCell(folderMaker, folderLookup[p])
  /\ \A p \in DOMAIN pathLookup : HasCell(pathMaker, pathLookup[p])

WrittenImage ==
  [kind |-> target,
   folders |-> [i \in 1..Len(folderMaker.table) |->
                  WriteFolder(folder[folderMaker.table[i]])],
   paths |-> [i \in 1..Len(pathMaker.table) |->
                WritePath(path[pathMaker.table[i]])],
   folderKeys |-> DOMAIN folderLookup,
   pathKeys |-> DOMAIN pathLookup,
   pathLinks |-> Len(pathMaker.table)]

Write ==
  /\ Pushed
  /\ target # "engine"
  /\ Serialisable
  /\ disk' = WrittenImage
  /\ pc' = "closed"
  /\ folder' = EmptyMap /\ path' = EmptyMap
  /\ folders' = <<>> /\ paths' = <<>>
  /\ folderLookup' = EmptyMap /\ pathLookup' = EmptyMap
  /\ k' = 0
  /\ folderMaker' = NewMaker /\ pathMaker' = NewMaker
  /\ target' = "engine"
  /\ UNCHANGED <<guid, addVars, walked, j>>

WritePanics ==
  /\ Pushed
  /\ target # "engine"
  /\ ~Serialisable
  /\ Panic

-----------------------------------------------------------------------------
ResolveStep ==
  WalkSkip \/ WalkStart \/ WalkHop \/ WalkStop \/ ResolveReturns

AddStep == Descend \/ MakeFolder \/ MakeFile \/ AddFilePanics

WriterStep ==
  PushFolder \/ PushPath \/ PushNext \/ Reorganize \/ Write \/ WritePanics

\* A step of the call in progress, and what a client may call.
CallStep == ResolveStep \/ AddStep \/ WriterStep

ClientStep ==
  \/ Read \/ ReadGarbled
  \/ ResolvePaths \/ ResolvePathsPanics
  \/ \E f \in Files : AddFile(f)
  \/ \E p \in DOMAIN folderLookup : ListFolder(folderLookup[p])
  \/ \E t \in {"engine", "memory", "directory"} : FromEngine(t)

Next == CallStep \/ ClientStep

Spec == Init /\ [][Next]_vars

\* A call that has begun runs on; nothing obliges the client to make one.
FairSpec == Spec /\ WF_vars(CallStep)

-----------------------------------------------------------------------------
(* Properties.                                                             *)

\* Type correctness of the cells, the engine, the image and the call.
TypeOK ==
  /\ guid \in Nat
  /\ IsMap(folder, 0..(guid - 1), SearchFolder(DOMAIN path))
  /\ IsMap(path, 0..(guid - 1), SearchPath(DOMAIN folder, DOMAIN path))
  /\ folders \in Seq(DOMAIN folder) /\ paths \in Seq(DOMAIN path)
  /\ IsMap(folderLookup, FullPaths, DOMAIN folder)
  /\ IsMap(pathLookup, FullPaths, DOMAIN path)
  /\ disk \in Image
  /\ pc \in {"closed", "idle", "walk", "add", "push", "panicked", "garbled"}
  /\ file \in FullPaths /\ depth \in Nat /\ current \in Nat
  /\ pc = "add" => depth \in 1..Len(file) /\ current \in DOMAIN folder
  /\ k \in Nat /\ walked \in Seq(DOMAIN path)
  /\ pc \in {"walk", "push"} => k >= 1
  /\ walked # <<>> => pc = "panicked" \/ (pc = "walk" /\ k <= Len(folders))
  /\ pc = "push" /\ j >= 1 =>
       k <= Len(folders) /\ IsSet(folder[folders[k]].children)
  /\ j \in Nat /\ target \in {"engine", "memory", "directory"}
  /\ IsMaker(folderMaker, DOMAIN folder) /\ IsMaker(pathMaker, DOMAIN path)
  /\ pc \notin {"push", "panicked"} =>
       folderMaker = NewMaker /\ pathMaker = NewMaker

\* The vector of a folder's children and the linked list through their next
\* fields are two copies of one thing: the archive is written from the links,
\* the engine works on the vector (types.rs, push_child).
ChildrenAreLinked ==
  \A f \in DOMAIN folder :
    IsSet(folder[f].children) =>
      LET cells == folder[f].children.cells
      IN \A i \in 1..Len(cells) :
           path[cells[i]].next = IF i < Len(cells) THEN Resolved(cells[i + 1])
                                                   ELSE None

\* Paths "only have one owning folder": no cell is a child twice, neither of
\* two folders nor of one (types.rs, SearchPath).
OneOwner ==
  \A f, g \in {h \in DOMAIN folder : IsSet(folder[h].children)} :
    \A m \in 1..Len(folder[f].children.cells),
       n \in 1..Len(folder[g].children.cells) :
      folder[f].children.cells[m] = folder[g].children.cells[n]
        => f = g /\ m = n

\* The panic of TableMaker::push, "Overlapping GUIDs in index lookup!", is
\* out of reach of from_engine, whatever the client did before.
NoOverlappingGuids ==
  Pushing =>
    /\ j = 0 => ~HasCell(folderMaker, folders[k])
    /\ (IsSet(folder[folders[k]].children)
        /\ j \in 1..Len(folder[folders[k]].children.cells))
          => ~HasCell(pathMaker, folder[folders[k]].children.cells[j])

\* Whatever is written keeps the lists of the archive apart, so that the next
\* reader's resolve ends and gives every path to one folder.
DiskIsForest == IsForest(disk)

Children == UNION {Cells(folder[f].children.cells) : f \in DOMAIN folder}

\* Between calls the hash -> path lookup knows exactly the paths some folder
\* lists, each under its own path (SearchEngine::path_lookup).
LookupIsTree ==
  pc = "idle" /\ Settled =>
    /\ DOMAIN pathLookup = {path[c].fullPath : c \in Children}
    /\ \A p \in DOMAIN pathLookup :
         pathLookup[p] \in Children /\ path[pathLookup[p]].fullPath = p

\* The two ways to a folder agree: the reference of its path entry and the
\* hash -> folder lookup lead to one cell, whose children have it as parent.
FolderRefsAgree ==
  pc = "idle" /\ Settled =>
    /\ \A c \in Children :
         IsCell(path[c].folder) =>
           /\ path[c].fullPath \in DOMAIN folderLookup
           /\ folderLookup[path[c].fullPath] = path[c].folder.cell
    /\ \A p \in DOMAIN folderLookup :
         \A c \in Cells(folder[folderLookup[p]].children.cells) :
           Parent(path[c].fullPath) = IF p = Root THEN Blank ELSE p

\* A careful client's program neither panics nor reads a garbled image.
NoPanic == pc \notin {"panicked", "garbled"}

\* Every call comes back: resolve, add_file and the writer's loops end.
CallReturns == pc \in {"walk", "add", "push"} ~> pc \in {"idle", "closed"}

-----------------------------------------------------------------------------
(* Properties the repository states of this code and the code does not have. *)

\* from_engine "creates a writer, re-organizing all of the tables and
\* preparing for serialization": a writer it returned can be serialised.
WriterIsReady == Pushed /\ target # "engine" => Serialisable

\* SearchPath::parent is "the path of the parent of this path".
ParentIsParent ==
  \A c \in DOMAIN path : path[c].parent = Parent(path[c].fullPath)
=============================================================================
