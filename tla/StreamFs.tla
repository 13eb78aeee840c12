------------------------------ MODULE StreamFs ------------------------------
(***************************************************************************)
(* The stream filesystem of the archive (src/src/engines/stream).          *)
(*                                                                         *)
(* A folder refers to consecutive paths, a path to consecutive links - one, *)
(* or one per locale or region, as its flags say - and a link to metadata, *)
(* which several links may share.  The archive stores the first index and  *)
(* a count, for a path the first index only; the engine holds vectors of   *)
(* cells that a client is free to rearrange.  The writer puts the tables   *)
(* back into an order in which every set is consecutive.                   *)
(***************************************************************************)
EXTENDS TableLoops

CONSTANTS
  Locales, Regions,  \* links of a localized and a regional path: 14 and 5
  NewData,           \* what a client puts into new metadata
  Clients,           \* who may run: the images of its archives, and liberties
  MaxGuid,           \* bound: cells made in a run
  MaxEdits           \* bound: edits a client makes in a run

\* What a parser makes of any bytes: entries with numbers where numbers are.
IsImage(image) ==
  /\ image.folders \in Seq(Cells(image.folders))
  /\ image.paths \in Seq(Cells(image.paths))
  /\ image.links \in Seq(Nat)
  /\ image.metadatas \in Seq(Cells(image.metadatas))
  /\ \A f \in Cells(image.folders) : f.start \in Nat /\ f.count \in Nat
  /\ \A p \in Cells(image.paths) : p.link \in Nat /\ p.flags \in Nat

ASSUME CountsOK ==
  Locales \in Nat \ {0} /\ Regions \in Nat \ {0} /\ MaxGuid \in Nat

ASSUME ImagesOK == \A c \in Clients : \A image \in c.images : IsImage(image)

VARIABLES
  folder, path, link, metadata,  \* the cells, by GUID
  guid,                          \* the static counter of TableCell::new
  engine,                        \* StreamEngine: its tables and path_lookup
  writer,                        \* StreamWriter: a TableMaker per table
  at, target,                    \* from_engine: the turns of its loops; what it is called for
  disk,                          \* the image last written, or the original
  client,                        \* one of Clients
  edits,                         \* how many edits there were
  pc                             \* where the thread that owns the engine is

heapVars == <<folder, path, link, metadata, guid>>
writerVars == <<writer, at, target>>
vars == <<heapVars, engine, writerVars, disk, client, edits, pc>>

-----------------------------------------------------------------------------
(* The records, as parsed and as serialised. *)

\* Flags of a path: 0, 1 if it is localized, else 2 if it is regional.
LinkCount(flags) ==
  IF flags = 1 THEN Locales ELSE IF flags = 2 THEN Regions ELSE 1

ParseFolder(entry) ==
  [name |-> entry.name, paths |-> Span(entry.start, HashKeyIndex(entry.count))]

ParsePath(entry) ==
  [fullPath |-> entry.fullPath, flags |-> entry.flags,
   links |-> Span(HashKeyIndex(entry.link), LinkCount(entry.flags))]

ParseLink(index) == Unresolved(index)

ParseMetadata(data) == data

\* Mutant: an empty folder has an invalid start, as in the search filesystem.
InvalidStart(f) ==
  LET cells == f.paths.cells IN
  [name |-> f.name, count |-> Len(cells),
   start |-> IF cells = <<>> THEN INVALID_INDEX
                             ELSE GetIndex(writer.paths, cells[1])]

WriteFolder(f) ==
  LET cells == f.paths.cells IN
  [name |-> f.name, count |-> Len(cells),
   start |-> IF cells = <<>> THEN 0 ELSE GetIndex(writer.paths, cells[1])]

\* Mutant: the index the first link had before the writer renumbered it.
OldLinkIndex(p) ==
  [fullPath |-> p.fullPath, flags |-> p.flags,
   link |-> CHOOSE i \in 0..(Len(engine.links) - 1) :
              CellAt(engine.links, i) = p.links.cells[1]]

WritePath(p) ==
  [fullPath |-> p.fullPath, flags |-> p.flags,
   link |-> GetIndex(writer.links, p.links.cells[1])]

WriteLink(ref) == GetIndex(writer.metadatas, ref.cell)

NoEngine ==
  [folders |-> <<>>, paths |-> <<>>, links |-> <<>>, metadatas |-> <<>>,
   pathLookup |-> EmptyMap]

NoWriter ==
  [folders |-> NewMaker, paths |-> NewMaker, links |-> NewMaker,
   metadatas |-> NewMaker]

\* The folder of the loop's turn, and the path and the link the inner loops are
\* at: 0 before they begin.
NoTurn == [folder |-> 0, path |-> 0, link |-> 0]

Init ==
  /\ folder = EmptyMap /\ path = EmptyMap
  /\ link = EmptyMap /\ metadata = EmptyMap
  /\ guid = 0
  /\ engine = NoEngine
  /\ writer = NoWriter /\ at = NoTurn /\ target = "engine"
  /\ client \in Clients
  /\ disk \in client.images
  /\ edits = 0
  /\ pc = "closed"

Panic ==
  /\ pc' = "panicked"
  /\ UNCHANGED <<heapVars, engine, writerVars, disk, edits>>

-----------------------------------------------------------------------------
(* Reading: from_directory, or ArchiveNonUserTables::read_options. *)

\* The archive's reader skips one key for each path of the header's count.
Aligned == disk.kind = "memory" => disk.keys = Len(disk.paths)

\* "unreachable!" for the flags of a path.
Parsable == \A i \in 1..Len(disk.paths) : disk.paths[i].flags \in {0, 1, 2}

Read ==
  LET p0 == guid + Len(disk.folders)
      l0 == p0 + Len(disk.paths)
      m0 == l0 + Len(disk.links)
  IN /\ pc = "closed"
     /\ Aligned /\ Parsable
     /\ guid' = m0 + Len(disk.metadatas)
     /\ guid' <= MaxGuid
     /\ folder' = CellsFrom(guid, disk.folders, ParseFolder)
     /\ path' = CellsFrom(p0, disk.paths, ParsePath)
     /\ link' = CellsFrom(l0, disk.links, ParseLink)
     /\ metadata' = CellsFrom(m0, disk.metadatas, ParseMetadata)
     /\ engine' = [folders |-> TableFrom(guid, Len(disk.folders)),
                   paths |-> TableFrom(p0, Len(disk.paths)),
                   links |-> TableFrom(l0, Len(disk.links)),
                   metadatas |-> TableFrom(m0, Len(disk.metadatas)),
                   pathLookup |-> LookupOf(disk.paths, p0, {})]
     /\ pc' = "idle"
     /\ UNCHANGED <<writerVars, disk, edits>>

\* Entries are parsed out of the wrong bytes: what follows is not modelled.
ReadGarbled ==
  /\ pc = "closed"
  /\ ~Aligned
  /\ pc' = "garbled"
  /\ UNCHANGED <<heapVars, engine, writerVars, disk, edits>>

ReadPanics == pc = "closed" /\ Aligned /\ ~Parsable /\ Panic

-----------------------------------------------------------------------------
(* resolve: three loops over the tables, each reference once. *)

Resolvable ==
  /\ \A f \in Cells(engine.folders) : SpanFits(folder[f].paths, engine.paths)
  /\ \A p \in Cells(engine.paths) : SpanFits(path[p].links, engine.links)
  /\ \A l \in Cells(engine.links) :
       IsUnresolved(link[l]) => InBounds(engine.metadatas, link[l].index)

ResolveAll ==
  /\ pc = "idle"
  /\ Resolvable
  /\ folder' = [f \in DOMAIN folder |->
                  IF f \in Cells(engine.folders)
                    THEN [folder[f] EXCEPT !.paths = ResolveSpan(@, engine.paths)]
                    ELSE folder[f]]
  /\ path' = [p \in DOMAIN path |->
                IF p \in Cells(engine.paths)
                  THEN [path[p] EXCEPT !.links = ResolveSpan(@, engine.links)]
                  ELSE path[p]]
  /\ link' = [l \in DOMAIN link |->
                IF l \in Cells(engine.links)
                  THEN Resolve(link[l], engine.metadatas) ELSE link[l]]
  /\ UNCHANGED <<metadata, guid, engine, writerVars, disk, edits, pc>>

ResolvePanics == pc = "idle" /\ ~Resolvable /\ Panic

-----------------------------------------------------------------------------
(* What a client may do to an engine, through its public tables and the     *)
(* references of the records.  A call on a set that is not resolved panics  *)
(* and loses the engine; the model leaves those out.                       *)

Settled ==
  /\ \A f \in Cells(engine.folders) : IsSet(folder[f].paths)
  /\ \A p \in Cells(engine.paths) : IsSet(path[p].links)
  /\ \A l \in Cells(engine.links) : IsCell(link[l])

\* Every path of the lookup is in some folder, so that the writer meets it.
Listed ==
  \A name \in DOMAIN engine.pathLookup :
    \E f \in Cells(engine.folders) :
      IsSet(folder[f].paths)
        /\ engine.pathLookup[name] \in Cells(folder[f].paths.cells)

\* What a client does not do unless it is careless.
Careful(liberty, condition) == liberty \in client.liberties \/ condition

\* set_metadata, with the cell of another link: a fallback to its locale.
SetMetadata(l, m) ==
  /\ Careful("unresolved", Settled)
  /\ link' = [link EXCEPT ![l] = Resolved(m)]
  /\ UNCHANGED <<folder, path, metadata, guid, engine, writerVars, disk, pc>>

\* set_metadata, with a new cell.
SetNewMetadata(l, data) ==
  /\ Careful("unresolved", Settled)
  /\ guid + 1 <= MaxGuid
  /\ metadata' = Insert(metadata, guid, data)
  /\ link' = [link EXCEPT ![l] = Resolved(guid)]
  /\ guid' = guid + 1
  /\ UNCHANGED <<folder, path, engine, writerVars, disk, pc>>

\* metadata_mut: the change shows in every link that shares the metadata.
ChangeMetadata(l, data) ==
  /\ Settled
  /\ metadata' = [metadata EXCEPT ![link[l].cell] = data]
  /\ UNCHANGED <<folder, path, link, guid, engine, writerVars, disk, pc>>

\* get_path_mut: keep the first n links, under new flags.
Relink(p, n, flags) ==
  /\ Settled
  /\ n <= Len(path[p].links.cells)
  /\ Careful("miscounted", n = LinkCount(flags))
  /\ path' = [path EXCEPT ![p].links = Set(SubSeq(@.cells, 1, n)),
                          ![p].flags = flags]
  /\ UNCHANGED <<folder, link, metadata, guid, engine, writerVars, disk, pc>>

\* A path with the links of another one: "shared" is the client's mistake.
Borrow(p, q) ==
  /\ Settled
  /\ "shared" \in client.liberties
  /\ path' = [path EXCEPT ![p].links = path[q].links, ![p].flags = path[q].flags]
  /\ UNCHANGED <<folder, link, metadata, guid, engine, writerVars, disk, pc>>

\* paths.replace and paths.push: out of one folder, to the end of another.
Move(f, g) ==
  LET cells == folder[f].paths.cells
  IN /\ Settled
     /\ f # g
     /\ \E i \in 1..Len(cells) :
          folder' = [folder EXCEPT ![f].paths = Set(RemoveAt(cells, i)),
                                   ![g].paths = Set(Append(@.cells, cells[i]))]
     /\ UNCHANGED <<path, link, metadata, guid, engine, writerVars, disk, pc>>

\* Out of one folder: nothing takes the path out of the lookup.
Drop(f) ==
  LET cells == folder[f].paths.cells
  IN /\ Settled
     /\ "dropped" \in client.liberties
     /\ \E i \in 1..Len(cells) :
          folder' = [folder EXCEPT ![f].paths = Set(RemoveAt(cells, i))]
     /\ UNCHANGED <<path, link, metadata, guid, engine, writerVars, disk, pc>>

-----------------------------------------------------------------------------
(* StreamWriter::from_engine, for reorganize, to_memory or to_directory:    *)
(* push_folder, push_path and push_link, one step for each push and each    *)
(* turn of a loop.                                                         *)

FromEngine(t) ==
  /\ pc = "idle"
  /\ Careful("unresolved", Settled)
  /\ Careful("unlisted", t = "engine" \/ Listed)
  /\ pc' = "push"
  /\ target' = t
  /\ writer' = NoWriter
  /\ at' = [NoTurn EXCEPT !.folder = 1]
  /\ UNCHANGED <<heapVars, engine, disk, edits>>

Pushing == pc = "push" /\ at.folder <= Len(engine.folders)

PathsHere == folder[engine.folders[at.folder]].paths.cells
AtPath == Pushing /\ at.path >= 1 /\ at.path <= Len(PathsHere)
LinksHere == path[PathsHere[at.path]].links.cells

PushFolder ==
  LET f == engine.folders[at.folder]
  IN /\ Pushing
     /\ at.path = 0
     /\ IF ~HasCell(writer.folders, f) /\ IsSet(folder[f].paths)
          THEN /\ writer' = [writer EXCEPT !.folders = PushCell(@, f)]
               /\ at' = [at EXCEPT !.path = 1]
               /\ UNCHANGED <<heapVars, engine, target, disk, edits, pc>>
          ELSE Panic

PushPath ==
  LET p == PathsHere[at.path]
  IN /\ AtPath
     /\ at.link = 0
     /\ IF ~HasCell(writer.paths, p) /\ IsSet(path[p].links)
          THEN /\ writer' = [writer EXCEPT !.paths = PushCell(@, p)]
               /\ at' = [at EXCEPT !.link = 1]
               /\ UNCHANGED <<heapVars, engine, target, disk, edits, pc>>
          ELSE Panic

\* Mutants: metadata is pushed for every link that has it; a link that is there
\* already is passed over.
PushAlways(maker, cell) == PushCell(maker, cell)

CanPushAnyLink(l) == IsCell(link[l])

\* Links share metadata, so push_link looks whether it is there.
PushIfNew(maker, cell) ==
  IF HasCell(maker, cell) THEN maker ELSE PushCell(maker, cell)

CanPushLink(l) == ~HasCell(writer.links, l) /\ IsCell(link[l])

PushLink ==
  LET l == LinksHere[at.link]
  IN /\ AtPath
     /\ at.link >= 1 /\ at.link <= Len(LinksHere)
     /\ IF CanPushLink(l)
          THEN /\ writer' = [writer EXCEPT !.links = PushCell(@, l),
                                          !.metadatas = PushIfNew(@, link[l].cell)]
               /\ at' = [at EXCEPT !.link = @ + 1]
               /\ UNCHANGED <<heapVars, engine, target, disk, edits, pc>>
          ELSE Panic

PushNextPath ==
  /\ AtPath
  /\ at.link >= 1 /\ at.link > Len(LinksHere)
  /\ at' = [at EXCEPT !.path = @ + 1, !.link = 0]
  /\ UNCHANGED <<heapVars, engine, writer, target, disk, edits, pc>>

PushNextFolder ==
  /\ Pushing
  /\ at.path >= 1 /\ at.path > Len(PathsHere)
  /\ at' = [NoTurn EXCEPT !.folder = at.folder + 1]
  /\ UNCHANGED <<heapVars, engine, writer, target, disk, edits, pc>>

PushStep == PushFolder \/ PushPath \/ PushLink \/ PushNextPath \/ PushNextFolder

Done == pc = "push" /\ at.folder > Len(engine.folders)

Reorganize ==
  /\ Done
  /\ target = "engine"
  /\ engine' = [folders |-> writer.folders.table, paths |-> writer.paths.table,
                links |-> writer.links.table,
                metadatas |-> writer.metadatas.table,
                pathLookup |-> engine.pathLookup]
  /\ writer' = NoWriter /\ at' = NoTurn
  /\ pc' = "idle"
  /\ UNCHANGED <<heapVars, target, disk, edits>>

-----------------------------------------------------------------------------
(* to_memory and to_directory. *)

Serialisable ==
  /\ \A p \in Cells(writer.paths.table) : path[p].links.cells # <<>>
  /\ \A name \in DOMAIN engine.pathLookup :
       HasCell(writer.paths, engine.pathLookup[name])

WrittenImage ==
  [kind |-> target,
   keys |-> Cardinality(DOMAIN engine.pathLookup),
   folders |-> [i \in 1..Len(writer.folders.table) |->
                  WriteFolder(folder[writer.folders.table[i]])],
   paths |-> [i \in 1..Len(writer.paths.table) |->
                WritePath(path[writer.paths.table[i]])],
   links |-> [i \in 1..Len(writer.links.table) |->
                WriteLink(link[writer.links.table[i]])],
   metadatas |-> [i \in 1..Len(writer.metadatas.table) |->
                    metadata[writer.metadatas.table[i]]]]

Write ==
  /\ Done
  /\ target # "engine"
  /\ Serialisable
  /\ disk' = WrittenImage
  /\ pc' = "closed"
  /\ folder' = EmptyMap /\ path' = EmptyMap
  /\ link' = EmptyMap /\ metadata' = EmptyMap
  /\ engine' = NoEngine
  /\ writer' = NoWriter /\ at' = NoTurn /\ target' = "engine"
  /\ UNCHANGED <<guid, edits>>

WritePanics == Done /\ target # "engine" /\ ~Serialisable /\ Panic

-----------------------------------------------------------------------------
Edit ==
  /\ pc = "idle"
  /\ edits < MaxEdits
  /\ edits' = edits + 1
  /\ \/ \E l \in Cells(engine.links) :
          \/ \E m \in Cells(engine.metadatas) : SetMetadata(l, m)
          \/ \E data \in NewData :
               SetNewMetadata(l, data) \/ ChangeMetadata(l, data)
     \/ \E p \in Cells(engine.paths) :
          \/ \E n \in 0..Locales, flags \in 0..2 : Relink(p, n, flags)
          \/ \E q \in Cells(engine.paths) : Borrow(p, q)
     \/ \E f \in Cells(engine.folders) :
          Drop(f) \/ \E g \in Cells(engine.folders) : Move(f, g)

CallStep == PushStep \/ Reorganize \/ Write \/ WritePanics

Step ==
  \/ Read \/ ReadGarbled \/ ReadPanics
  \/ ResolveAll \/ ResolvePanics
  \/ Edit
  \/ \E t \in {"engine", "memory", "directory"} : FromEngine(t)
  \/ CallStep

Next == Step /\ UNCHANGED client

Spec == Init /\ [][Next]_vars

-----------------------------------------------------------------------------
(* Properties.                                                             *)

StreamFolder(f) ==
  /\ f = [name |-> f.name, paths |-> f.paths]
  /\ f.paths \in SpanSetOf(DOMAIN path)

StreamPath(p) ==
  /\ p = [fullPath |-> p.fullPath, flags |-> p.flags, links |-> p.links]
  /\ p.flags \in 0..2
  /\ p.links \in SpanSetOf(DOMAIN link)

\* Type correctness: no reference dangles, and a writer's tables are of cells.
TypeOK ==
  /\ guid \in 0..MaxGuid
  /\ \A f \in DOMAIN folder : StreamFolder(folder[f])
  /\ \A p \in DOMAIN path : StreamPath(path[p])
  /\ link \in [DOMAIN link -> ReferenceTo(DOMAIN metadata) \ {None}]
  /\ IsMap(engine.pathLookup, DOMAIN engine.pathLookup, DOMAIN path)
  /\ engine = [t \in {"folders", "paths", "links", "metadatas", "pathLookup"} |-> engine[t]]
  /\ engine.folders \in Seq(DOMAIN folder) /\ engine.paths \in Seq(DOMAIN path)
  /\ engine.links \in Seq(DOMAIN link)
  /\ engine.metadatas \in Seq(DOMAIN metadata)
  /\ writer = [t \in {"folders", "paths", "links", "metadatas"} |-> writer[t]]
  /\ IsMaker(writer.folders, DOMAIN folder) /\ IsMaker(writer.paths, DOMAIN path)
  /\ IsMaker(writer.links, DOMAIN link)
  /\ IsMaker(writer.metadatas, DOMAIN metadata)
  /\ at \in [folder : Nat, path : Nat, link : Nat]
  /\ IsImage(disk)
  /\ pc \in {"closed", "idle", "push", "panicked", "garbled"}

\* Only the first index of a set is stored, so the writer must keep every set
\* consecutive in the new tables, whatever the client did to the vectors.
SetsAreConsecutive ==
  Done =>
    /\ \A f \in Cells(writer.folders.table) :
         Consecutive(folder[f].paths.cells, writer.paths)
    /\ \A p \in Cells(writer.paths.table) :
         Consecutive(path[p].links.cells, writer.links)

\* A writer's tables hold the folders of the engine and what they reach, each
\* cell once, and nothing else (StreamWriter's push functions).
TablesAreReachable ==
  Done =>
    /\ Cells(writer.folders.table) = Cells(engine.folders)
    /\ Cells(writer.paths.table) =
         UNION {Cells(folder[f].paths.cells) : f \in Cells(engine.folders)}
    /\ Cells(writer.links.table) =
         UNION {Cells(path[p].links.cells) : p \in Cells(writer.paths.table)}
    /\ Cells(writer.metadatas.table) =
         {link[l].cell : l \in Cells(writer.links.table)}
    /\ MakerOK(writer.folders) /\ MakerOK(writer.paths)
    /\ MakerOK(writer.links) /\ MakerOK(writer.metadatas)

\* A careful client's program neither panics nor reads a garbled image.
NoPanic == client.liberties = {} => pc \notin {"panicked", "garbled"}

\* "An engine taken straight from the vanilla archive is not guaranteed to
\* roundtrip byte-for-byte as there might be unreferenced entries"
\* (StreamWriter): it can be written all the same.
WriterIsReady == Done /\ target # "engine" => Serialisable
=============================================================================
