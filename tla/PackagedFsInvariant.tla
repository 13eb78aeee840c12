------------------------ MODULE PackagedFsInvariant ------------------------
(***************************************************************************)
(* The inductive invariants of PackagedFs, for any client and any image:   *)
(* TypeInvariant, of which type correctness follows, and SpansInvariant,   *)
(* of what the writer has pushed after each turn of its loops.             *)
(***************************************************************************)
EXTENDS PackagedFs

-----------------------------------------------------------------------------
(* The cells of a heap: each field refers to cells of its own kind, or to    *)
(* none yet.                                                               *)

OwnersIn(h) ==
  [is : {"package"}, cell : DOMAIN h.packages] \cup [is : {"group"}, cell : DOMAIN h.groups]

PackageOK(h, x) ==
  /\ x = [fullPath |-> x.fullPath, kind |-> x.kind, groups |-> x.groups,
          infos |-> x.infos, children |-> x.children]
  /\ x.kind \in Kinds
  /\ x.groups \in SpanSetOf(DOMAIN h.groups)
  /\ x.infos \in SpanSetOf(DOMAIN h.infos)
  /\ x.children \in SpanSetOf(DOMAIN h.children)
  /\ IF IsSet(x.groups) THEN x.groups.cells # <<>> ELSE x.groups.start < x.groups.end

ChildOK(h, x) ==
  /\ x = [fullPath |-> x.fullPath, package |-> x.package]
  /\ x.package \in ReferenceTo(DOMAIN h.packages) \ {None}

FileSets(h) ==
  [is : {"infos"}, cells : Seq(DOMAIN h.infos)]
    \cup [is : {"metadatas"}, cells : Seq(DOMAIN h.metadatas)]

GroupOK(h, x) ==
  /\ x = [offset |-> x.offset, files |-> x.files, sub |-> x.sub]
  /\ x.files \in [is : {"range"}, start : Nat, end : Nat] \cup FileSets(h)
  /\ x.sub \in {None} \cup [is : {"index"}, index : Nat] \cup OwnersIn(h)

PathOK(h, x) ==
  /\ x = [fullPath |-> x.fullPath, link |-> x.link, file |-> x.file]
  /\ x.link \in ReferenceTo(DOMAIN h.links) \ {None}
  /\ x.file \in ReferenceTo(DOMAIN h.files)

LinkOK(h, x) ==
  /\ x = [owner |-> x.owner, info |-> x.info]
  /\ x.owner \in [is : {"index"}, index : Nat] \cup OwnersIn(h)
  /\ x.info \in ReferenceTo(DOMAIN h.infos) \ {None}

InfoOK(h, x) ==
  /\ x = [path |-> x.path, link |-> x.link, descriptors |-> x.descriptors,
          kind |-> x.kind, shared |-> x.shared]
  /\ x.kind \in Kinds
  /\ x.path \in ReferenceTo(DOMAIN h.paths) \ {None}
  /\ x.link \in ReferenceTo(DOMAIN h.links) \ {None}
  /\ x.descriptors \in SpanSetOf(DOMAIN h.descriptors)

DescriptorOK(h, x) ==
  /\ x = [group |-> x.group, metadata |-> x.metadata, load |-> x.load, args |-> x.args]
  /\ x.group \in ReferenceTo(DOMAIN h.groups) \ {None}
  /\ x.metadata \in ReferenceTo(DOMAIN h.metadatas)
  /\ x.args \in ReferenceTo(DOMAIN h[ArgsTable(x)])

PatchOK(h, x) ==
  /\ x = [version |-> x.version, group |-> x.group, files |-> x.files, infos |-> x.infos]
  /\ x.group \in ReferenceTo(DOMAIN h.groups) \ {None}
  /\ x.files \in SpanSetOf(DOMAIN h.files)
  /\ x.infos \in SpanSetOf(DOMAIN h.infos)
  /\ ~IsSet(x.infos) => x.infos.start <= x.infos.end

VersionedFileOK(h, x) ==
  /\ x = [fullPath |-> x.fullPath, info |-> x.info, link |-> x.link, changed |-> x.changed]
  /\ x.info \in ReferenceTo(DOMAIN h.infos) \ {None}
  /\ x.link \in ReferenceTo(DOMAIN h.links) \ {None}

RecordOK(h, t, x) ==
  CASE t = "packages" -> PackageOK(h, x)       [] t = "children" -> ChildOK(h, x)
    [] t = "groups" -> GroupOK(h, x)           [] t = "paths" -> PathOK(h, x)
    [] t = "links" -> LinkOK(h, x)             [] t = "infos" -> InfoOK(h, x)
    [] t = "descriptors" -> DescriptorOK(h, x) [] t = "metadatas" -> TRUE
    [] t = "patches" -> PatchOK(h, x)          [] t = "files" -> VersionedFileOK(h, x)

IsFunction(f) == f = [c \in DOMAIN f |-> f[c]]

HeapOK(h) ==
  /\ h = [t \in TableNames |-> h[t]]
  /\ \A t \in TableNames :
       IsFunction(h[t]) /\ \A c \in DOMAIN h[t] : RecordOK(h, t, h[t][c])

-----------------------------------------------------------------------------
(* What the loops of resolve leave behind. *)

\* The cells that an engine was read with are the entries of its tables.
Fresh(e) == \A t \in TableNames : Cells(e.tables[t]) = DOMAIN e.heap[t]

OwnersKnown(h) ==
  /\ \A c \in DOMAIN h.packages :
       IsSet(h.packages[c].groups) /\ IsSet(h.packages[c].infos) /\ IsSet(h.packages[c].children)
  /\ \A c \in DOMAIN h.children : IsCell(h.children[c].package)
  /\ \A c \in DOMAIN h.groups :
       ~IsUnresolved(h.groups[c].sub) /\ h.groups[c].files.is # "range"

DescriptorKnown(x) ==
  IsCell(x.group) /\ ~IsUnresolved(x.metadata) /\ ~IsUnresolved(x.args)

\* A descriptor is resolved with the infos that have it.
InfoKnown(h, x) ==
  /\ IsCell(x.path) /\ IsCell(x.link) /\ IsSet(x.descriptors)
  /\ \A d \in Cells(x.descriptors.cells) : DescriptorKnown(h.descriptors[d])

UsersKnown(h) ==
  /\ \A c \in DOMAIN h.paths : IsCell(h.paths[c].link) /\ ~IsUnresolved(h.paths[c].file)
  /\ \A c \in DOMAIN h.links : ~IsUnresolved(h.links[c].owner) /\ IsCell(h.links[c].info)
  /\ \A c \in DOMAIN h.infos : InfoKnown(h, h.infos[c])
  /\ \A c \in DOMAIN h.patches :
       IsSet(h.patches[c].files) /\ IsSet(h.patches[c].infos) /\ IsCell(h.patches[c].group)
  /\ \A c \in DOMAIN h.files : IsCell(h.files[c].link) /\ IsCell(h.files[c].info)

EngineOK(e) ==
  /\ e = [heap |-> e.heap, tables |-> e.tables,
          packageLookup |-> e.packageLookup, fileLookup |-> e.fileLookup]
  /\ HeapOK(e.heap)
  /\ e.tables = [t \in TableNames |-> e.tables[t]]
  /\ \A t \in TableNames : e.tables[t] \in Seq(DOMAIN e.heap[t])
  /\ \A p \in DOMAIN e.packageLookup : e.packageLookup[p] \in DOMAIN e.heap.packages
  /\ \A p \in DOMAIN e.fileLookup : e.fileLookup[p] \in DOMAIN e.heap.paths

Stage ==
  /\ pc = "read" => Fresh(engine)
  /\ pc \in {"resolving", "idle", "push", "writing"} => OwnersKnown(engine.heap)
  /\ pc = "resolving" => Fresh(engine) \/ UsersKnown(engine.heap)
  /\ pc \in {"idle", "push", "writing"} => UsersKnown(engine.heap)

-----------------------------------------------------------------------------
(* The writer. *)

WriterOK(h, w) ==
  /\ w = [makers |-> w.makers, infoStart |-> w.infoStart,
          lastFiles |-> w.lastFiles, ok |-> w.ok]
  /\ w.makers = [t \in TableNames |-> w.makers[t]]
  /\ \A t \in TableNames : IsMaker(w.makers[t], DOMAIN h[t]) /\ MakerOK(w.makers[t])
  /\ w.infoStart \in Nat /\ w.lastFiles \in Nat
  /\ \A d \in Cells(TableOf(w, "descriptors")) : DescriptorKnown(h.descriptors[d])

\* The versioned files of the patches gone through are pushed.
PatchesDone ==
  \A j \in 1..Len(engine.tables.patches) :
    j + Len(engine.tables.packages) + Len(engine.tables.groups) < k =>
      \A f \in Cells(engine.heap.patches[engine.tables.patches[j]].files.cells) :
        Has(writer, "files", f)

TypeInvariant ==
  /\ guid \in 0..MaxGuid /\ edits \in 0..MaxEdits /\ k \in Nat
  /\ pc \in {"closed", "read", "resolving", "idle", "push", "writing", "panicked", "garbled"}
  /\ target \in {"engine", "memory", "directory"}
  /\ IsImage(disk)
  /\ EngineOK(engine)
  /\ \A t \in TableNames : DOMAIN engine.heap[t] \subseteq 0..(guid - 1)
  /\ Stage
  /\ pc = "closed" => engine = NoEngine
  /\ pc \notin {"push", "writing", "panicked"} => writer = NoWriter
  /\ WriterOK(engine.heap, writer)
  /\ pc = "push" => k >= 1 /\ PatchesDone

SpansInvariant ==
  pc \in {"push", "writing"} => InOrder(engine.heap, writer)

\* The infos that the groups of the table hold are in the table of infos: resolve
\* takes them from there, and a group is pushed with all that it holds.
InfosHeld(e) ==
  \A g \in Cells(e.tables.groups) :
    IsInfoGroup(e, g) => Cells(e.heap.groups[g].files.cells) \subseteq Cells(e.tables.infos)

GroupsHeld == InfosHeld(engine)
=============================================================================
