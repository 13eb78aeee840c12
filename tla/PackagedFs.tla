----------------------------- MODULE PackagedFs -----------------------------
(***************************************************************************)
(* The packaged filesystem of the archive (src/src/engines/packaged).      *)
(*                                                                         *)
(* Ten tables whose records refer to each other by index: a package has    *)
(* groups, infos and child packages; a group has either metadata or infos; *)
(* an info has a path, a link and a descriptor, or one per locale or       *)
(* region; a link leads back to a package or group and to an info.  The    *)
(* infos come in three parts - of packages, of info groups, of the version *)
(* groups of patches - and some indices count from the start of a part.    *)
(* An engine belongs to one thread and its calls never wait, so a call is  *)
(* a step or two; engines of other threads share the counter of GUIDs.     *)
(***************************************************************************)
EXTENDS TableLoops

CONSTANTS
  Locales, Regions,  \* groups and descriptors by kind: 15 and 6 in the code
  Names,             \* packages a client asks for
  Files,             \* paths a client adds
  NoData,            \* Metadata::new
  NewData,           \* what a client puts into metadata
  Images,            \* the images an archive may start from
  Liberties,         \* what a careless client does: see Addable
  Gaps,              \* GUIDs other threads may take while an image is read
  MaxGuid,           \* bound: cells made in a run
  MaxEdits           \* bound: edits a client makes in a run

TableNames ==
  {"packages", "children", "groups", "paths", "links", "infos",
   "descriptors", "metadatas", "patches", "files"}

ASSUME CountsOK ==
  Locales \in Nat \ {0} /\ Regions \in Nat \ {0}
  /\ MaxGuid \in Nat /\ MaxEdits \in Nat /\ Gaps \subseteq Nat

\* What a parser makes of any bytes: entries with numbers where numbers are, of
\* the kinds of packages and infos there are.
Kinds == {"localized", "regional", "plain"}

IsImage(image) ==
  /\ image.kind \in {"memory", "directory"}
  /\ \A t \in TableNames : image[t] \in Seq(Cells(image[t]))
  /\ \A x \in Cells(image.packages) :
       x.kind \in Kinds /\ {x.group, x.info, x.infos, x.child, x.children} \subseteq Nat
  /\ \A x \in Cells(image.children) : x.package \in Nat
  /\ \A x \in Cells(image.groups) : {x.start, x.count, x.sub} \subseteq Nat
  /\ \A x \in Cells(image.paths) : {x.link, x.file} \subseteq Nat
  /\ \A x \in Cells(image.links) : {x.owner, x.info} \subseteq Nat
  /\ \A x \in Cells(image.infos) :
       x.kind \in Kinds /\ {x.path, x.link, x.descriptor} \subseteq Nat
  /\ \A x \in Cells(image.descriptors) : {x.group, x.metadata, x.args} \subseteq Nat
  /\ \A x \in Cells(image.patches) : {x.group, x.file, x.files} \subseteq Nat
  /\ \A x \in Cells(image.files) : {x.info, x.link, x.changed} \subseteq Nat

ASSUME ImagesOK == \A image \in Images : IsImage(image)

VARIABLES
  engine,  \* PackagedEngine: its cells by kind and GUID, tables and lookups
  guid,    \* the static counter of TableCell::new
  writer,  \* PackagedWriter
  k,       \* the turn of from_engine: packages, then groups, then patches
  target,  \* what the writer is made for
  disk,    \* the image last written, or the original
  edits,   \* how many edits there were
  pc       \* where the thread that owns the engine is

vars == <<engine, guid, writer, k, target, disk, edits, pc>>

NoEngine ==
  [heap |-> [t \in TableNames |-> EmptyMap],
   tables |-> [t \in TableNames |-> <<>>],
   packageLookup |-> EmptyMap, fileLookup |-> EmptyMap]

\* A reference to either of two kinds of cells says which one it has.
PackageRef(cell) == [is |-> "package", cell |-> cell]
GroupRef(cell) == [is |-> "group", cell |-> cell]

-----------------------------------------------------------------------------
(* The records, as parsed. *)

Count(kind) == CASE kind = "localized" -> Locales
                 [] kind = "regional" -> Regions
                 [] kind = "plain" -> 1

Optional(index) == IF index = INVALID_INDEX THEN None ELSE Unresolved(index)

ParsePackage(x) ==
  [fullPath |-> x.fullPath, kind |-> x.kind,
   groups |-> Span(HashKeyIndex(x.group), Count(x.kind)),
   infos |-> Span(x.info, x.infos), children |-> Span(x.child, x.children)]

ParseChild(x) == [fullPath |-> x.fullPath, package |-> Unresolved(x.package)]

ParseGroup(x) ==
  [offset |-> x.offset, files |-> Span(x.start, x.count), sub |-> Optional(x.sub)]

ParsePath(x) ==
  [fullPath |-> x.fullPath, link |-> Unresolved(HashKeyIndex(x.link)),
   file |-> Optional(HashKeyIndex(x.file))]

ParseLink(x) == [owner |-> Unresolved(x.owner), info |-> Unresolved(x.info)]

ParseInfo(x) ==
  [path |-> Unresolved(x.path), link |-> Unresolved(x.link),
   descriptors |-> Span(x.descriptor, Count(x.kind)),
   kind |-> x.kind, shared |-> x.shared]

\* What a descriptor's load arguments are about decides what they refer to.
ParseDescriptor(x) ==
  [group |-> Unresolved(x.group), metadata |-> Optional(x.metadata),
   load |-> x.load,
   args |-> IF x.load \in {"unowned", "owned", "skip", "shared"}
              THEN Unresolved(x.args) ELSE None]

\* One index and one count for the versioned files and the infos of a patch.
ParsePatch(x) ==
  [version |-> x.version, group |-> Unresolved(x.group),
   files |-> Span(x.file, x.files), infos |-> Span(x.file, x.files)]

ParseFile(x) ==
  [fullPath |-> x.fullPath, info |-> Unresolved(x.info),
   link |-> Unresolved(x.link), changed |-> HashKeyIndex(x.changed) = 0]

Parse(t, x) ==
  CASE t = "packages" -> ParsePackage(x)   [] t = "children" -> ParseChild(x)
    [] t = "groups" -> ParseGroup(x)       [] t = "paths" -> ParsePath(x)
    [] t = "links" -> ParseLink(x)         [] t = "infos" -> ParseInfo(x)
    [] t = "descriptors" -> ParseDescriptor(x) [] t = "metadatas" -> x
    [] t = "patches" -> ParsePatch(x)      [] t = "files" -> ParseFile(x)

-----------------------------------------------------------------------------
(* Reading: from_directory, or ArchiveNonUserTables::read_options. *)

ReadOrder(kind) ==
  IF kind = "memory"
    THEN <<"paths", "links", "packages", "groups", "children", "infos",
           "descriptors", "metadatas", "patches", "files">>
    ELSE <<"patches", "files", "packages", "children", "groups", "paths",
           "links", "infos", "descriptors", "metadatas">>

\* The archive's reader counts one descriptor and one metadata for each info
\* of the info groups and one key for each package; the directory's reader
\* skips as many keys of a patch as it has files.
Aligned(image) ==
  IF image.kind = "memory"
    THEN /\ image.groupDescriptors = image.groupInfos
         /\ image.groupMetadatas = image.groupInfos
         /\ image.packageKeys = Len(image.packages)
    ELSE \A i \in 1..Len(image.patches) :
           image.patches[i].keys = image.patches[i].files

\* How many cells the first n tables make.
CellsBefore(image, n) ==
  LET order == ReadOrder(image.kind)
      sum[m \in 0..Len(order)] ==
        IF m = 0 THEN 0 ELSE sum[m - 1] + Len(image[order[m]])
  IN sum[n]

CellsOf(image) == CellsBefore(image, Len(ReadOrder(image.kind)))

\* The engine read from an image when GUIDs start at "first" and other threads
\* take "gap" of them after "at" cells.
ReadEngine(image, first, at, gap) ==
  LET before(t) == CellsBefore(image, PositionOf(ReadOrder(image.kind), t))
      guidOf(n) == first + n + (IF n >= at THEN gap ELSE 0)
      tables == [t \in TableNames |->
                   [i \in 1..Len(image[t]) |-> guidOf(before(t) + i - 1)]]
      lookup(t) == LET entry == LookupOf(image[t], 1, {})
                   IN [p \in DOMAIN entry |-> tables[t][entry[p]]]
  IN [heap |-> [t \in TableNames |->
                  [g \in Cells(tables[t]) |->
                     Parse(t, CellAt(image[t], PositionOf(tables[t], g)))]],
      tables |-> tables,
      packageLookup |-> lookup("packages"), fileLookup |-> lookup("paths")]

-----------------------------------------------------------------------------
(* PackagedEngine::resolve: four loops, of which the later ones count from   *)
(* where the groups of the second say that their infos begin.               *)

\* A step over the cells of one table, which is told the index of each.
OnTable(e, t, step(_, _)) ==
  [e EXCEPT !.heap[t] =
     [g \in DOMAIN e.heap[t] |->
        IF g \in Cells(e.tables[t])
          THEN step(PositionOf(e.tables[t], g), e.heap[t][g]) ELSE e.heap[t][g]]]

\* The index of a sub package counts packages if it can, and groups if not.
ResolveOwner(ref, s) ==
  IF ~IsUnresolved(ref) THEN ref
  ELSE IF InBounds(s.packages, ref.index)
    THEN PackageRef(CellAt(s.packages, ref.index))
    ELSE GroupRef(CellAt(s.groups, ref.index))

OwnerFits(ref, s) ==
  IsUnresolved(ref) => ref.index < Len(s.packages) \/ ref.index < Len(s.groups)

\* A group holds infos if it is, or might be, its own sub package.
HoldsInfos(i, x) == IsUnresolved(x.sub) /\ x.sub.index \in {0, i}

ResolveSub(ref, s) == IF ref = Unresolved(0) THEN None ELSE ResolveOwner(ref, s)

ResolveFiles(i, x, s) ==
  IF x.files.is # "range" THEN x.files
  ELSE LET holds == IF HoldsInfos(i, x) THEN "infos" ELSE "metadatas"
       IN [is |-> holds, cells |-> SubSeq(s[holds], x.files.start + 1, x.files.end)]

GroupFits(i, x, s) ==
  /\ x.sub # Unresolved(0) => OwnerFits(x.sub, s)
  /\ x.files.is = "range" =>
       x.files.end <= Len(s[IF HoldsInfos(i, x) THEN "infos" ELSE "metadatas"])

\* The loops over packages, child packages and groups.
OwnersFit(e) ==
  LET s == e.tables IN
  /\ \A p \in Cells(s.packages) :
       LET x == e.heap.packages[p]
       IN /\ SpanFits(x.groups, s.groups) /\ SpanFits(x.infos, s.infos)
          /\ SpanFits(x.children, s.children)
  /\ \A c \in Cells(s.children) : Fits(e.heap.children[c].package, s.packages)
  /\ \A i \in 1..Len(s.groups) : GroupFits(i - 1, e.heap.groups[s.groups[i]], s)

ResolvePackages(e) ==
  OnTable(e, "packages", LAMBDA i, x :
    [x EXCEPT !.groups = ResolveSpan(@, e.tables.groups),
              !.infos = ResolveSpan(@, e.tables.infos),
              !.children = ResolveSpan(@, e.tables.children)])

ResolveChildren(e) ==
  OnTable(e, "children", LAMBDA i, x :
    [x EXCEPT !.package = Resolve(@, e.tables.packages)])

ResolveGroups(e) ==
  OnTable(e, "groups", LAMBDA i, x :
    [x EXCEPT !.sub = ResolveSub(@, e.tables), !.files = ResolveFiles(i, x, e.tables)])

ResolveOwners(e) == ResolveGroups(ResolveChildren(ResolvePackages(e)))

IsInfoGroup(e, g) == e.heap.groups[g].files.is = "infos"
IsVersionGroup(e, g) == IsInfoGroup(e, g) /\ IsNone(e.heap.groups[g].sub)

\* Where the infos of a group begin, if the GUIDs of infos are consecutive.
Distance(e, g) == e.heap.groups[g].files.cells[1] - e.tables.infos[1]

\* The first distance of such a group that is not 0, among the first n groups.
PartStart(e, IsSuch(_, _), n) ==
  LET s == e.tables.groups
      apart == {i \in 1..n : /\ IsSuch(e, s[i]) /\ e.heap.groups[s[i]].files.cells # <<>>
                             /\ Distance(e, s[i]) # 0}
  IN IF apart = {} THEN 0 ELSE Distance(e, s[Min(apart)])

InfoStart(e) == PartStart(e, IsInfoGroup, Len(e.tables.groups))

\* Mutant: the last version group instead of the first.
VersionStartLast(e) ==
  LET s == e.tables.groups
      such == {i \in 1..Len(s) : IsVersionGroup(e, s[i])}
  IN IF such = {} THEN 0 ELSE Distance(e, s[Max(such)])

VersionStart(e) == PartStart(e, IsVersionGroup, Len(e.tables.groups))
LatestFile(e) == Distance(e, LastOf(e.tables.groups)) - VersionStart(e)

\* No distance is taken of a group without infos, and none is negative.
PartsMeasurable(e) ==
  LET s == e.tables.groups
      asked(i) == \/ i = Len(s)
                  \/ IsInfoGroup(e, s[i]) /\ PartStart(e, IsInfoGroup, i - 1) = 0
                  \/ IsVersionGroup(e, s[i]) /\ PartStart(e, IsVersionGroup, i - 1) = 0
  IN /\ s # <<>> /\ e.tables.infos # <<>>
     /\ IsInfoGroup(e, LastOf(s))
     /\ \A i \in 1..Len(s) :
          asked(i) => e.heap.groups[s[i]].files.cells # <<>> /\ Distance(e, s[i]) >= 0
     /\ LatestFile(e) >= 0

\* The infos of which a descriptor is one: the first resolves it.
InfosWith(e, d) ==
  {i \in 1..Len(e.tables.infos) :
     LET x == e.heap.infos[e.tables.infos[i]].descriptors
     IN d \in Cells(ResolveSpan(x, e.tables.descriptors).cells)}

\* An info of a package counts the infos it skips to from the info groups on.
SkipOffset(e, i) == IF i - 1 >= InfoStart(e) THEN 0 ELSE InfoStart(e)

\* Outside the version groups there is no patch.
OfVersion(e, i) == i - 1 >= VersionStart(e)

ArgsTable(x) ==
  CASE x.load = "skip" -> "infos" [] x.load = "owned" -> "patches" [] OTHER -> "links"

ArgsOf(e, x, owners) ==
  IF x.load = "owned" /\ (\E i \in owners : ~OfVersion(e, i)) THEN None
  ELSE Shifted(x.args, IF x.load = "skip" THEN SkipOffset(e, Min(owners)) ELSE 0)

DescriptorFits(e, x, owners) ==
  LET s == e.tables IN
  /\ Fits(x.group, s.groups) /\ Fits(x.metadata, s.metadatas)
  /\ x.load = "owned" => (OfVersion(e, Min(owners)) => Fits(x.args, s.patches))
  /\ x.load # "owned" => Fits(ArgsOf(e, x, owners), s[ArgsTable(x)])

\* The loops over paths, links, infos, patches and versioned files.
UsersFit(e) ==
  LET s == e.tables
      h == e.heap
  IN /\ \A p \in Cells(s.paths) :
          /\ Fits(h.paths[p].link, s.links)
          /\ Fits(Shifted(h.paths[p].file, LatestFile(e)), s.files)
     /\ \A l \in Cells(s.links) :
          OwnerFits(h.links[l].owner, s) /\ Fits(h.links[l].info, s.infos)
     /\ \A i \in Cells(s.infos) :
          /\ Fits(h.infos[i].path, s.paths) /\ Fits(h.infos[i].link, s.links)
          /\ SpanFits(h.infos[i].descriptors, s.descriptors)
     /\ \A d \in DOMAIN h.descriptors :
          InfosWith(e, d) # {} => DescriptorFits(e, h.descriptors[d], InfosWith(e, d))
     /\ \A n \in 1..Len(s.patches) :
          LET x == h.patches[s.patches[n]]
          IN /\ SpanFits(x.files, s.files)
             /\ SpanFits(ShiftedSpan(x.infos, VersionStart(e)), s.infos)
             /\ Fits(Shifted(x.group, n - 1), s.groups)
     /\ \A f \in Cells(s.files) :
          Fits(h.files[f].link, s.links) /\ Fits(h.files[f].info, s.infos)

ResolvePaths(e) ==
  OnTable(e, "paths", LAMBDA i, x :
    [x EXCEPT !.link = Resolve(@, e.tables.links),
              !.file = Resolve(Shifted(@, LatestFile(e)), e.tables.files)])

ResolveLinks(e) ==
  OnTable(e, "links", LAMBDA i, x :
    [x EXCEPT !.owner = ResolveOwner(@, e.tables), !.info = Resolve(@, e.tables.infos)])

ResolveInfos(e) ==
  OnTable(e, "infos", LAMBDA i, x :
    [x EXCEPT !.path = Resolve(@, e.tables.paths), !.link = Resolve(@, e.tables.links),
              !.descriptors = ResolveSpan(@, e.tables.descriptors)])

ResolveDescriptor(e, x, owners) ==
  [x EXCEPT !.group = Resolve(@, e.tables.groups),
            !.metadata = Resolve(@, e.tables.metadatas),
            !.args = Resolve(ArgsOf(e, x, owners), e.tables[ArgsTable(x)])]

ResolveDescriptors(e) ==
  [e EXCEPT !.heap.descriptors =
     [d \in DOMAIN @ |->
        IF InfosWith(e, d) = {} THEN @[d]
        ELSE ResolveDescriptor(e, @[d], InfosWith(e, d))]]

ResolvePatches(e) ==
  OnTable(e, "patches", LAMBDA i, x :
    [x EXCEPT !.files = ResolveSpan(@, e.tables.files),
              !.infos = ResolveSpan(ShiftedSpan(@, VersionStart(e)), e.tables.infos),
              !.group = Resolve(Shifted(@, i), e.tables.groups)])

ResolveVersionedFiles(e) ==
  OnTable(e, "files", LAMBDA i, x :
    [x EXCEPT !.link = Resolve(@, e.tables.links), !.info = Resolve(@, e.tables.infos)])

ResolveUsers(e) ==
  ResolveVersionedFiles(ResolvePatches(
    ResolveDescriptors(ResolveInfos(ResolveLinks(ResolvePaths(e))))))

CanResolveUsers(e) == PartsMeasurable(e) /\ UsersFit(e)

-----------------------------------------------------------------------------
(* add_file: a link, a path, and an info with one descriptor and metadata.   *)

FirstGroup(e, p) == e.heap.packages[p].groups.cells[1]

\* add_file comes through: both asserts hold, the package's first group is one
\* of metadata, and the file has an extension.
Addable(e, f, p) ==
  /\ f.fullPath \notin DOMAIN e.fileLookup
  /\ p \in DOMAIN e.packageLookup
  /\ ~IsInfoGroup(e, FirstGroup(e, e.packageLookup[p]))
  /\ f.extension

\* The five cells have the GUIDs from "first" on, in the order they are made.
HeapWithFile(e, f, package, first) ==
  LET metadata == first
      descriptor == first + 1
      link == first + 2
      path == first + 3
      info == first + 4
  IN [e.heap EXCEPT
        !.metadatas = Insert(@, metadata, NoData),
        !.descriptors = Insert(@, descriptor,
          [group |-> Resolved(FirstGroup(e, package)), load |-> "owned",
           metadata |-> Resolved(metadata), args |-> None]),
        !.links = Insert(@, link,
          [owner |-> PackageRef(package), info |-> Resolved(info)]),
        !.paths = Insert(@, path,
          [fullPath |-> f.fullPath, link |-> Resolved(link), file |-> None]),
        !.infos = Insert(@, info,
          [path |-> Resolved(path), link |-> Resolved(link), kind |-> "plain",
           descriptors |-> Set(<<descriptor>>), shared |-> FALSE]),
        !.groups[FirstGroup(e, package)].files.cells = Append(@, metadata),
        !.packages[package].infos.cells = Append(@, info)]

WithFile(e, f, p, first) ==
  [e EXCEPT !.heap = HeapWithFile(e, f, e.packageLookup[p], first),
            !.fileLookup = Insert(@, f.fullPath, first + 3)]

-----------------------------------------------------------------------------
(* PackagedWriter::from_engine.  A push of a cell that is there already, or a *)
(* reference that is none, panics: "ok" is FALSE from then on.              *)

NoWriter ==
  [makers |-> [t \in TableNames |-> NewMaker],
   infoStart |-> 0, lastFiles |-> 0, ok |-> TRUE]

Has(w, t, cell) == HasCell(w.makers[t], cell)
IndexIn(w, t, cell) == GetIndex(w.makers[t], cell)
Panicked(w) == [w EXCEPT !.ok = FALSE]

Push(w, t, cell) ==
  IF Has(w, t, cell) THEN Panicked(w)
  ELSE [w EXCEPT !.makers[t] = PushCell(@, cell)]

PushNew(w, t, cell) == IF Has(w, t, cell) THEN w ELSE Push(w, t, cell)

Pushes(w, cells, push(_, _)) ==
  LET after[n \in 0..Len(cells)] ==
        IF n = 0 THEN w ELSE push(after[n - 1], cells[n])
  IN after[Len(cells)]

PushAll(w, t, cells) == Pushes(w, cells, LAMBDA v, c : Push(v, t, c))
PushMetadatas(w, cells) == Pushes(w, cells, LAMBDA v, m : PushNew(v, "metadatas", m))

\* Infos of version groups push the metadata their patch owns, those of other
\* info groups push all theirs; packages push metadata with their groups.
PushDescriptor(e, w, d, inGroup, versioned) ==
  LET x == e.heap.descriptors[d]
      pushed == Push(w, "descriptors", d)
  IN IF versioned
       THEN IF x.load # "owned" THEN pushed
            ELSE IF ~IsCell(x.args) THEN Panicked(pushed)
            ELSE IF Has(w, "patches", x.args.cell) /\ IsCell(x.metadata)
              THEN PushNew(pushed, "metadatas", x.metadata.cell)
              ELSE pushed
     ELSE IF ~inGroup THEN pushed
     ELSE IF IsCell(x.metadata) THEN Push(pushed, "metadatas", x.metadata.cell)
     ELSE Panicked(pushed)

PushDescriptors(e, w, cells, inGroup, versioned) ==
  Pushes(w, cells, LAMBDA v, d : PushDescriptor(e, v, d, inGroup, versioned))

Skips(e, x) == e.heap.descriptors[x.descriptors.cells[1]].load = "skip"

\* A shared file's link, and that of a file the package skips, is of another.
PushInfo(e, w, i, inGroup, versioned) ==
  LET x == e.heap.infos[i]
      described == PushDescriptors(e, Push(w, "infos", i), x.descriptors.cells,
                                   inGroup, versioned)
      linked == IF x.shared \/ (~inGroup /\ Skips(e, x)) THEN described
                ELSE PushNew(described, "links", x.link.cell)
  IN IF inGroup THEN linked ELSE PushNew(linked, "paths", x.path.cell)

PushInfos(e, w, cells, inGroup, versioned) ==
  Pushes(w, cells, LAMBDA v, i : PushInfo(e, v, i, inGroup, versioned))

PushGroup(e, w, g) ==
  LET x == e.heap.groups[g]
      pushed == Push(w, "groups", g)
  IN IF IsInfoGroup(e, g)
       THEN PushInfos(e, pushed, x.files.cells, TRUE, IsVersionGroup(e, g))
       ELSE PushMetadatas(pushed, x.files.cells)

PushGroups(e, w, cells) == Pushes(w, cells, LAMBDA v, g : PushGroup(e, v, g))

PushPackage(e, w, p) ==
  LET x == e.heap.packages[p]
      grouped == PushGroups(e, Push(w, "packages", p), x.groups.cells)
      parented == PushAll(grouped, "children", x.children.cells)
  IN PushInfos(e, parented, x.infos.cells, FALSE, FALSE)

PushInfoGroup(e, w, g) ==
  IF ~IsInfoGroup(e, g) \/ IsVersionGroup(e, g) THEN w
  ELSE LET pushed == PushGroup(e, w, g)
           cells == e.heap.groups[g].files.cells
       IN IF pushed.infoStart # 0 THEN pushed
          ELSE IF cells = <<>> THEN Panicked(pushed)
          ELSE [pushed EXCEPT !.infoStart = IndexIn(pushed, "infos", cells[1])]

\* Mutant: those infos of a patch that its group does not hold come first.
PushPatchOthersFirst(e, w, n) ==
  LET x == e.heap.patches[n]
      group == e.heap.groups[x.group.cell]
      filed == PushAll(Push(w, "patches", n), "files", x.files.cells)
      others == SubSeq(x.infos.cells, Len(group.files.cells) + 1, Len(x.infos.cells))
      rest == PushInfos(e, filed, others, TRUE, TRUE)
  IN PushGroup(e, rest, x.group.cell)

\* Mutant: one info of a patch is lost after its group.
PushPatchSkipsOne(e, w, n) ==
  LET x == e.heap.patches[n]
      group == e.heap.groups[x.group.cell]
      filed == PushAll(Push(w, "patches", n), "files", x.files.cells)
      grouped == PushGroup(e, filed, x.group.cell)
      others == SubSeq(x.infos.cells, Len(group.files.cells) + 2, Len(x.infos.cells))
  IN PushInfos(e, grouped, others, TRUE, TRUE)

\* What the group of a patch does not hold of its infos comes after it.
PushPatch(e, w, n) ==
  LET x == e.heap.patches[n]
      group == e.heap.groups[x.group.cell]
      filed == PushAll(Push(w, "patches", n), "files", x.files.cells)
      grouped == PushGroup(e, filed, x.group.cell)
      others == SubSeq(x.infos.cells, Len(group.files.cells) + 1, Len(x.infos.cells))
  IN IF ~IsInfoGroup(e, x.group.cell) THEN Panicked(grouped)
     ELSE PushInfos(e, grouped, others, TRUE, TRUE)

LastFiles(e, w) ==
  LET s == e.tables.patches
      files == e.heap.patches[LastOf(s)].files.cells
  IN IF s = <<>> THEN w
     ELSE IF files = <<>> THEN Panicked(w)
     ELSE [w EXCEPT !.lastFiles = IndexIn(w, "files", files[1])]

-----------------------------------------------------------------------------
(* to_directory and to_memory.                                             *)

FirstIndex(w, t, cells) == IF cells = <<>> THEN 0 ELSE IndexIn(w, t, cells[1])

\* The cells of each table whose index is written into a record, or taken of
\* it: get_index panics if the writer has not met one of them.
CellOf(t, ref) == IF ref.is \in {"none", "index"} THEN {} ELSE {<<t, ref.cell>>}
OwnerOf(ref) ==
  CASE ref.is = "package" -> CellOf("packages", ref)
    [] ref.is = "group" -> CellOf("groups", ref) [] OTHER -> {}
FirstOf(t, cells) == IF cells = <<>> THEN {} ELSE {<<t, cells[1]>>}

Needs(t, x) ==
  CASE t = "packages" -> FirstOf("groups", x.groups.cells)
         \cup FirstOf("infos", x.infos.cells) \cup FirstOf("children", x.children.cells)
    [] t = "children" -> CellOf("packages", x.package)
    [] t = "groups" -> FirstOf(x.files.is, x.files.cells) \cup OwnerOf(x.sub)
    [] t = "paths" -> CellOf("links", x.link) \cup CellOf("files", x.file)
    [] t = "links" -> OwnerOf(x.owner) \cup CellOf("infos", x.info)
    [] t = "infos" -> CellOf("paths", x.path) \cup CellOf("links", x.link)
         \cup FirstOf("descriptors", x.descriptors.cells)
    [] t = "descriptors" -> CellOf("groups", x.group)
         \cup CellOf("metadatas", x.metadata) \cup CellOf(ArgsTable(x), x.args)
    [] t = "metadatas" -> {}
    [] t = "patches" -> CellOf("groups", x.group) \cup FirstOf("files", x.files.cells)
    [] t = "files" -> CellOf("infos", x.info) \cup CellOf("links", x.link)

TableOf(w, t) == w.makers[t].table

Complete(e, w) ==
  /\ \A t \in TableNames : \A c \in Cells(TableOf(w, t)) :
       \A need \in Needs(t, e.heap[t][c]) : Has(w, need[1], need[2])
  /\ \A p \in DOMAIN e.packageLookup : Has(w, "packages", e.packageLookup[p])
  /\ \A p \in DOMAIN e.fileLookup : Has(w, "paths", e.fileLookup[p])
  /\ \A p \in Cells(TableOf(w, "packages")) : e.heap.packages[p].groups.cells # <<>>
  /\ \A n \in Cells(TableOf(w, "patches")) : e.heap.patches[n].files.cells # <<>>
  /\ \A g \in Cells(TableOf(w, "groups")) :
       IsInfoGroup(e, g) => e.heap.groups[g].sub.is \in {"none", "group"}

\* to_memory's counts of infos, descriptors, metadata and groups of packages
\* and info groups.  A count of 0 is taken for one that is not known yet.
NoCounts == [package |-> [infos |-> 0, descriptors |-> 0, metadatas |-> 0, groups |-> 0],
             group |-> [infos |-> 0, descriptors |-> 0, metadatas |-> 0, groups |-> 0]]

\* The indices of a group's first info, its first descriptor and the metadata.
FirstIndices(e, w, i) ==
  LET info == e.heap.groups[CellAt(TableOf(w, "groups"), i)].files.cells[1]
      descriptor == e.heap.infos[info].descriptors.cells[1]
  IN [infos |-> IndexIn(w, "infos", info),
      descriptors |-> IndexIn(w, "descriptors", descriptor),
      metadatas |-> IndexIn(w, "metadatas", e.heap.descriptors[descriptor].metadata.cell),
      groups |-> i]

CountGroup(e, w, counts, i) ==
  LET g == CellAt(TableOf(w, "groups"), i)
      start == FirstIndices(e, w, i)
  IN IF counts.package.infos = 0 /\ IsInfoGroup(e, g)
       THEN [counts EXCEPT !.package = start]
     ELSE IF counts.group.infos = 0 /\ IsVersionGroup(e, g)
       THEN [counts EXCEPT !.group =
               [n \in DOMAIN start |-> start[n] - counts.package[n]]]
     ELSE counts

CountsBefore(e, w, n) ==
  LET after[m \in 0..n] ==
        IF m = 0 THEN NoCounts ELSE CountGroup(e, w, after[m - 1], m - 1)
  IN after[n]

Counts(e, w) == CountsBefore(e, w, Len(TableOf(w, "groups")))

\* No count is taken of a group without infos or of one without metadata, and
\* none is negative.
Countable(e, w) ==
  \A i \in 1..Len(TableOf(w, "groups")) :
    LET counts == CountsBefore(e, w, i - 1)
        g == TableOf(w, "groups")[i]
        cells == e.heap.groups[g].files.cells
    IN (counts.package.infos = 0 /\ IsInfoGroup(e, g))
         \/ (counts.group.infos = 0 /\ IsVersionGroup(e, g))
       => /\ cells # <<>>
          /\ IsCell(e.heap.descriptors[e.heap.infos[cells[1]].descriptors.cells[1]].metadata)
          /\ \A n \in DOMAIN CountsBefore(e, w, i).group :
               CountsBefore(e, w, i).group[n] >= 0

\* Mutant: infos are counted where descriptors should be.
SkipBaseOfInfos(e, w, kind) ==
  IF kind = "memory"
    THEN [descriptor |-> Counts(e, w).package.infos, info |-> Counts(e, w).package.infos]
    ELSE [descriptor |-> w.infoStart, info |-> w.infoStart]

\* From which descriptor on an info that is skipped to is counted from 0, and
\* what it is counted from before.
SkipBase(e, w, kind) ==
  IF kind = "memory"
    THEN [descriptor |-> Counts(e, w).package.descriptors,
          info |-> Counts(e, w).package.infos]
    ELSE LET infos == TableOf(w, "infos")
         IN [descriptor |->
               IF InBounds(infos, w.infoStart)
                 THEN FirstIndex(w, "descriptors",
                        e.heap.infos[CellAt(infos, w.infoStart)].descriptors.cells)
                 ELSE 0,
             info |-> w.infoStart]

SkipIndex(e, w, kind, d, x) ==
  LET base == SkipBase(e, w, kind)
      index == IndexIn(w, "infos", x.args.cell)
  IN IF IndexIn(w, "descriptors", d) >= base.descriptor THEN index
     ELSE index - base.info

\* No index that counts from an offset is below it.
AboveOffsets(e, w, kind) ==
  /\ \A p \in Cells(TableOf(w, "paths")) :
       LET ref == e.heap.paths[p].file
       IN IsCell(ref) => IndexIn(w, "files", ref.cell) >= w.lastFiles
  /\ \A d \in Cells(TableOf(w, "descriptors")) :
       LET x == e.heap.descriptors[d]
       IN x.load = "skip" => SkipIndex(e, w, kind, d, x) \in Nat
  /\ \A i \in 1..Len(TableOf(w, "patches")) :
       IndexIn(w, "groups", e.heap.patches[TableOf(w, "patches")[i]].group.cell) >= i - 1

Serialisable(e, w, kind) ==
  /\ w.ok
  /\ Complete(e, w)
  /\ kind = "memory" => Countable(e, w)
  /\ AboveOffsets(e, w, kind)

OwnerIndex(w, ref) ==
  IndexIn(w, IF ref.is = "package" THEN "packages" ELSE "groups", ref.cell)

WritePackage(w, x) ==
  [fullPath |-> x.fullPath, kind |-> x.kind,
   group |-> FirstIndex(w, "groups", x.groups.cells),
   info |-> FirstIndex(w, "infos", x.infos.cells), infos |-> Len(x.infos.cells),
   child |-> FirstIndex(w, "children", x.children.cells),
   children |-> Len(x.children.cells)]

WriteChild(w, x) ==
  [fullPath |-> x.fullPath, package |-> IndexIn(w, "packages", x.package.cell)]

\* A version group is told by its sub package, 0; others have none or its index.
WriteGroup(w, x) ==
  [offset |-> x.offset, count |-> Len(x.files.cells),
   start |-> FirstIndex(w, x.files.is, x.files.cells),
   sub |-> IF ~IsNone(x.sub) THEN OwnerIndex(w, x.sub)
           ELSE IF x.files.is = "infos" THEN 0 ELSE INVALID_INDEX]

\* Mutant: the index of a versioned file is not relative to the latest patch.
WritePathAbsolute(w, x) ==
  [fullPath |-> x.fullPath, link |-> IndexIn(w, "links", x.link.cell),
   file |-> IF IsCell(x.file) THEN IndexIn(w, "files", x.file.cell) ELSE INVALID_INDEX]

WritePath(w, x) ==
  [fullPath |-> x.fullPath, link |-> IndexIn(w, "links", x.link.cell),
   file |-> IF IsCell(x.file) THEN IndexIn(w, "files", x.file.cell) - w.lastFiles
            ELSE INVALID_INDEX]

WriteLink(w, x) ==
  [owner |-> OwnerIndex(w, x.owner), info |-> IndexIn(w, "infos", x.info.cell)]

WriteInfo(w, x) ==
  [path |-> IndexIn(w, "paths", x.path.cell), link |-> IndexIn(w, "links", x.link.cell),
   descriptor |-> FirstIndex(w, "descriptors", x.descriptors.cells),
   kind |-> x.kind, shared |-> x.shared]

WriteDescriptor(e, w, kind, d) ==
  LET x == e.heap.descriptors[d]
  IN [group |-> IndexIn(w, "groups", x.group.cell),
      metadata |-> IF IsCell(x.metadata) THEN IndexIn(w, "metadatas", x.metadata.cell)
                   ELSE INVALID_INDEX,
      load |-> x.load,
      args |-> IF IsNone(x.args) THEN 0
               ELSE IF x.load = "skip" THEN SkipIndex(e, w, kind, d, x)
               ELSE IndexIn(w, ArgsTable(x), x.args.cell)]

\* The key of a file whose data did not change has an index of 2^24.
WriteFile(w, x) ==
  [fullPath |-> x.fullPath, info |-> IndexIn(w, "infos", x.info.cell),
   link |-> IndexIn(w, "links", x.link.cell),
   changed |-> HashKeyIndex(IF x.changed THEN 0 ELSE 16777216)]

WritePatch(e, w, i, x) ==
  [version |-> x.version, group |-> IndexIn(w, "groups", x.group.cell) - i,
   file |-> FirstIndex(w, "files", x.files.cells), files |-> Len(x.files.cells),
   keys |-> Cardinality({e.heap.files[f].fullPath : f \in Cells(x.files.cells)})]

WriteEntry(e, w, kind, t, i) ==
  LET c == TableOf(w, t)[i]
      x == e.heap[t][c]
  IN CASE t = "packages" -> WritePackage(w, x) [] t = "children" -> WriteChild(w, x)
       [] t = "groups" -> WriteGroup(w, x)     [] t = "paths" -> WritePath(w, x)
       [] t = "links" -> WriteLink(w, x)       [] t = "infos" -> WriteInfo(w, x)
       [] t = "descriptors" -> WriteDescriptor(e, w, kind, c)
       [] t = "metadatas" -> x
       [] t = "patches" -> WritePatch(e, w, i - 1, x)
       [] t = "files" -> WriteFile(w, x)

WriteTable(e, w, kind, t) ==
  [i \in 1..Len(TableOf(w, t)) |-> WriteEntry(e, w, kind, t, i)]

WrittenImage(e, w, kind) ==
  LET table(t) == WriteTable(e, w, kind, t)
      counts == Counts(e, w)
  IN [kind |-> kind,
      packages |-> table("packages"), children |-> table("children"),
      groups |-> table("groups"), paths |-> table("paths"), links |-> table("links"),
      infos |-> table("infos"), descriptors |-> table("descriptors"),
      metadatas |-> table("metadatas"), patches |-> table("patches"),
      files |-> table("files"),
      packageKeys |-> Cardinality(DOMAIN e.packageLookup),
      groupInfos |-> counts.group.infos,
      groupDescriptors |-> counts.group.descriptors,
      groupMetadatas |-> counts.group.metadatas]

-----------------------------------------------------------------------------
(* The calls.  A call on an engine that is not resolved panics and loses the  *)
(* engine; the model leaves those out.                                     *)

Careful(liberty, condition) == liberty \in Liberties \/ condition

Init ==
  /\ engine = NoEngine
  /\ guid = 0
  /\ writer = NoWriter /\ k = 0 /\ target = "engine"
  /\ disk \in Images
  /\ edits = 0
  /\ pc = "closed"

Panic ==
  /\ pc' = "panicked"
  /\ UNCHANGED <<engine, guid, writer, k, target, disk, edits>>

Read ==
  /\ pc = "closed"
  /\ Aligned(disk)
  /\ \E gap \in Gaps, at \in 0..CellsOf(disk) :
       /\ guid' = guid + CellsOf(disk) + gap
       /\ engine' = ReadEngine(disk, guid, at, gap)
  /\ guid' <= MaxGuid
  /\ pc' = "read"
  /\ UNCHANGED <<writer, k, target, disk, edits>>

\* Entries are parsed out of the wrong bytes: what follows is not modelled.
ReadGarbled ==
  /\ pc = "closed"
  /\ ~Aligned(disk)
  /\ pc' = "garbled"
  /\ UNCHANGED <<engine, guid, writer, k, target, disk, edits>>

\* resolve is called once, unless a client takes the liberty; between its loops
\* over owners and those over what they own the offsets are taken.
MayResolve == pc = "read" \/ (pc = "idle" /\ "again" \in Liberties)

ResolveBegins ==
  /\ MayResolve
  /\ OwnersFit(engine)
  /\ engine' = ResolveOwners(engine)
  /\ pc' = "resolving"
  /\ UNCHANGED <<guid, writer, k, target, disk, edits>>

ResolveBeginPanics == MayResolve /\ ~OwnersFit(engine) /\ Panic

ResolveEnds ==
  /\ pc = "resolving"
  /\ CanResolveUsers(engine)
  /\ engine' = ResolveUsers(engine)
  /\ pc' = "idle"
  /\ UNCHANGED <<guid, writer, k, target, disk, edits>>

ResolveEndPanics == pc = "resolving" /\ ~CanResolveUsers(engine) /\ Panic

Editing == pc = "idle" /\ edits < MaxEdits

\* Mutant: the counter misses one of the cells.
AddFileCountsFour(f, p) ==
  /\ Editing
  /\ Addable(engine, f, p)
  /\ guid' = guid + 4
  /\ guid' <= MaxGuid
  /\ engine' = WithFile(engine, f, p, guid)
  /\ edits' = edits + 1
  /\ UNCHANGED <<writer, k, target, disk, pc>>

AddFile(f, p) ==
  /\ Editing
  /\ Addable(engine, f, p)
  /\ guid' = guid + 5
  /\ guid' <= MaxGuid
  /\ engine' = WithFile(engine, f, p, guid)
  /\ edits' = edits + 1
  /\ UNCHANGED <<writer, k, target, disk, pc>>

AddFilePanics(f, p) ==
  /\ Editing
  /\ "unaddable" \in Liberties
  /\ ~Addable(engine, f, p)
  /\ Panic

\* metadata_mut of a descriptor: the change shows in the group as well.
ChangeMetadata(d, data) ==
  /\ Editing
  /\ IsCell(engine.heap.descriptors[d].metadata)
  /\ engine' = [engine EXCEPT !.heap.metadatas[engine.heap.descriptors[d].metadata.cell] = data]
  /\ edits' = edits + 1
  /\ UNCHANGED <<guid, writer, k, target, disk, pc>>

\* The sub package is stored as an index only.  The next reader takes 0 and the
\* group's own index for the marks of a group of infos.
Unambiguous(g, p) ==
  LET index == PositionOf(engine.tables.packages, p)
  IN index \notin {-1, 0, PositionOf(engine.tables.groups, g)}

\* set_package: the sub package of a group of metadata.
SetSubPackage(g, p) ==
  /\ Editing
  /\ ~IsInfoGroup(engine, g)
  /\ Careful("ambiguous", Unambiguous(g, p))
  /\ engine' = [engine EXCEPT !.heap.groups[g].sub = PackageRef(p)]
  /\ edits' = edits + 1
  /\ UNCHANGED <<guid, writer, k, target, disk, pc>>

\* The first half of reorganize, to_memory and to_directory.
FromEngine(t) ==
  /\ pc = "idle"
  /\ writer' = NoWriter /\ k' = 1 /\ target' = t
  /\ pc' = "push"
  /\ UNCHANGED <<engine, guid, disk, edits>>

\* Packages come first, then info groups, then patches with the version groups.
Turn ==
  LET s == engine.tables
      packages == Len(s.packages)
      groups == Len(s.groups)
  IN IF k <= packages THEN PushPackage(engine, writer, s.packages[k])
     ELSE IF k <= packages + groups
       THEN PushInfoGroup(engine, writer, s.groups[k - packages])
     ELSE IF k <= packages + groups + Len(s.patches)
       THEN PushPatch(engine, writer, s.patches[k - packages - groups])
     ELSE LastFiles(engine, writer)

LastTurn ==
  k > Len(engine.tables.packages) + Len(engine.tables.groups) + Len(engine.tables.patches)

PushTurn ==
  /\ pc = "push"
  /\ writer' = Turn
  /\ writer'.ok
  /\ k' = k + 1
  /\ pc' = IF LastTurn THEN "writing" ELSE "push"
  /\ UNCHANGED <<engine, guid, target, disk, edits>>

PushPanics == pc = "push" /\ ~Turn.ok /\ Panic

Reorganize ==
  /\ pc = "writing"
  /\ target = "engine"
  /\ engine' = [engine EXCEPT !.tables = [t \in TableNames |-> TableOf(writer, t)]]
  /\ writer' = NoWriter /\ k' = 0
  /\ pc' = "idle"
  /\ UNCHANGED <<guid, target, disk, edits>>

Writing == pc = "writing" /\ target # "engine"

Write ==
  /\ Writing
  /\ Serialisable(engine, writer, target)
  /\ disk' = WrittenImage(engine, writer, target)
  /\ engine' = NoEngine
  /\ writer' = NoWriter /\ k' = 0 /\ target' = "engine"
  /\ pc' = "closed"
  /\ UNCHANGED <<guid, edits>>

WritePanics == Writing /\ ~Serialisable(engine, writer, target) /\ Panic

Next ==
  \/ Read \/ ReadGarbled
  \/ ResolveBegins \/ ResolveBeginPanics \/ ResolveEnds \/ ResolveEndPanics
  \/ \E f \in Files, p \in Names : AddFile(f, p) \/ AddFilePanics(f, p)
  \/ \E d \in DOMAIN engine.heap.descriptors, data \in NewData : ChangeMetadata(d, data)
  \/ \E g \in DOMAIN engine.heap.groups, p \in DOMAIN engine.heap.packages :
       SetSubPackage(g, p)
  \/ \E t \in {"engine", "memory", "directory"} : FromEngine(t)
  \/ PushTurn \/ PushPanics
  \/ Reorganize
  \/ Write \/ WritePanics

Spec == Init /\ [][Next]_vars

-----------------------------------------------------------------------------
(* Properties.                                                             *)

\* Type correctness: no reference of a resolved engine dangles, the counter is
\* ahead of every cell, and what is written can be parsed again.
TypeOK ==
  /\ guid \in 0..MaxGuid /\ edits \in 0..MaxEdits
  /\ IsImage(disk)
  /\ pc \in {"closed", "read", "resolving", "idle", "push", "writing", "panicked", "garbled"}
  /\ \A t \in TableNames :
       /\ DOMAIN engine.heap[t] \subseteq 0..(guid - 1)
       /\ engine.tables[t] \in Seq(DOMAIN engine.heap[t])
       /\ IsMaker(writer.makers[t], DOMAIN engine.heap[t])
  /\ pc \in {"idle", "push", "writing"} =>
       \A t \in TableNames : \A c \in DOMAIN engine.heap[t] :
         \A need \in Needs(t, engine.heap[t][c]) :
           need[2] \in DOMAIN engine.heap[need[1]]

\* A program of one thread that resolves what it reads before it does anything
\* else and adds new files neither panics nor reads a garbled image.
NoPanic == pc \notin {"panicked", "garbled"}

\* The records of the writer's tables whose sets are stored as a first index and
\* a count - or a flag that tells it - have them in consecutive entries.
InfoSpans(h, w) ==
  \A i \in Cells(TableOf(w, "infos")) :
    Consecutive(h.infos[i].descriptors.cells, w.makers["descriptors"])

GroupSpans(h, w) ==
  \A g \in Cells(TableOf(w, "groups")) :
    h.groups[g].files.is = "infos" =>
      Consecutive(h.groups[g].files.cells, w.makers["infos"])

PackageSpans(h, w) ==
  \A p \in Cells(TableOf(w, "packages")) :
    /\ Consecutive(h.packages[p].groups.cells, w.makers["groups"])
    /\ Consecutive(h.packages[p].infos.cells, w.makers["infos"])
    /\ Consecutive(h.packages[p].children.cells, w.makers["children"])

PatchSpans(h, w) ==
  \A n \in Cells(TableOf(w, "patches")) :
    Consecutive(h.patches[n].files.cells, w.makers["files"])

InOrder(h, w) ==
  InfoSpans(h, w) /\ GroupSpans(h, w) /\ PackageSpans(h, w) /\ PatchSpans(h, w)

\* Whatever the client did and whatever was read, these are in order.
SetsInOrder == pc = "writing" => InOrder(engine.heap, writer)

\* With them are the metadata of a group that no other group shares, and, where
\* the image had them like that, the infos of patches.
SetsAreConsecutive ==
  LET held(g) == IF IsInfoGroup(engine, g) THEN {}
                 ELSE Cells(engine.heap.groups[g].files.cells)
      alone(g) == \A h \in DOMAIN engine.heap.groups :
                    h # g => held(g) \cap held(h) = {}
  IN /\ SetsInOrder
     /\ pc = "writing" =>
          /\ \A g \in Cells(TableOf(writer, "groups")) :
               held(g) # {} /\ alone(g) =>
                 Consecutive(engine.heap.groups[g].files.cells, writer.makers["metadatas"])
          /\ \A n \in Cells(TableOf(writer, "patches")) :
               Consecutive(engine.heap.patches[n].infos.cells, writer.makers["infos"])

\* One index and one count stand for the files and for the infos of a patch: the
\* writer must give both the same place, counted from the first patch on.
PatchInfosFollowFiles ==
  pc = "writing" =>
    \A m, n \in Cells(TableOf(writer, "patches")) :
      LET x == engine.heap.patches[m]
          y == engine.heap.patches[n]
      IN /\ Len(x.infos.cells) = Len(x.files.cells)
         /\ IndexIn(writer, "infos", x.infos.cells[1])
              - IndexIn(writer, "infos", y.infos.cells[1])
            = IndexIn(writer, "files", x.files.cells[1])
              - IndexIn(writer, "files", y.files.cells[1])

\* Where among the infos a group that holds some begins.
Beginning(e, g) == PositionOf(e.tables.infos, e.heap.groups[g].files.cells[1])

\* The first of such groups that does not begin with the first info begins at n,
\* or n is 0 and there is none.
FirstBeginsAt(e, IsSuch(_, _), n) ==
  LET s == e.tables.groups
      such(i) == IsSuch(e, s[i]) /\ e.heap.groups[s[i]].files.cells # <<>>
      before(m) == \A i \in 1..(m - 1) : such(i) => Beginning(e, s[i]) = 0
  IN \/ n = 0 /\ before(Len(s) + 1)
     \/ \E i \in 1..Len(s) : such(i) /\ n = Beginning(e, s[i]) /\ n # 0 /\ before(i)

\* resolve takes differences of GUIDs for offsets: they are, as long as the infos
\* of the table have consecutive GUIDs, that is, no other thread came between.
\* The last group is at the offset of the latest patch after the version groups.
OffsetsArePositions ==
  LET s == engine.tables
      last == LastOf(s.groups)
  IN pc = "resolving" /\ (\A i \in 1..Len(s.infos) : s.infos[i] = s.infos[1] + i - 1) =>
       /\ FirstBeginsAt(engine, IsInfoGroup, InfoStart(engine))
       /\ FirstBeginsAt(engine, IsVersionGroup, VersionStart(engine))
       /\ s.groups # <<>> /\ IsInfoGroup(engine, last)
            /\ engine.heap.groups[last].files.cells # <<>>
          => Beginning(engine, last) = VersionStart(engine) + LatestFile(engine)

\* "Sets the reference for this Group's sub_package to the specified cell"
\* (set_package): the next reader finds a group of metadata, and no group of
\* infos, where one was written.
GroupsKeepTheirKind ==
  [][Write =>
       \A i \in 1..Len(disk'.groups) :
         HoldsInfos(i - 1, ParseGroup(disk'.groups[i]))
           <=> IsInfoGroup(engine, TableOf(writer, "groups")[i])]_vars
=============================================================================
