------------------------- MODULE MCPackagedDocument -------------------------
(* The refinement of Document by PackagedFs, on its instances. *)
EXTENDS MCPackagedFs

-----------------------------------------------------------------------------
(* What there is to see of an engine.  Packages, groups, paths and patches go *)
(* by their names, offsets and versions, infos and links by what they are of. *)

OffsetOf(e, g) == e.heap.groups[g].offset
DataOf(e, m) == e.heap.metadatas[m]

OwnerName(e, ref) ==
  CASE ref.is = "package" -> <<"package", e.heap.packages[ref.cell].fullPath>>
    [] ref.is = "group" -> <<"group", OffsetOf(e, ref.cell)>> [] OTHER -> <<"none">>

InfoName(e, i) ==
  LET x == e.heap.infos[i]
  IN <<e.heap.paths[x.path.cell].fullPath,
       OffsetOf(e, e.heap.descriptors[x.descriptors.cells[1]].group.cell)>>

LinkName(e, l) ==
  LET x == e.heap.links[l] IN <<OwnerName(e, x.owner), InfoName(e, x.info.cell)>>

DescriptorView(e, d) ==
  LET x == e.heap.descriptors[d]
  IN <<OffsetOf(e, x.group.cell), x.load,
       IF IsCell(x.metadata) THEN DataOf(e, x.metadata.cell) ELSE "none",
       IF IsNone(x.args) THEN <<>>
       ELSE CASE x.load = "owned" -> <<e.heap.patches[x.args.cell].version>>
              [] x.load = "skip" -> InfoName(e, x.args.cell)
              [] OTHER -> LinkName(e, x.args.cell)>>

Each(cells, view(_)) == [n \in 1..Len(cells) |-> view(cells[n])]

InfoView(e, i) ==
  LET x == e.heap.infos[i]
  IN <<e.heap.paths[x.path.cell].fullPath, LinkName(e, x.link.cell), x.kind, x.shared,
       Each(x.descriptors.cells, LAMBDA d : DescriptorView(e, d))>>

GroupView(e, g) ==
  LET x == e.heap.groups[g]
  IN <<x.offset, OwnerName(e, x.sub), x.files.is,
       IF IsInfoGroup(e, g) THEN Each(x.files.cells, LAMBDA i : InfoView(e, i))
       ELSE Each(x.files.cells, LAMBDA m : DataOf(e, m))>>

PackageView(e, p) ==
  LET x == e.heap.packages[p]
  IN <<x.fullPath, x.kind, Each(x.groups.cells, LAMBDA g : GroupView(e, g)),
       Each(x.infos.cells, LAMBDA i : InfoView(e, i)),
       Each(x.children.cells, LAMBDA c :
         <<e.heap.children[c].fullPath,
           e.heap.packages[e.heap.children[c].package.cell].fullPath>>)>>

FileView(e, f) ==
  LET x == e.heap.files[f]
  IN <<x.fullPath, x.changed, InfoView(e, x.info.cell), LinkName(e, x.link.cell)>>

PatchView(e, n) ==
  LET x == e.heap.patches[n]
  IN <<x.version, OffsetOf(e, x.group.cell),
       Each(x.files.cells, LAMBDA f : FileView(e, f)),
       Each(x.infos.cells, LAMBDA i : InfoView(e, i))>>

PathView(e, p) ==
  LET x == e.heap.paths[p]
  IN <<LinkName(e, x.link.cell),
       IF IsCell(x.file) THEN FileView(e, x.file.cell) ELSE <<>>>>

View(e) ==
  [packages |-> Each(e.tables.packages, LAMBDA p : PackageView(e, p)),
   groups |-> Each(SelectSeq(e.tables.groups, LAMBDA g : IsInfoGroup(e, g)),
                   LAMBDA g : GroupView(e, g)),
   patches |-> Each(e.tables.patches, LAMBDA n : PatchView(e, n)),
   paths |-> [p \in DOMAIN e.fileLookup |-> PathView(e, e.fileLookup[p])],
   names |-> [p \in DOMAIN e.packageLookup |->
                e.heap.packages[e.packageLookup[p]].fullPath]]

\* A value that TLC works out once, not whenever a part of it is asked for.
Once(value) == CHOOSE v \in {value} : TRUE

\* Of an image: what a lone reader of it sees when it is resolved, and nothing
\* if that panics.
StoredView(image) ==
  LET read == Once(ReadEngine(image, 0, 0, 0))
      begun == Once(ResolveOwners(read))
  IN IF Aligned(image) /\ OwnersFit(read) /\ CanResolveUsers(begun)
       THEN View(Once(ResolveUsers(begun))) ELSE View(NoEngine)

\* History: what the archive holds and what there is to see of it.
VARIABLES stored, shown

Watch ==
  /\ stored' = IF disk' = disk THEN stored ELSE StoredView(disk')
  /\ shown' = IF pc' \notin {"idle", "push", "writing"} THEN stored'
              ELSE IF UNCHANGED engine THEN shown ELSE View(engine')

WatchedSpec ==
  /\ Init /\ stored = StoredView(disk) /\ shown = stored
  /\ [][Next /\ Watch]_<<vars, stored, shown>>

Archive ==
  INSTANCE Document WITH
    Originals <- {StoredView(image) : image \in Images},
    open <- pc \in {"read", "resolving", "idle", "push", "writing"},
    working <- pc \in {"read", "resolving", "push", "writing"}

\* A careful client's packaged filesystem is the document it shows: resolving,
\* reorganizing, writing and reading lose nothing of any package, group, file
\* or patch.
ImplementsDocument == Archive!Spec
=============================================================================
