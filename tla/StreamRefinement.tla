-------------------------- MODULE StreamRefinement --------------------------
(***************************************************************************)
(* What a program sees of a stream filesystem, in an image and in an        *)
(* engine, and that it is a Document: each folder's paths, their flags, the *)
(* data of their links and which links share it - no index and no GUID.    *)
(***************************************************************************)
EXTENDS StreamFsInvariant

\* The metadata that each link of each path of each folder leads to are rows;
\* a place is that of a folder, its path and the path's link.
Places(rows) ==
  UNION {UNION {{<<f, i, n>> : n \in DOMAIN rows[f][i]} : i \in DOMAIN rows[f]}
           : f \in DOMAIN rows}

\* The pairs of places that share their metadata.
Shared(rows) ==
  {s \in Places(rows) \X Places(rows) :
     rows[s[1][1]][s[1][2]][s[1][3]] = rows[s[2][1]][s[2][2]][s[2][3]]}

View(names, heads, rows, data) ==
  [folders |-> [f \in DOMAIN rows |->
     <<names[f], [i \in DOMAIN rows[f] |->
        <<heads[f][i], [n \in DOMAIN rows[f][i] |-> data[rows[f][i][n]]]>>]>>],
   shared |-> Shared(rows)]

\* What an image shows, following its indices.
StoredPath(image, f, i) == image.paths[image.folders[f].start + i]

StoredNames(image) == [f \in 1..Len(image.folders) |-> image.folders[f].name]

StoredHeads(image) ==
  [f \in 1..Len(image.folders) |-> [i \in 1..image.folders[f].count |->
     <<StoredPath(image, f, i).fullPath, StoredPath(image, f, i).flags>>]]

StoredRows(image) ==
  [f \in 1..Len(image.folders) |-> [i \in 1..image.folders[f].count |->
     [n \in 1..LinkCount(StoredPath(image, f, i).flags) |->
        image.links[StoredPath(image, f, i).link + n] + 1]]]

StoredView(image) ==
  View(StoredNames(image), StoredHeads(image), StoredRows(image), image.metadatas)

\* What an engine shows, following its cells.
Heap ==
  [table |-> engine.folders,
   folder |-> folder, path |-> path, link |-> link, metadata |-> metadata]

LiveFolder(h, f) == h.folder[h.table[f]]
LivePath(h, f, i) == h.path[LiveFolder(h, f).paths.cells[i]]
LiveLink(h, f, i, n) == h.link[LivePath(h, f, i).links.cells[n]]

LiveNames(h) == [f \in 1..Len(h.table) |-> LiveFolder(h, f).name]

LiveHeads(h) ==
  [f \in 1..Len(h.table) |-> [i \in 1..Len(LiveFolder(h, f).paths.cells) |->
     <<LivePath(h, f, i).fullPath, LivePath(h, f, i).flags>>]]

LiveRows(h) ==
  [f \in 1..Len(h.table) |-> [i \in 1..Len(LiveFolder(h, f).paths.cells) |->
     [n \in 1..Len(LivePath(h, f, i).links.cells) |-> LiveLink(h, f, i, n).cell]]]

LiveView(h) == View(LiveNames(h), LiveHeads(h), LiveRows(h), h.metadata)

\* A careless client's program is left out of the refinement.
CarefulImages == UNION {c.images : c \in {d \in Clients : d.liberties = {}}}

\* The variables of the document.
Stored == IF IsCareful THEN StoredView(disk) ELSE <<>>
IsOpen == IsCareful /\ Open
IsWorking == IsOpen /\ (pc = "push" \/ ~Settled)
Shown == IF IsOpen /\ Settled THEN LiveView(Heap) ELSE Stored

Archive ==
  INSTANCE Document WITH
    Originals <- {StoredView(image) : image \in CarefulImages} \cup {<<>>},
    stored <- Stored, open <- IsOpen, working <- IsWorking, shown <- Shown

\* A careful client's stream filesystem is the document it shows: resolving,
\* reorganizing, writing and reading lose nothing, shared metadata included.
ImplementsDocument == Archive!Spec
=============================================================================
