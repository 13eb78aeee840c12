-------------------------- MODULE SearchRefinement --------------------------
(***************************************************************************)
(* The search filesystem as a refinement of SearchTree: what is stored is   *)
(* the listing of the image; what is live is the listing of the vectors,    *)
(* and as long as they are not all resolved the listing that was read.      *)
(***************************************************************************)
EXTENDS SearchFsInvariant, SearchListing

Live ==
  IF ~IsOpen THEN [x \in {} |-> <<>>]
  ELSE IF Settled THEN LiveListing ELSE StoredListing(disk)

\* The careful client's search filesystem implements the tree.
Tree ==
  INSTANCE SearchTree WITH
    RootFolder <- Root,
    Originals <- {StoredListing(image) : image \in Images},
    stored <- StoredListing(disk),
    open <- IsOpen,
    live <- Live

\* What is saved is what was edited, and what is read is what was saved:
\* add_file, reorganize, the writer and the reader keep every folder's list.
ImplementsTree == Tree!Spec

-----------------------------------------------------------------------------
(* The invariant the refinement needs beyond that of a careful client.     *)

\* The reference of an entry whose index is n: none, or the index, or the cell.
Refers(table, ref, n) ==
  IF n = INVALID_INDEX THEN ref = None
  ELSE ref \in {Unresolved(n), Resolved(CellAt(table, n))}

\* The tables are those of the image, and every list begins and goes on as
\* there, however far resolve is.
AsRead ==
  /\ Len(folders) = Len(disk.folders) /\ Len(paths) = Len(disk.paths)
  /\ Cells(folders) = DOMAIN folder /\ Cells(paths) = DOMAIN path
  /\ \A m, n \in 1..Len(paths) : paths[m] = paths[n] => m = n
  /\ \A i \in 1..Len(folders) :
       LET f == folder[folders[i]]
           first == disk.folders[i].first
       IN /\ f.fullPath = disk.folders[i].fullPath
          /\ IF IsSet(f.children)
               THEN f.children.cells[1] = CellAt(paths, first)
               ELSE f.children.index = first
  /\ \A i \in 1..Len(paths) :
       /\ path[paths[i]].fullPath = disk.paths[i].fullPath
       /\ Refers(paths, path[paths[i]].next, disk.paths[i].next)

\* A careful client changes nothing before the engine is resolved.
AsStored == IsOpen /\ ~Settled => AsRead
=============================================================================
