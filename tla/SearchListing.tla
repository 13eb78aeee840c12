--------------------------- MODULE SearchListing ---------------------------
(***************************************************************************)
(* What a reader sees of the search filesystem: for each folder the paths   *)
(* of its children in order.  The archive keeps them as linked lists, an   *)
(* engine as vectors.                                                      *)
(***************************************************************************)
EXTENDS SearchFs

\* The indices a reader goes through from "first" on; the last one stays.
Hops(image, first) ==
  LET n == Len(image.paths)
      hop[i \in 0..n] ==
        IF i = 0 THEN first
        ELSE IF hop[i - 1] < n THEN image.paths[hop[i - 1] + 1].next
        ELSE hop[i - 1]
  IN hop

ListFrom(image, first) ==
  LET n == Len(image.paths)
      hop == Hops(image, first)
  IN [i \in 1..Cardinality({i \in 0..n : hop[i] < n}) |->
        image.paths[hop[i - 1] + 1].fullPath]

StoredListing(image) ==
  LET folderAt(p) == CHOOSE i \in 1..Len(image.folders) :
                       image.folders[i].fullPath = p
  IN [p \in {image.folders[i].fullPath : i \in 1..Len(image.folders)} |->
        ListFrom(image, image.folders[folderAt(p)].first)]

ChildPaths(f) ==
  LET cells == folder[f].children.cells
  IN [i \in 1..Len(cells) |-> path[cells[i]].fullPath]

LiveListing == [p \in DOMAIN folderLookup |-> ChildPaths(folderLookup[p])]
=============================================================================
