-------------------------- MODULE StreamFsInvariant --------------------------
(***************************************************************************)
(* The inductive invariants of StreamFs: TurnOK, of the writer's loops for  *)
(* any client, and CarefulInvariant, of a careful client's program.        *)
(***************************************************************************)
EXTENDS StreamFs

-----------------------------------------------------------------------------
(* The writer. *)

\* What the writer has at each turn of its loops, of which SetsAreConsecutive
\* and TablesAreReachable follow once it is done.  The sets it has gone through are consecutive, and as much of the
\* current one as it has pushed is the end of the table.
IsTail(cells, n, table) ==
  /\ n <= Len(cells) /\ n <= Len(table)
  /\ \A i \in 1..n : table[Len(table) - n + i] = cells[i]

FolderTurn ==
  /\ at.folder \in 1..(Len(engine.folders) + 1)
  /\ at.path >= 1 => at.folder <= Len(engine.folders)
  /\ at.link >= 1 => at.path >= 1 /\ at.path <= Len(PathsHere)
  /\ Cells(writer.folders.table) =
       {engine.folders[i] : i \in {h \in 1..Len(engine.folders) :
          h < at.folder \/ (h = at.folder /\ at.path >= 1)}}
  /\ \A f \in Cells(writer.folders.table) : IsSet(folder[f].paths)

PathTurn ==
  /\ \A i \in 1..Len(engine.folders) : i < at.folder =>
       Consecutive(folder[engine.folders[i]].paths.cells, writer.paths)
  /\ at.path >= 1 =>
       IsTail(PathsHere, IF at.link = 0 THEN at.path - 1 ELSE at.path,
              writer.paths.table)
  /\ \A p \in Cells(writer.paths.table) :
       /\ IsSet(path[p].links)
       /\ \E i \in 1..Len(engine.folders) :
            i <= at.folder /\ p \in Cells(folder[engine.folders[i]].paths.cells)

LinkTurn ==
  /\ \A i \in 1..Len(writer.paths.table) :
       i < Len(writer.paths.table) \/ at.link = 0 =>
         Consecutive(path[writer.paths.table[i]].links.cells, writer.links)
  /\ at.link >= 1 => IsTail(LinksHere, at.link - 1, writer.links.table)
  /\ \A l \in Cells(writer.links.table) :
       /\ IsCell(link[l])
       /\ \E p \in Cells(writer.paths.table) : l \in Cells(path[p].links.cells)
  /\ Cells(writer.metadatas.table) =
       {link[l].cell : l \in Cells(writer.links.table)}

TurnOK ==
  /\ pc = "closed" => writer = NoWriter
  /\ pc = "push" => /\ MakerOK(writer.folders) /\ MakerOK(writer.paths)
                    /\ MakerOK(writer.links) /\ MakerOK(writer.metadatas)
                    /\ FolderTurn /\ PathTurn /\ LinkTurn

-----------------------------------------------------------------------------
(* Images. *)

InSpan(i, start, count) == start < i /\ i <= start + count

\* An image a careful client's archive may start from: each path is in one
\* folder, no two paths have one name or one link, each link has metadata, and
\* the indices that go through a HashKey fit.
IsSound(image) ==
  LET F == 1..Len(image.folders)
      P == 1..Len(image.paths)
      pathIn(i, f) == InSpan(i, image.folders[f].start, image.folders[f].count)
      linkOf(n, i) == InSpan(n, image.paths[i].link, LinkCount(image.paths[i].flags))
  IN /\ image.kind = "memory" => image.keys = Len(image.paths)
     /\ Len(image.paths) <= INVALID_INDEX /\ Len(image.links) <= INVALID_INDEX
     /\ \A f \in F :
          image.folders[f].start + image.folders[f].count <= Len(image.paths)
     /\ \A i \in P : \E f \in F : pathIn(i, f)
     /\ \A i \in P : \A f, g \in F : pathIn(i, f) /\ pathIn(i, g) => f = g
     /\ \A i \in P :
          /\ image.paths[i].flags \in {0, 1, 2}
          /\ image.paths[i].link + LinkCount(image.paths[i].flags) <= Len(image.links)
     /\ \A i, h \in P : image.paths[i].fullPath = image.paths[h].fullPath => i = h
     /\ \A n \in 1..Len(image.links) :
          /\ image.links[n] < Len(image.metadatas)
          /\ \A i, h \in P : linkOf(n, i) /\ linkOf(n, h) => i = h

\* Who takes none of the liberties has such an archive.
CarefulClients ==
  \A c \in Clients : c.liberties = {} => \A image \in c.images : IsSound(image)

-----------------------------------------------------------------------------
(* The engine of a careful client. *)

NoRepetition(table) == \A i, h \in 1..Len(table) : table[i] = table[h] => i = h

IsCareful == client.liberties = {}
Open == pc \in {"idle", "push"}

\* Before it is resolved: the entries of the image, one cell each.
AsRead ==
  /\ Len(engine.folders) = Len(disk.folders)
  /\ Len(engine.paths) = Len(disk.paths)
  /\ Len(engine.links) = Len(disk.links)
  /\ Len(engine.metadatas) = Len(disk.metadatas)
  /\ \A i \in 1..Len(disk.folders) :
       folder[engine.folders[i]] = ParseFolder(disk.folders[i])
  /\ \A i \in 1..Len(disk.paths) :
       path[engine.paths[i]] = ParsePath(disk.paths[i])
  /\ \A i \in 1..Len(disk.links) :
       link[engine.links[i]] = ParseLink(disk.links[i])
  /\ \A i \in 1..Len(disk.metadatas) :
       metadata[engine.metadatas[i]] = ParseMetadata(disk.metadatas[i])
  /\ NoRepetition(engine.paths)
  /\ NoRepetition(engine.links)
  /\ NoRepetition(engine.metadatas)

\* Once it is: a path is in one place of one folder, a link in one of one path.
PathsPlaced ==
  LET F == 1..Len(engine.folders)
      cells(f) == folder[engine.folders[f]].paths.cells
  IN /\ \A f \in F : Cells(cells(f)) \subseteq Cells(engine.paths)
     /\ \A p \in Cells(engine.paths) : \E f \in F : p \in Cells(cells(f))
     /\ \A f \in F : NoRepetition(cells(f))
     /\ \A f, g \in F : \A p \in Cells(cells(f)) : p \in Cells(cells(g)) => f = g

LinksPlaced ==
  LET cells(p) == path[p].links.cells
  IN /\ \A p \in Cells(engine.paths) :
          /\ Cells(cells(p)) \subseteq Cells(engine.links)
          /\ Len(cells(p)) = LinkCount(path[p].flags)
          /\ NoRepetition(cells(p))
     /\ \A p, q \in Cells(engine.paths) :
          \A l \in Cells(cells(p)) : l \in Cells(cells(q)) => p = q

LookupNames ==
  /\ DOMAIN engine.pathLookup = {path[p].fullPath : p \in Cells(engine.paths)}
  /\ \A p \in Cells(engine.paths) : engine.pathLookup[path[p].fullPath] = p

TablesFit ==
  Len(engine.paths) <= INVALID_INDEX /\ Len(engine.links) <= INVALID_INDEX

\* What the writer has passed, and no more.
PushedInOrder ==
  /\ Len(writer.folders.table) = IF at.path >= 1 THEN at.folder ELSE at.folder - 1
  /\ \A i \in 1..Len(writer.folders.table) :
       writer.folders.table[i] = engine.folders[i]
  /\ \A f \in 1..Len(engine.folders) :
       \A i \in 1..Len(folder[engine.folders[f]].paths.cells) :
         HasCell(writer.paths, folder[engine.folders[f]].paths.cells[i]) =>
           \/ f < at.folder
           \/ f = at.folder /\ (i < at.path \/ (i = at.path /\ at.link >= 1))
  /\ at.link >= 1 =>
       \A i \in 1..Len(LinksHere) : HasCell(writer.links, LinksHere[i]) => i < at.link

CarefulTree ==
  /\ NoRepetition(engine.folders) /\ LookupNames /\ TablesFit
  /\ Settled => PathsPlaced /\ LinksPlaced
  /\ ~Settled => pc = "idle" /\ AsRead
  /\ pc = "push" => PushedInOrder

\* The inductive invariant of a careful client's program, relative to TypeOK
\* and TurnOK.
CarefulInvariant ==
  IsCareful =>
    /\ pc \in {"closed", "idle", "push"}
    /\ IsSound(disk)
    /\ Open => CarefulTree
=============================================================================
