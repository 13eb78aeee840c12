----------------------------- MODULE MCArchiveFs -----------------------------
(* Instances of ArchiveFs for TLC, and its refinement of Catalogue. *)
EXTENDS ArchiveFs, SequencesExt

Table == INSTANCE Tables

INVALID == Table!INVALID_INDEX

-----------------------------------------------------------------------------
(* Two files, f.x and d/g.x, of the package "p"; f.x has a patch.  One path is *)
(* of the stream filesystem.                                               *)

Entry(p, parent, isFolder, next) ==
  [fullPath |-> p, parent |-> parent, isFolder |-> isFolder, next |-> next]
FolderEntry(p, files, dirs, first) ==
  [fullPath |-> p, parent |-> <<>>, fileCount |-> files, folderCount |-> dirs,
   first |-> first]

SearchImage ==
  [kind |-> "memory",
   folders |-> <<FolderEntry(<<"/">>, 1, 1, 0), FolderEntry(<<"d">>, 1, 0, 2)>>,
   paths |-> <<Entry(<<"d">>, <<>>, TRUE, 1), Entry(<<"f.x">>, <<>>, FALSE, INVALID),
               Entry(<<"d", "g.x">>, <<"d">>, FALSE, INVALID)>>,
   folderKeys |-> {<<"/">>, <<"d">>},
   pathKeys |-> {<<"d">>, <<"f.x">>, <<"d", "g.x">>}, pathLinks |-> 3]

Info(p, n, descriptor) ==
  [path |-> p, link |-> n, descriptor |-> descriptor, kind |-> "plain", shared |-> FALSE]
Descriptor(group, data) ==
  [group |-> group, metadata |-> data, load |-> "owned", args |-> 0]

PackagedImage ==
  [kind |-> "memory", packageKeys |-> 1, groupInfos |-> 0,
   groupDescriptors |-> 0, groupMetadatas |-> 0,
   packages |-> <<[fullPath |-> "p", kind |-> "plain", group |-> 0, info |-> 0,
                   infos |-> 2, child |-> 0, children |-> 0]>>,
   children |-> <<>>,
   groups |-> <<[offset |-> "g0", start |-> 0, count |-> 2, sub |-> INVALID],
                [offset |-> "g1", start |-> 2, count |-> 1, sub |-> 0]>>,
   paths |-> <<[fullPath |-> <<"f.x">>, link |-> 0, file |-> 0],
               [fullPath |-> <<"d", "g.x">>, link |-> 1, file |-> INVALID]>>,
   links |-> <<[owner |-> 0, info |-> 0], [owner |-> 0, info |-> 1]>>,
   infos |-> <<Info(0, 0, 0), Info(1, 1, 1), Info(0, 0, 2)>>,
   descriptors |-> <<Descriptor(0, 0), Descriptor(0, 1), Descriptor(1, 2)>>,
   metadatas |-> <<"m0", "m1", "m2">>,
   patches |-> <<[version |-> "1", group |-> 1, file |-> 0, files |-> 1, keys |-> 1]>>,
   files |-> <<[fullPath |-> <<"f.x">>, info |-> 2, link |-> 0, changed |-> 0]>>]

StreamImage ==
  [kind |-> "memory", keys |-> 1,
   folders |-> <<[name |-> "bgm", start |-> 0, count |-> 1]>>,
   paths |-> <<[fullPath |-> "s", link |-> 0, flags |-> 2]>>, links |-> <<0, 0>>,
   metadatas |-> <<"one">>]

OneArchive == {[search |-> SearchImage, packaged |-> PackagedImage, stream |-> StreamImage]}

\* New ones, also in a new folder; one without an extension in a new folder;
\* one that is there already.
AnyFiles == {<<"g.x">>, <<"d", "f.x">>, <<"e", "f.x">>, <<"e", "d">>, <<"f.x">>}

-----------------------------------------------------------------------------
(* The refinement: a file is in an archive if it is in both filesystems. *)

Listing == INSTANCE SearchListing WITH
    Images <- {a.search : a \in Archives}, MaxTable <- MaxGuid,
    k <- searchK, target <- searchTarget, disk <- searchDisk, pc <- searchPc

StoredSearch(image) ==
  LET isFile(p) == \E i \in 1..Len(image.paths) :
                     image.paths[i].fullPath = p /\ ~image.paths[i].isFolder
      listing == Listing!StoredListing(image)
  IN {p \in UNION {ToSet(listing[f]) : f \in DOMAIN listing} : isFile(p)}

StoredPackaged(image) == {image.paths[i].fullPath : i \in 1..Len(image.paths)}

StoredFiles(a) == StoredSearch(a.search) \cap StoredPackaged(a.packaged)

SearchFiles ==
  IF searchPc \in {"closed", "garbled"} \/ ~Search!Settled
    THEN StoredSearch(searchDisk) ELSE ListedFiles

PackagedFiles ==
  IF packagePc = "closed" THEN StoredPackaged(packageDisk) ELSE DOMAIN package.fileLookup

Catalogued ==
  INSTANCE Catalogue WITH
    Originals <- {StoredFiles(a) : a \in Archives},
    saved <- StoredFiles(archive),
    open <- ~Closed,
    files <- IF Closed THEN {} ELSE SearchFiles \cap PackagedFiles

\* What add_file was given is found in a folder and in its package, after any
\* number of reorganizations, saves and sessions, unless the session broke off
\* before it was saved; no other file comes or goes.
ImplementsCatalogue == Catalogued!Spec
=============================================================================
