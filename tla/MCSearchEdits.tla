--------------------------- MODULE MCSearchEdits ---------------------------
(* Clients of SearchEdits for TLC: one links what it rearranges, one does not, *)
(* and two have their saves fail; their images have two to four paths.        *)
EXTENDS SearchEditsInvariant

Entry(p, parent, isFolder, next) ==
  [fullPath |-> p, parent |-> parent, isFolder |-> isFolder, next |-> next]

FolderEntryOf(p, files, dirs, first) ==
  [fullPath |-> p, parent |-> Blank, fileCount |-> files,
   folderCount |-> dirs, first |-> first]

Directory(folderEntries, entries) ==
  [kind |-> "directory", folders |-> folderEntries, paths |-> entries,
   folderKeys |-> {folderEntries[i].fullPath : i \in DOMAIN folderEntries},
   pathKeys |-> {entries[i].fullPath : i \in DOMAIN entries},
   pathLinks |-> Len(entries)]

Flat ==
  Directory(<<FolderEntryOf(Root, 2, 0, 0)>>,
            <<Entry(<<"f.x">>, Blank, FALSE, 1),
              Entry(<<"g.x">>, Blank, FALSE, INVALID_INDEX)>>)

Three ==
  Directory(<<FolderEntryOf(Root, 2, 1, 0), FolderEntryOf(<<"d">>, 1, 0, 3)>>,
            <<Entry(<<"d">>, Blank, TRUE, 1),
              Entry(<<"f.x">>, Blank, FALSE, 2),
              Entry(<<"g.x">>, Blank, FALSE, INVALID_INDEX),
              Entry(<<"d", "g.x">>, <<"d">>, FALSE, INVALID_INDEX)>>)

\* Its tables are not in the order the writer leaves them in.
Shuffled ==
  Directory(<<FolderEntryOf(<<"d">>, 1, 0, 0), FolderEntryOf(Root, 1, 1, 2)>>,
            <<Entry(<<"d", "g.x">>, <<"d">>, FALSE, INVALID_INDEX),
              Entry(<<"d">>, Blank, TRUE, INVALID_INDEX),
              Entry(<<"f.x">>, Blank, FALSE, 1)>>)

\* Behind the links of the writer's own order these entries make other lists.
Crossed ==
  Directory(<<FolderEntryOf(Root, 1, 1, 2), FolderEntryOf(<<"d">>, 1, 0, 0)>>,
            <<Entry(<<"d", "g.x">>, <<"d">>, FALSE, INVALID_INDEX),
              Entry(<<"d">>, Blank, TRUE, INVALID_INDEX),
              Entry(<<"f.x">>, Blank, FALSE, 1)>>)

MCNames == {"d", "f.x", "g.x", "h.x"}
MCDotted == {"f.x", "g.x", "h.x"}
MCFiles == {<<"g.x">>, <<"h.x">>, <<"d", "f.x">>}
MCImages == {Flat, Three, Shuffled, Crossed}
MCClients ==
  {[image |-> Three, files |-> {<<"h.x">>, <<"d", "f.x">>},
    edits |-> "linked", maxTorn |-> 0, maxRead |-> 20],
   [image |-> Flat, files |-> {<<"h.x">>},
    edits |-> "any", maxTorn |-> 0, maxRead |-> 11],
   [image |-> Shuffled, files |-> {<<"g.x">>, <<"d", "f.x">>},
    edits |-> "not", maxTorn |-> 2, maxRead |-> 26],
   [image |-> Crossed, files |-> {<<"d", "f.x">>},
    edits |-> "not", maxTorn |-> 1, maxRead |-> 20]}

\* They begin with what SearchEditsProofs asks of an archive.
ASSUME ClientsBeginSoundly == SoundClients
=============================================================================
