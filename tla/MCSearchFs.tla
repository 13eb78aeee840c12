---------------------------- MODULE MCSearchFs ----------------------------
(* Instances of SearchFs for TLC. *)
EXTENDS SearchRefinement

-----------------------------------------------------------------------------
(* Two folders: "/" with d and f.x, d with g.x.  One image has its tables in *)
(* another order than the lists and a padding entry, as the game's may have. *)

Entry(p, parent, isFolder, next) ==
  [fullPath |-> p, parent |-> parent, isFolder |-> isFolder, next |-> next]

FolderEntryOf(p, parent, files, dirs, first) ==
  [fullPath |-> p, parent |-> parent, fileCount |-> files,
   folderCount |-> dirs, first |-> first]

Ordered ==
  [kind |-> "memory",
   folders |-> <<FolderEntryOf(Root, Blank, 1, 1, 0),
                 FolderEntryOf(<<"d">>, Blank, 1, 0, 2)>>,
   paths |-> <<Entry(<<"d">>, Blank, TRUE, 1),
               Entry(<<"f.x">>, Blank, FALSE, INVALID_INDEX),
               Entry(<<"d", "g.x">>, <<"d">>, FALSE, INVALID_INDEX)>>,
   folderKeys |-> {Root, <<"d">>},
   pathKeys |-> {<<"d">>, <<"f.x">>, <<"d", "g.x">>}, pathLinks |-> 3]

Shuffled ==
  [kind |-> "memory",
   folders |-> <<FolderEntryOf(<<"d">>, Blank, 1, 0, 0),
                 FolderEntryOf(Root, Blank, 1, 1, 2)>>,
   paths |-> <<Entry(<<"d", "g.x">>, <<"d">>, FALSE, INVALID_INDEX),
               Entry(<<"d">>, Blank, TRUE, INVALID_INDEX),
               Entry(<<"f.x">>, Blank, FALSE, 1),
               Entry(Blank, Blank, FALSE, INVALID_INDEX)>>,
   folderKeys |-> {Root, <<"d">>},
   pathKeys |-> {<<"d">>, <<"f.x">>, <<"d", "g.x">>}, pathLinks |-> 3]

\* What the serialiser makes of a folder without children, and a folder's
\* path entry whose folder is missing: both are read, neither is resolved.
Emptied ==
  [Ordered EXCEPT !.folders[2].first = INVALID_INDEX,
                  !.paths = SubSeq(@, 1, 2),
                  !.pathKeys = {<<"d">>, <<"f.x">>}, !.pathLinks = 2]

Orphaned == [Ordered EXCEPT !.folders = <<@[1]>>, !.folderKeys = {Root}]

MCNames == {"d", "e", "f.x", "g.x"}
MCDotted == {"f.x", "g.x"}

SoundImages == {Ordered, Shuffled}

\* There are images such as the theorems on a careful client ask for.
ASSUME SoundTrees == \A image \in SoundImages : IsTree(image)

AnyImages == {Ordered, Shuffled, Emptied, Orphaned}

\* Into the root, into a new folder there and into one of an old folder.
GoodFiles == {<<"g.x">>, <<"e", "f.x">>, <<"d", "e", "f.x">>}

\* Without extension, below a file, below a new folder that has an extension,
\* below the "/" that an absolute path begins with.
AnyFiles ==
  {<<"g.x">>, <<"d", "f.x">>, <<"e", "d", "f.x">>, <<"e">>,
   <<"f.x", "g.x">>, <<"e", "g.x", "f.x">>, <<"/", "f.x">>}

AllLiberties == {"unresolved", "duplicate", "misnamed", "unlisted"}

=============================================================================
