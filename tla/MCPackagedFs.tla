---------------------------- MODULE MCPackagedFs ----------------------------
(* Instances of PackagedFs for TLC. *)
EXTENDS PackagedFs

Package(name, kind, group, info, infos, child, children) ==
  [fullPath |-> name, kind |-> kind, group |-> group, info |-> info,
   infos |-> infos, child |-> child, children |-> children]
Group(offset, start, count, sub) ==
  [offset |-> offset, start |-> start, count |-> count, sub |-> sub]
Path(name, first, file) == [fullPath |-> name, link |-> first, file |-> file]
Link(owner, info) == [owner |-> owner, info |-> info]
Info(path, link, descriptor, kind, shared) ==
  [path |-> path, link |-> link, descriptor |-> descriptor, kind |-> kind,
   shared |-> shared]
Descriptor(group, metadata, load, args) ==
  [group |-> group, metadata |-> metadata, load |-> load, args |-> args]
Patch(version, group, file, files) ==
  [version |-> version, group |-> group, file |-> file, files |-> files,
   keys |-> files]
File(name, info, link) ==
  [fullPath |-> name, info |-> info, link |-> link, changed |-> 0]

\* Package A with its child B; a regional file; B's second is loaded with an info group,
\* which is the sub package of B's group; a patch with one new version of a.
Plain ==
  [kind |-> "memory", packageKeys |-> 2, groupInfos |-> 1,
   groupDescriptors |-> 1, groupMetadatas |-> 1,
   packages |-> <<Package("A", "plain", 0, 0, 1, 0, 1), Package("B", "plain", 1, 1, 2, 0, 0)>>,
   children |-> <<[fullPath |-> "B", package |-> 1]>>,
   groups |-> <<Group("g0", 0, 1, INVALID_INDEX), Group("g1", 1, 1, 2),
                Group("g2", 3, 1, 2), Group("g3", 4, 1, 0)>>,
   paths |-> <<Path("a", 0, 0), Path("b", 1, INVALID_INDEX), Path("c", 2, INVALID_INDEX)>>,
   links |-> <<Link(0, 0), Link(1, 1), Link(2, 3)>>,
   infos |-> <<Info(0, 0, 0, "plain", FALSE), Info(1, 1, 1, "regional", FALSE),
               Info(2, 2, 3, "plain", FALSE), Info(2, 2, 4, "plain", FALSE),
               Info(0, 0, 5, "plain", FALSE)>>,
   descriptors |-> <<Descriptor(0, 0, "owned", 0), Descriptor(1, 1, "owned", 0),
                     Descriptor(1, INVALID_INDEX, "unsupported", 0),
                     Descriptor(2, INVALID_INDEX, "skip", 0), Descriptor(2, 2, "owned", 0),
                     Descriptor(3, 3, "owned", 0)>>,
   metadatas |-> <<"m0", "m1", "m2", "m3">>,
   patches |-> <<Patch("1", 3, 0, 1)>>,
   files |-> <<File("a", 4, 0)>>]

\* A second patch, with a newer version of a and with b as it was patched first.
Patched ==
  [Plain EXCEPT
     !.groups = Append(@, Group("g4", 6, 1, 0)),
     !.groups[4].count = 2,
     !.paths[2].file = 1,
     !.infos = @ \o <<Info(1, 1, 6, "plain", FALSE), Info(0, 0, 7, "plain", FALSE),
                      Info(1, 1, 8, "plain", FALSE)>>,
     !.descriptors = @ \o <<Descriptor(3, 4, "owned", 0), Descriptor(4, 5, "owned", 1),
                            Descriptor(3, 4, "owned", 0)>>,
     !.metadatas = @ \o <<"m4", "m5">>,
     !.patches = <<Patch("1", 3, 0, 2), Patch("2", 3, 2, 2)>>,
     !.files = <<File("a", 4, 0), File("b", 5, 1), File("a", 6, 0), File("b", 7, 1)>>]

\* A regional package, a file that shares another one's link, no info group.
Regional ==
  [kind |-> "directory", packageKeys |-> 1, groupInfos |-> 0,
   groupDescriptors |-> 0, groupMetadatas |-> 0,
   packages |-> <<Package("A", "regional", 0, 0, 2, 0, 0)>>,
   children |-> <<>>,
   groups |-> <<Group("g0", 0, 1, INVALID_INDEX), Group("g1", 1, 1, INVALID_INDEX),
                Group("g2", 2, 1, 0)>>,
   paths |-> <<Path("a", 0, 0), Path("b", 0, INVALID_INDEX)>>,
   links |-> <<Link(0, 0)>>,
   infos |-> <<Info(0, 0, 0, "regional", FALSE), Info(1, 0, 2, "plain", TRUE),
               Info(0, 0, 3, "plain", FALSE)>>,
   descriptors |-> <<Descriptor(0, 0, "owned", 0), Descriptor(1, 1, "unsupported", 0),
                     Descriptor(0, 0, "unowned", 0), Descriptor(2, 2, "owned", 0)>>,
   metadatas |-> <<"m0", "m1", "m2">>,
   patches |-> <<Patch("1", 2, 0, 1)>>,
   files |-> <<File("a", 2, 0)>>]

SoundImages == {Plain, Patched, Regional}

\* Two groups with the same metadata; no info group at all; an info group with a
\* localized file.
Shared == [Plain EXCEPT !.groups[2].start = 0, !.descriptors[2].metadata = 0]
Groupless ==
  [Plain EXCEPT !.groups = SubSeq(@, 1, 2), !.groups[2].sub = INVALID_INDEX,
                !.infos = SubSeq(@, 1, 2), !.packages[2].infos = 1,
                !.paths = <<Path("a", 0, INVALID_INDEX), Path("b", 1, INVALID_INDEX)>>,
                !.links = SubSeq(@, 1, 2), !.descriptors = SubSeq(@, 1, 3),
                !.metadatas = SubSeq(@, 1, 2), !.patches = <<>>, !.files = <<>>]
Miscounted == [Plain EXCEPT !.groupDescriptors = 3]
\* Child packages beyond the table; an info of two packages; a path of no info.
Truncated == [Plain EXCEPT !.packages[1].children = 2]
Twice == [Plain EXCEPT !.packages[1].infos = 2]
Unreferenced == [Plain EXCEPT !.packages[2].infos = 1]

AnyImages ==
  {Plain, Patched, Shared, Groupless, Miscounted, Truncated, Twice, Unreferenced}
PlainImage == {Plain}

BadFiles == {[fullPath |-> "d", extension |-> TRUE], [fullPath |-> "d", extension |-> FALSE],
             [fullPath |-> "b", extension |-> TRUE]}

NewFile == {[fullPath |-> "d", extension |-> TRUE]}
OneDatum == {"new"}
=============================================================================
