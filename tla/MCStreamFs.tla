----------------------------- MODULE MCStreamFs -----------------------------
(* Instances of StreamFs for TLC. *)
EXTENDS StreamRefinement

Folder(name, start, count) == [name |-> name, start |-> start, count |-> count]
Path(name, first, flags) == [fullPath |-> name, link |-> first, flags |-> flags]

\* Two paths, one of which is regional and falls back to its first region, so
\* that its links share metadata; a folder without paths.
Ordered ==
  [kind |-> "memory", keys |-> 2,
   folders |-> <<Folder("bgm", 0, 2), Folder("movie", 0, 0)>>,
   paths |-> <<Path("a", 0, 0), Path("b", 1, 2)>>,
   links |-> <<0, 1, 1>>, metadatas |-> <<"one", "two">>]

\* The same folders, with tables in another order and an unused metadata.
Shuffled ==
  [kind |-> "directory", keys |-> 2,
   folders |-> <<Folder("bgm", 1, 1), Folder("movie", 0, 1)>>,
   paths |-> <<Path("b", 1, 2), Path("a", 0, 0)>>,
   links |-> <<2, 0, 2>>, metadatas |-> <<"one", "none", "two">>]

\* Three locales, in an archive with one path.
Localized ==
  [kind |-> "memory", keys |-> 1,
   folders |-> <<Folder("bgm", 0, 1)>>,
   paths |-> <<Path("a", 0, 1)>>, links |-> <<0, 1, 0>>,
   metadatas |-> <<"one", "two">>]

Empty ==
  [kind |-> "memory", keys |-> 0,
   folders |-> <<>>, paths |-> <<>>, links |-> <<>>, metadatas |-> <<>>]

\* A path that no folder has, two paths of one name, flags of no meaning, and
\* a link beyond the table.
Unreferenced == [Ordered EXCEPT !.folders[1].count = 1]
Ambiguous == [Shuffled EXCEPT !.paths[1].fullPath = "a", !.keys = 1]
Misflagged == [Ordered EXCEPT !.paths[2].flags = 3]
Truncated == [Ordered EXCEPT !.metadatas = <<"one">>]

AllLiberties == {"unresolved", "miscounted", "shared", "dropped", "unlisted"}

SoundImages == {Ordered, Shuffled, Localized, Empty}
AnyImages == SoundImages \cup {Unreferenced, Ambiguous, Misflagged, Truncated}

AnyClient == {[images |-> SoundImages, liberties |-> {}],
              [images |-> AnyImages, liberties |-> AllLiberties]}
VanillaClient == {[images |-> {Unreferenced}, liberties |-> {"unlisted"}]}

OneDatum == {"new"}

\* There are archives such as the theorems on a careful client ask for.
ASSUME SoundClients == CarefulClients
=============================================================================
