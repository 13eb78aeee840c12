# A verification project for snarc

snarc reads, edits and writes the archive that describes a game's files
(`data.arc`): lists of records that refer to each other by 24-bit indices.
A program opens an archive, *resolves* it (indices become shared cells), edits
the cells, and saves: a *writer* walks everything that is reachable, gives each
cell a new index and serialises the tables.  Nothing in the repository tests
that what is saved is what was edited.  This project models that cycle -
read, resolve, edit, reorganize, write, read again - for the three filesystems
of the archive, for each alone and for the archive that holds them, checks it
with TLC on small archives, and proves for all archives and all clients that the
heap of the search filesystem, the writers of the stream and the packaged
filesystem with the references they follow, the GUIDs of cells, the map of paths
with the lookups written from it and the keys of tables are sound - and, of
clients that take the precautions the API needs, that the search and the stream
filesystem never panic and save what was edited.  Of saves that fail part way it
proves what the sessions after them can rely on.

Paths below are relative to `src/src/`.

## 1. The system

| part | source | state it keeps | operations |
|---|---|---|---|
| table layer | `engines/table.rs` | cells with a GUID from one static counter; references (none, index, cell), linked sets, contiguous sets; `TableMaker` (table, GUID -> index) | `resolve`, `push`, `get_index`, `insert`, `replace`, `clear`, `cells_mut` |
| hash keys | `engines/mod.rs` | none; 24 bits of index, 40 of hash in one word | `set_hash`, `set_index`, `read_table` |
| search filesystem | `engines/search` | folders, paths, two lookups | `from_directory`, `resolve`, `add_file`, `reorganize`, `SearchWriter` |
| stream filesystem | `engines/stream` | folders, paths, links, metadata, one lookup | the same without `add_file`; setters |
| packaged filesystem | `engines/packaged` | ten tables, two lookups | the same; `add_file`; setters |
| bucket map | `engines/packaged/bucket_map.rs` | a map for each remainder of a hash | `get`, `insert`, `remove`, `iter`, `buckets` |
| archive container | `archive.rs` | the three engines, section layout and counts | `open`, `resolve`, `reorganize`, `add_file`, `write_tables` |
| locales and regions | `engines/mod.rs` | none | conversions |
| decompressor | `lib.rs` | one global behind a lock | `set_decompressor`, `decompress_data` |
| raw structures | `raw.rs` | none | `hash40`, `index` of a key |

**How they interact.**  An engine is a value: one thread owns it and calls its
methods.  Engines share two things: the counter of GUIDs (`TableCell::new`, an
atomic increment), so that cells of one table are consecutive only if no other
thread makes cells while it is read and as long as it is not reorganized, and the global decompressor, which an archive is
read with under a lock.  A cell is shared by reference inside
one engine; a client may rearrange the vectors of cells it is given.  The archive
holds three engines, reads them one after the other from one stream (each reader
finds its tables from the counts in headers that writers computed), and
`Archive::add_file` edits two of them.

**Failure.**  A wrong index, an entry that is missing from a `TableMaker` or comes
twice, and an unexpected kind of reference are panics.  A panic unwinds through
the code that owns the engine; the models take the engine for lost and the
archive as last written - but for the panics of `PackagedEngine::add_file`
before it touches anything, which a program can catch and go on.  Writers
serialise into memory before they write, so a panic cannot leave half a table;
a file system that fails between two files of `to_directory`, or within one, can.

**What is hard.**  Every property worth having spans several calls: an addition
keeps two copies of a list in step (vector and links), a lookup in step with a
tree, an index in step with a renumbering, and mistakes show only after a save
*and* a read.  The readers' loops follow links that earlier writers produced.
Which calls panic depends on every edit before.  Offsets are taken as
differences of GUIDs.  Counts in a header are computed from other counts.  The
list of these hazards, with their lines, is in `PROJECT.json`.

**What makes each part correct.**

- *Table layer*: a maker gives each cell the index of its entry; no `push` meets
  a cell it has; resolving is idempotent; an index fits in a key.
- *Search*: every path has one owning folder; vector and links agree; lookups
  agree with the tree; `resolve` ends; a save keeps every list in order; a
  careful client never meets a panic.
- *Stream*: sets are consecutive in what is written; shared metadata is written
  once; a save keeps what the engine shows.
- *Packaged*: as stream, and offsets, boundaries, kinds and patches survive.
- *Bucket map*: it is a map; the keys and bounds written from it lead a search to
  every entry.
- *Archive*: a reader finds each table where the writer put it; what is saved is
  what the session had, all three filesystems of it; a file that the packaged
  filesystem has is in a folder.
- *Keys, locales, decompressor*: halves of a key are apart; codes, numbers and
  regions agree; a decompressor that was replaced is in no one's use.

## 2. The modules

| module | models |
|---|---|
| `Tables` | references, sets, `TableMaker`, hash keys, lookups |
| `TableLoops` | table readers and spans shared by stream and packaged |
| `SearchFs` | `engines/search`: engine, `add_file`, `SearchWriter`; each turn of a loop is a step |
| `SearchTree` | abstract: listings of folders that are opened, edited, saved or lost |
| `SearchFsInvariant` | the inductive invariants of `SearchFs`: of any client, and of a careful one |
| `SearchRefinement` | what a program sees of a search filesystem: the mapping to `SearchTree`, checked and proved |
| `StreamFs` | `engines/stream`: engine, client's setters, `StreamWriter` |
| `StreamFsInvariant` | the inductive invariants of `StreamFs`: of the writer's loops for any client, and of a careful one |
| `StreamRefinement` | what a program sees of a stream filesystem: the mapping to `Document`, checked and proved |
| `PackagedFs` | `engines/packaged`: engine, `add_file`, setters, `PackagedWriter` |
| `PackagedFsInvariant` | the inductive invariants of `PackagedFs`, of any client: of its ten kinds of records, and of what the writer has pushed |
| `Document` | abstract: what any of the engines promises about open, edit, save |
| `SearchListing` | what a folder lists: in the links of an image, in the vectors of an engine |
| `SearchEdits` | `SearchFs` with clients that edit the public vectors of children, and with `to_directory` file by file, failing between and within files |
| `SearchEditsInvariant` | the inductive invariant of `SearchEdits` |
| `CellGuids` | the counter of GUIDs under several threads, and `resolve`'s offsets |
| `KeyedMap`, `BucketMap` | abstract: a map; `bucket_map.rs` and the lookups written from it |
| `HashKeys` | the word of a `HashKey` and of a `RawHashKey` |
| `Locales` | locales, regions, their numbers and codes |
| `GlobalDecompressor` | the global decompressor and its lock |
| `Catalogue` | abstract: the files of an archive over sessions |
| `ArchiveFs` | `archive.rs`: `SearchFs`, `PackagedFs` and `StreamFs` as instances with one counter |
| `MCSearchFs`, `MCSearchEdits`, `MCStreamFs`, `MCPackagedFs`, `MCPackagedDocument`, `MCArchiveFs` | images, clients and bounds for TLC; the mapping of `PackagedFs` to `Document` |
| `MCSharedParts` | `CellGuids`, `BucketMap`, `HashKeys`, `GlobalDecompressor` and `Locales` for TLC, one of them running at a time |
| `Iteration` | no part of the code: induction over a loop, with the loop's body and what is shown of it as parameters |
| `TablesProofs`, `SearchFsProofs`, `SearchEditsProofs`, `StreamFsProofs`, `PackagedFsProofs`, `SharedPartsProofs`, `ArchiveFsProofs` | TLAPS proofs |

### State and actions against the code

*Cells.*  `TableCell<T>` is an `Rc` with a GUID.  The heap of a model maps GUIDs
to records (`folder`, `path` in `SearchFs`; `engine.heap[table]` in
`PackagedFs`), `guid` is the static counter, tables are sequences of GUIDs.  A
field of type `TableReference` is `None`, `Unresolved(i)` or `Resolved(cell)`; a
`ReferenceSet` is a start index, a range, or a vector of cells.

*Calls.*  In `SearchFs` the variable `pc` says which call is under way:
`ResolvePaths` is the first loop of `resolve`, `WalkSkip/WalkStart/WalkHop/
WalkStop/ResolveReturns` the turns of the second; `AddFile` begins `add_file`,
`Descend`, `MakeFolder` and `MakeFile` are its turns; `FromEngine` begins the
writer, `PushFolder`, `PushPath`, `PushNext` are its turns; `Reorganize` and
`Write` its ends.  `ListFolder` is a client pushing a folder into the public
table.  `StreamFs` takes a step for each push of the writer and each turn of its loops,
with the turns in `at`, and one for each setter of its client (`Edit`).  `PackagedFs` splits `resolve` in the two
halves between which offsets are taken, and the writer into a step for each
package, group and patch; the loops within such a step are operators named for
what they push (`PushGroups`, `PushInfos`, `PushDescriptors`).

*The archive.*  `ArchiveFs` holds the variables of the three filesystem modules
and instantiates them.  A call of the archive is a list of calls of the three
(`Opening`, `Resolving`, `Reorganizing`, `Adding`, `Saving`), in the order of the
code; `CallStep` lets the first of them take its steps until it has returned.
`Saving` turns all three engines into writers before it serialises one;
`Writes` is where the bytes go out, both sections complete by then.  A session
ends there or in `BreakOff`; `archive` is what the next one opens.

*Threads.*  In `CellGuids` a thread reads entry by entry, one GUID each, and the
history variable `disturbed` says whether somebody else took one in between.
`Reorganize` makes a table of any of the engine's cells in any order, since which
infos there are and where `from_engine` meets them is for packages, groups and
patches to say, which the module leaves out; `reordered` says that the table is
another than was read.  `resolve` may be called again.  In
`GlobalDecompressor` the lock is `std::sync::RwLock`: shared by readers, and without
any promise of who gets in first.

*Failing saves.*  `SearchEdits` replaces the one-step `Write`: `BufferImage` is
the serialisation, `WriteFile` one `fs::write`, `SaveFails` one that leaves the
old file, a prefix of the new, or a prefix that ends within an entry, which the
next `read_table` refuses.  Only the tables of folders and paths are torn, since
nothing reads the others back.

*Editing vectors.*  `SearchEdits` offers the client what a set's methods do
(`Swapped`, `Shortened`, `Lengthened`).  One whose `edits` are `"linked"` keeps the
last child, whose link no operation could end, and sets the links of the others
(`LinkedAlong`); one whose `edits` are `"any"` does neither.

*The image.*  `disk` is what the serialiser wrote, or the original: the records
as stored, with indices modulo 2^24 where they go through a `HashKey`, and the
counts readers rely on.  In `SearchFs` and `StreamFs` the image also says
whether it is a directory of tables or the archive itself, whose reader goes by
those counts: if they do not match, `ReadGarbled` ends the run.

*Data.*  A path is a sequence of names (search) or a name; hashes are the names
themselves, collisions are outside the models.  A panic is an explicit
alternative of each action (`Panic`, `...Panics`); an arithmetic underflow is
one of them.  Definitions marked *Mutant* in the modules are wrong variants of
the definition that follows them, named in `PROJECT.json`; no specification
uses them.

*Liberties.*  Each module has a client that calls what the API offers.
`Liberties` names precautions it does not take - resolving first, naming files
with an extension, keeping the flags of a stream path in step with its links,
listing a new folder before saving.  With no liberties the client is *careful*.
In `StreamFs` and `SearchEdits` one of `Clients` is chosen at the beginning and
kept in the variable `client`: each brings its images and liberties (or edits and
bounds), and a property that asks for precautions names the clients it is about.

## 3. The runs

| run | what it shows |
|---|---|
| `search_careful` | a careful client meets no panic, lookups agree with the tree (`LookupIsTree`, `FolderRefsAgree`), every call returns (`CallReturns`), and the system implements `SearchTree` (`ImplementsTree`) |
| `search_careless` | whatever a client does: vectors and links agree, one owner, no overlapping GUIDs, every written image is a forest; and the inductive invariant of section 5 |
| `search_edits` | a client that relinks what it rearranges saves what it sees (`SavedAsShown`), and `resolve` shows what is stored (`ResolvedAsStored`); one that does not still ends every list (`ListsEnd`); failing saves and the sessions on what they leave: calls end (`CallsEnd`), a save that begins holds complete lists, and no path twice before the first failure (`SavesAreComplete`) |
| `search_unlisted` | finding: after `add_file` below a new folder the writer panics |
| `search_parent` | finding: the parent key of a saved path is its own |
| `stream` | careful clients: moving, sharing and changing paths, links and metadata survives a save (`ImplementsDocument`) without a panic; careless ones: the writer panics or has each set consecutive, and its tables hold just what is reached |
| `stream_vanilla` | finding: an image with an unreferenced path cannot be written |
| `packaged_careful` | what one sees of packages, groups, infos, descriptors, patches and files survives resolve, reorganize, save and read |
| `packaged_careless` | with other threads' GUIDs, repeated resolves and odd images: sets stay consecutive, the infos of a patch follow its files, and the offsets `resolve` takes from GUIDs are the places where info groups, version groups and the latest patch begin, as long as the GUIDs of the infos are consecutive |
| `packaged_kind` | finding: a group of metadata is read back as a group of infos |
| `archive` | sessions that break off at any time, files that are refused, panics that are caught: the archive is a `Catalogue`, no call is stuck, what the packaged filesystem has stays listed, no file without extension gets there, and only refusals do harm (`OnlyRefusalsPanic`) |
| `shared_parts` | GUIDs are unique, `resolve`'s distances are short only in a table that `reorganize` has changed (`ShortOnlyIfReordered`), and exact for one that was read undisturbed and is as it was read; the buckets are a map (`KeyedMap`) over saves and reads, and keys and bounds lead to every entry in both forms; the halves of a key are apart; a decompressor that was replaced is in no one's use, and once threads begin no more calls each gets through the lock (`AllGetThrough`); codes and regions of locales agree |

**Refinement.**  `SearchTree` has a listing of names in the archive and one in
the open engine; `SearchRefinement` maps the first to what the links of the image
spell, the second to the vectors of the folders the lookup knows.  `Document`
has one view of the archive and one of the engine; nothing but an edit may
change what is shown.  `StreamRefinement` and `MCPackagedDocument` map them to what
a program sees by following references: names, data, offsets, kinds - no index and
no GUID.  `MCPackagedDocument` keeps the view in history variables, because it is
computed from ten tables and would otherwise be computed for every comparison.
In `StreamRefinement` a view is functions of places - folder, path of the folder,
link of the path - so that it can be proved about: two heaps that agree at each
place have one view, and *which links share metadata* is a set of pairs of places.
The programs of careless clients are left out, as a document that is never opened.
An engine without records is resolved as it is read, so `Document`'s `Open` may
begin with work to do or without.
`Catalogue` has the set of files saved and the set of the open session; a file is
in an archive if a folder lists it and the packaged filesystem finds it.
`KeyedMap` has each key's value, whichever bucket keeps it.

**Bounds, and why they are enough.**

- `MaxGuid` bounds the cells of a run and so the number of sessions.  Search: 20
  cells are two reads of an image of 5 or 6 entries with additions before and
  after the save; 12 when the client is careless, which still lets every liberty
  be taken after a save.  Stream: 19 or 20, two reads with edits between.
  Packaged: 97 is a read, `add_file`, a save and a read of the largest sound
  image; 72 with careless clients.
- `MaxEdits` is 2 (1 in `packaged_careless`): two edits are what it takes to
  undo, share twice, or edit what was just added.
- `Locales = 3`, `Regions = 2` stand for 14/15 and 5/6.  Only 1, the number of
  regions and the number of locales are told apart, and each must differ.
- Images.  Search: `Ordered` as a writer leaves it; `Shuffled`, as the game's,
  its tables in another order than its lists and with padding; careless also
  `Emptied` and `Orphaned`.  Stream: also `Localized`, with links by locale, and `Empty`;
  careless `Unreferenced`, `Ambiguous`, `Misflagged`, `Truncated`.  Packaged:
  `Plain`, `Patched`, `Regional`; careless `Shared`, `Groupless`, `Miscounted`,
  `Truncated`, `Twice`, `Unreferenced`.  Each odd image breaks one assumption a
  reader or writer makes.
- `MaxTable` bounds a writer's table so that an index fits in a key; section 5
  proves the search results for any value up to 2^24 - 1.
- `Gaps` are the GUIDs other threads take while a table is read.
- Clients of `search_edits`.  The one that links has "/" with three children, one a
  folder with a child, which is what it takes to swap two and keep the third; the
  one that does not has two children and a new file, so that every edit is
  possible before and after the file comes; the two whose saves fail edit only
  through `add_file`.  One has `maxTorn` 2: a session that saves on top of a torn
  save, and is torn.  The image of the other (`Crossed`) is such that the old
  folders over the new links give a folder the children of another.  `maxRead`
  bounds the cells made before a client's last read and so its sessions: two, and
  four with failing saves.
- `shared_parts`: the sum, not the product, of its parts' states, since one runs and
  the others stand still.  `Threads` are two, with tables of 3 entries and 5
  GUIDs: a table is read with another's cells in each place of it, and added to
  before it is put into another order, for which `Reorganize` has all
  arrangements of its cells; `Callers` of the decompressor are three, one to install
  and two that can take turns at reading.
  One bucket and three, and hashes of which three share a remainder and none has
  the remainder 0, so that a bucket is empty.  Keys have parts of 3, 1 and 2 bits in
  place of 32, 8 and 24, and indices up to three beyond the room there is; the
  proofs hold for all widths.
- `archive`: one archive with a file at the root and one in a folder, a patch and
  a stream path; `MaxAdds` is 2 and `MaxGuid` 90, which is two or three sessions.
- A walk longer than `MaxGuid` has met a cycle: it stops in the middle, so that
  `CallReturns` sees a call that does not return.

**Deadlock** is not checked where a run really ends, after a panic, after a
garbled read, or when a bound is reached.  It is checked in `archive`, where a
state without a next one is a call that is stuck (the bound has a step of its
own, `Stops`), and in `shared_parts`, where no part ever ends.

**Fairness.**  `search_careful` assumes `WF_vars(CallStep)` and `search_edits`
`WF_editVars(EditedCallStep)`: a call that has begun runs on.  The thread
that owns an engine is in the call until it returns, and no call waits.
`shared_parts` assumes (`LockFairness`) that decompressing ends and a panic unwinds
(`GoesOn`, for each thread), and of the lock only that somebody gets in if
somebody can (`GetsIn`, for all threads together).  `RwLock` promises no order:
it may let new readers in while a writer waits, or keep them out, and readers that
take turns may starve `set_decompressor`, of which TLC finds the behaviour if the
condition of `AllGetThrough` is dropped.  The property therefore speaks of threads that
begin no more calls.  Nothing
obliges a client to make a call.  `ArchiveFs` assumes none: its calls follow each
other in the same thread, and the deadlock check finds one that is stuck.

## 4. Findings

Four are runs that end in a violation, with the lines in `PROJECT.json`.

1. `search_unlisted`: `add_file` leaves new folders out of the table the writer
   walks; saving after it panics, although the writer's doc rules out user errors.
2. `search_parent`: `SearchPath` is written with its own path where the reader
   takes the parent.
3. `stream_vanilla`: a stream path no folder refers to makes saving panic; the doc
   says such entries only keep a round trip from being byte for byte.
4. `packaged_kind`: the sub package of a group doubles as the mark of a group of
   infos; a group of metadata is read back as one when its package comes out at
   its own index or 0.

Others were met while the code was read and modelled and follow from a line or
two; no run is spent on them.  The models do what the code does.

5. `file_count` is "the number of files this folder contains"
   (`engines/search/types.rs:43`); `push_child` (233-239) does not touch it.
6. "Not changed by this patch" is written as index `1 << 24`
   (`engines/packaged/types.rs:1292-1298`), which a key drops, and read back as
   changed (374).
7. A folder's vector of children can be rearranged (`engines/table.rs:760-815`), but
   is saved from its first cell and the links of its paths
   (`engines/search/types.rs:349-377`), which the set's methods do not touch;
   `SavedAsShown` holds only of a client that sets the links itself.
8. `Archive::add_file` (`archive.rs:558`) lists a file before the packaged filesystem
   finds that it exists (`engines/packaged/mod.rs:263`), or that its package does
   not: the retry lists it again.  An archive saved with a path listed twice has
   fewer keys than paths and is read back garbled (`OnlyRefusalsPanic`).
9. A second `resolve`, after a reorganization has left gaps between GUIDs, sets the
   patch of a descriptor to none (`engines/packaged/types.rs:774-778`).  After an
   `add_file` and a reorganization its differences of GUIDs
   (`engines/packaged/mod.rs:153`, 158, 162) are no distances either: the new info
   may stand before older ones, and if it is the first, the subtraction
   underflows (`Distance` of `PackagedFs` and of `CellGuids`).
10. The codes "eu_en", "eu_fr" and "eu_es" are read as American locales
    (`engines/mod.rs:137-139`), against `as_str` (93-95).
11. A save that fails between the table of folders and that of paths leaves lists
    under folders they do not belong to.  The next session resolves them, and
    `add_file`, which looks for a folder among the children of its parent
    (`engines/search/mod.rs:147-170`), makes a second folder of a path that is
    there: a path may then be twice in a complete image (`SavesAreComplete`).
12. `RawHashKey::hash40` (`raw.rs:36-38`) makes a hash of `len_and_index`; the field
    `hash` (31) is not read.

## 5. What is proved

`TablesProofs`: lemmas about tables, makers and lookups for all tables, among them
that `push` keeps every index right (`PushKeepsIndex`) and that a maker is
injective.

| module | theorem | for every | what it says |
|---|---|---|---|
| `SearchFsProofs` | `TypeCorrect` | image, client | no reference dangles, tables and lookups hold cells of the heap, what is written is an image |
| | `PathsHaveOneOwner`, `ListsFollowVectors` | forest, client | one owner; vectors and links agree |
| | `PushNeverOverlaps` | forest, client | the "Overlapping GUIDs" panic is out of reach of `SearchWriter::from_engine` |
| | `WrittenForest` | forest, client | every written image is a forest again, and its indices survive the 24 bits of a key |
| | `CarefulNeverPanics` | tree, careful client | no call panics, no image is read back garbled |
| | `CarefulLookup`, `CarefulRefsAgree` | tree, careful client | the two lookups and the folder references agree with the tree |
| | `CarefulImplementsTree` | tree, careful client | `SearchFs` implements `SearchTree`: what is saved is what was edited |
| `SearchEditsProofs` | `WholeSaves` | tree, client, failures | what a save buffers has its lists apart, each entry in one of them, its keys from its entries; no path twice as long as no save failed |
| | `ListsOnDiskEnd` | tree, client, failures | from any first index on disk the links lead to an end |
| | `SavesWhatItShows`, `ResolvesWhatIsStored` | tree, client, failures | what is buffered is what the engine shows; what `resolve` sets is what the image has |
| `StreamFsProofs` | `TypeCorrect` | image, client | as for search; what is written parses again |
| | `WriterKeepsSetsConsecutive`, `WriterTakesWhatIsReachable` | image, client | each set is consecutive in what is written; the tables hold just what is reached, each cell once |
| | `CarefulNeverPanics` | sound image, careful client | no call panics, no image is read back garbled |
| | `CarefulImplementsDocument` | sound image, careful client | `StreamFs` implements `Document`: what is saved is what was edited, shared metadata included |
| `PackagedFsProofs` | `TypeCorrect` | image, client | once `resolve` has returned, every index a writer asks for, in any record of the ten tables, is that of a cell there is; what is written parses again |
| | `SetsAreInOrder` | image, client | the sets of packages, info groups and infos and the files of patches are consecutive in what is written |
| | `OffsetsAreRight`, `GroupsStayHeld` | image, client | if the infos have consecutive GUIDs, the differences of GUIDs that `resolve` takes are places in the table; the infos of a group of the table are in the table |
| `SharedPartsProofs` | `UniqueGuids`, `ShortOnlyReordered`, `ExactAlone` | number of threads, tables | GUIDs are unique; an offset is short of the distance only where `reorganize` has put a later cell before an earlier one, exact in a table that was read undisturbed and not changed, and 0 for the first entry alone |
| | `HalvesApart`, `RawIndexIsIndex` | widths | the halves of a key are apart; two ways to read its index agree |
| | `OneDecompressor` | number of threads | nobody is in a decompressor that was replaced |
| | `EntriesAreFound`, `MapIsImplemented` | number of buckets | each entry is in the bucket of its hash; the buckets implement `KeyedMap` |
| | `KeysAreFound` | number of buckets, entries | the keys and bounds a save writes lead a search to an entry if and only if the map has it |
| | `CodesAgree` | locale or code picked | a locale's region is the one its code begins with |
| `ArchiveFsProofs` | `RefusedBeforeHarm` | archive, client | the packaged filesystem is never asked to add a path without an extension |

### The search filesystem, any client

**Assumption** (`ConstantsOK`): the images an archive may start from are forests
(no entry follows two others, begins two lists, or begins one and follows
another) with at most 2^24 - 1 paths; `add_file` is never called with an empty
path; a table has at most 2^24 - 1 entries.  An image that is no forest is
outside the format: one path would be in two folders.

**The argument.**  None of the four properties is inductive.  In the middle of
`resolve` some folders have vectors and others are indices; in `OneOwner` alone
nothing says that the cell an index leads to is not in somebody's vector
already.  `Invariant` therefore distinguishes three heaps: an empty one;
`Fresh`, nobody has resolved it and the *indices* form a forest, so that every
call but `resolve` panics at its first folder; and `Linked`.  `Linked` speaks
of `Collected(f)`, the vector of a folder or as much of it as the walk has
found: links are injective (`NextInjective`), a list follows its links and ends
with none, no cell is collected twice (`CollectedOnce`), nothing leads to the
first cell of a list (`FirstsFollowNone`), the cell a folder still has to begin
with is nobody's next, nobody's child and no other folder's beginning
(`BeginningsApart`), and a folder without a vector is still ahead of the walk
(`WalkOK`).  A hop is then safe without induction along the list: whoever has
the next cell already has it behind a cell with the same link, which by
injectivity is the last cell walked itself.  `push_child` keeps all of it
because the cell is new and the link is put on the last cell of one list only.
For the writer, `PushedFolders` and `PushedPaths` say that its tables hold only
folders passed and their children; with `FoldersOnce` (no folder is in the table
twice) and one owner, a push never meets a cell it has.  What is written is a
forest because the maker is injective, no index reaches the mark of the end, and
the heap is a forest.  TLC checks `Invariant` on the careless instance
(`search_careless`), with panics, abandoned calls and all liberties.

### The search filesystem, a careful client

**Hypothesis** (`CarefulClient`): no liberties, and every image is a *tree*: full
paths differ, every entry is in the list of the folder whose path is its parent's,
entries that stand for folders match the folders, and every other entry has an
extension.  It is a hypothesis of the theorems rather than an
assumption of the module, because the careless instance has neither;
`MCSearchFs` asserts of its images that they satisfy it (`SoundTrees`).

**The argument.**  A call panics when a name is in one of the four places that
know it - path table, folder table, path lookup, folder lookup - and not in
another.  `CarefulInvariant` says that the four agree *at each step*: full paths
are injective, every path entry is under its own full path in the lookup, every
folder in its lookup leads to a folder cell whose children have it as parent,
every listed entry is in the table, and what `add_file` holds in its hands (the
folder it has descended to, the part of the path that is left) names a place in
that tree where nothing is yet.  In the middle of `resolve` the same is said of
indices, and in the middle of the writer, that the entries still to be pushed
are known.

**Refinement.**  `CarefulImplementsTree` is proved step by step.  Most steps are
stutters; `Read` opens, a step of `add_file` that adds a child is an edit, `Write`
saves, a panic does not occur.  Two facts carry it.  `AsStored`
(`CarefulReadsAsStored`): until an engine is resolved, its entries and links are
those of the image, so the vectors that `resolve` finds spell what is stored.
And what is written spells what the vectors show (`Matches`, `SameListing`):
entry by entry the maker's indices lead along the vector.  A listing is computed
by `ListFrom`, a recursive function along links; that it gives the names of
a vector (`ListOfCells`) is proved by a least counterexample: the natural
numbers are well founded, and the library's theorem on minimal elements takes a
set where the one on induction takes a formula.

### Clients that rearrange, and saves that fail

**Hypothesis** (`SoundClients`): the images that clients begin with are
directories that are trees without padding, and `Liberties` is empty: an engine is
resolved before it is written, and `add_file` is called with names that are right.
What the clients do beyond that - clear, replace, insert, reorder vectors, with or
without linking them anew - and where saves fail, how often and how far they get
is free.  `MCSearchEdits` asserts `SoundClients` of its clients.

**The argument.**  After a save that failed, two engines' tables lie side by side,
and the next engine need not be a forest: two folders can begin with one cell, and
the `Invariant` of `SearchFs` is lost for good.  `EditInvariant` says what is left.
Until an engine is resolved, a folder that has no vector and every link are as the
image has them (`AsOnDisk`), and what `resolve` holds in its hands is the list of
the folder it is at (`WalkFollowsDisk`), so that the vector it sets is the list
that is stored.  `LinksEnd` and `CellsEnd` say that links, of entries and of cells,
end, without a path being spoken of: each set of them has one that leads out of
it.  A prefix of a table keeps this, and so does a table beside another's, since
all links are in one file.  That a reader then is at the end after as many hops as
there are entries (`EndOfLinks`) follows from counting: of one hop more two are at
the same entry (`TwoAlike`), and the entries between them lead to each other.

A vector that shares a cell with another folder's cannot be written, since the
second push panics.  So the links of vectors need only be right where the vector is
*alone* (`LinkedIfAlone`), which survives reading any two tables, and the writer
itself shows that those it has passed are alone (`PassedOK`, `PushedAlone`).  From
this alone, with the writer's checks, the image in its buffers is a forest, each of
its entries is in a list, its keys are its paths (`PathsFound`), and its lists are
the vectors (`BufferParts`): the code refuses to write, by panics, whatever torn
tables would make wrong - but for a path that is there twice, which nothing checks.

Before the first failure the engine is that of a careful client
(`CarefulSession`): rearranging with links anew keeps `Invariant` and
`CarefulInvariant` of `SearchFs` (`RearrangeCareful`), whose lemmas give the
engine's own steps; what is buffered is a tree (`WrittenTree`); and when the last
file is written the disk has it.  TLC found no violation of `EditInvariant` on the
instance of `search_edits`, of which it is no listed property.

### The stream writer

**Assumptions** (`CountsOK`, `ImagesOK`): there is at least one locale and one
region, and an image has numbers where the parser reads numbers.  Nothing is
assumed of the client: it may take any of its liberties, and the image may have
entries without reference, spans that overlap or go beyond the table, and flags
the parser rejects.

**The argument.**  `TypeOK` by itself is not inductive: what is written must parse
again, so the index of a set's first cell must exist, which depends on what the
writer has pushed.  `TurnOK` states what holds at each turn of the three nested
loops: the sets gone through are consecutive in the maker's tables, as much of
the current set as is pushed is the *tail* of its table, each table holds the
cells of the sets gone through and no other, and the makers' indices are right.
A push of a new cell keeps a consecutive set where it is (`ConsecutivePushed`)
and lengthens the tail (`TailPushed`); at the end of a loop the tail is the whole
set, which is so consecutive (`TailIsConsecutive`).  A push of a cell that is
there already panics, so a shared path or link never gets that far; metadata that
is there already is not pushed, and its table need not be consecutive.
`TypeOK /\ TurnOK` is inductive.

### The stream filesystem, a careful client

**Hypothesis** (`CarefulClients`): an image of a client without liberties is
*sound*.  Each path is in the span of one folder, no two paths have one name or
one link, flags are those the parser knows, each link has metadata, spans stay
within their tables, and no table has more than 2^24 - 1 entries.  It is a
hypothesis of the theorems, since careless clients have other images;
`MCStreamFs` asserts it of its own (`SoundClients`).

**The argument.**  Folders, paths and links are a forest twice: in the image as
spans, in the engine as vectors.  `CarefulInvariant` says which at each step.
Until `resolve` the engine has the image's entries, one cell each (`AsRead`);
then each path is in one place of one folder and each link in one of one path
(`PathsPlaced`, `LinksPlaced`), and the lookup knows just the paths of the table
(`LookupNames`).  `resolve` takes spans to vectors entry by entry, so the second
follows from the first and the image's soundness (`MirrorPlaces`).  The setters
of a careful client keep it because what they set aside they put back, once, at
another place.  In the writer, `PushedInOrder` says that what it has pushed it
has passed; a path or link that is in one place only is therefore never met
again, so that no push panics.  What is pushed is all there is, every cell
asked for has an index, and sets are consecutive (`TurnOK`), so that what is
written is the engine's forest as spans again (`WrittenMirrors`) and sound
(`MirrorIsSound`).

**Refinement.**  `CarefulImplementsDocument` is proved step by step: a view is a
function of places, and in reading, resolving, reorganizing and writing the
record at a place stays the same.  That links share metadata after a save if
and only if they did before follows from the makers being injective.

TLC found no violation of `TurnOK` and `CarefulInvariant` on the instance of the
run `stream`, of which they are not listed properties.

### The packaged filesystem

**Assumptions** (`CountsOK`, `ImagesOK`): there is at least one locale and one
region, and an image has numbers where the parser reads numbers and kinds where
it reads kinds (`IsImage`).  Nothing is assumed of the client or of other
threads' GUIDs; indices may lead anywhere, spans may overlap, and any number of
records may claim the same cell.

**The argument.**  `TypeOK` speaks of engines that are resolved and of writers,
and depends on what was read.  `TypeInvariant` says of each kind of record what
it may hold at any time (`RecordOK`: an index, or a cell *of the right kind*, and
sets that are never empty where the code takes their first cell), and of each
stage what is left unresolved.  Before `resolve` the heap is *fresh*: its cells
are just the entries of the tables.  That is what makes the loops over tables
reach every record; after an edit and a reorganization it is no longer true, but
then nothing is left to resolve, which is why a second `resolve` is safe.  The
first half leaves owners known (`OwnersKnown`), the second the rest
(`UsersKnown`); in between, the offsets taken from GUIDs are natural numbers,
or `resolve` has panicked (`InfoStartIsNat`, `VersionStartIsNat`,
`LatestFileIsNat`), so that an index shifted by one is an index.  A descriptor
is resolved only with an info that has it: one that no info has keeps its
indices.  The invariant therefore asks for descriptors only what is said of
those that infos have, and of the writer that it has no others.

`SpansInvariant` is about the writer.  A push of a cell that is there panics, so
a loop that comes to its end has put its cells behind each other; what comes
between two of its pushes goes to other tables (`After(h, w, v, T)`: only the
tables `T` have grown, and indices given stay), and what is consecutive stays so
(`ConsecutiveStays`).  That is proved bottom up: of a descriptor, an info, a
group, a package, an info group and a patch (`DescriptorPushed` to `PatchPushed`),
each with the loop over the next lower kind.  That a patch's versioned files are
there when the last turn asks for the first of them is `PatchesDone`.

`GroupsHeld` is about where `resolve` begins to count.  It takes the GUID of a group's
first info less that of the first info of the table, and searches the table for
neither.  That the difference is a place therefore needs that the info is in the
table (`DistanceIsPlace`), after any edit, reorganization and second `resolve`:
`resolve` itself takes a group's infos from the table, no edit sets them, and
`from_engine` pushes a group with all that it holds (`HeldWhenPushed`), whoever pushed
its infos before.  With `TypeInvariant` and `SpansInvariant` it is inductive.  A
client that removed infos from the table would break it; the model has none
(section 7).  `OffsetsArePositions` then follows group by group (`FirstOfGroups`,
`StartsArePlaces`), and for the last group, whose offset is a difference of two
offsets, from both (`LatestIsPlace`).

**Induction over loops.**  The library's induction theorems take a formula as
parameter, which the provers cannot be given.  `Iteration` states induction over
a loop with the loop's body and the invariant as *constants* of the module, and
proves it from the well-foundedness of the natural numbers; `PackagedFsProofs`
instantiates it with the body of each of its loops (`Sums`, `CellPushes`,
`DescriptorPushes`, `InfoPushes`, `GroupPushes`).  The loops are written as
recursive functions for that.

**What is not proved** of `SetsAreConsecutive`: the metadata of a group that no other
group shares, and the infos of a patch.  Neither holds of every image: a package may
have an info group whose descriptors push the metadata of a later group first, and
the infos of a patch need not begin with those of its group.  TLC checks both on
the images of `packaged_careless`.

TLC found no violation of `TypeInvariant`, `SpansInvariant` and `GroupsHeld` on the instance of the
run `packaged_careless` with all its liberties, of which they are not listed
properties.

### The shared parts

GUIDs: all cells are below the counter and no table has one twice; as long as
`reorganize` has not changed it a table ascends, and it is *even* - each
GUID the first one plus its place - if nobody disturbed it either.  Distinct
numbers that ascend grow by one at least with each place (`RisesByOne`), so where an
offset is short they do not ascend.  Buckets:
`insert` and `remove` of one bucket are `Put`, a save and a read change nothing one
can ask for.  The lookups written from them: a key's place is the number of keys
before it, so that places are a bijection between the entries and the first
numbers (an injective map between finite sets of one size), ascending within a
bucket; that the buckets are finite is part of the invariant.  Keys: uniqueness of quotient and remainder; the one assumption
(`SpansOK`) is that length and index fit in a word.  Decompressor: who is in one
holds the lock.  Locales: by cases.

### The archive

`Archive::add_file` is two calls, and a panic of the first can be caught.
`CallsIInv` says what is left to do at each step: calls that add nothing, or both
calls of `add_file` with the search filesystem in the middle of its own for the
same path, or the second alone - and then the path has an extension, since
`SearchEngine::add_file` does not return otherwise.

### Only model-checked

- Liveness (`CallReturns`, `CallsEnd`, `AllGetThrough`), which depends on
  fairness and ENABLED.
- The refinements of `Document` by `PackagedFs` and of `Catalogue` by `ArchiveFs`,
  whose mappings compute what one sees with folds over tables.
- All of `ArchiveFs` but `RefusedInTime`: what holds of one filesystem is proved of
  its module, not of the instance.
- Of `PackagedFs`: that a careful client meets no panic and that the infos of a patch
  follow its files, which depend on how the image was ordered; and the two parts of
  `SetsAreConsecutive` named above.
- The inductive invariants `CarefulInvariant` (of both filesystems), `EditInvariant`,
  `TurnOK`, `TypeInvariant`, `SpansInvariant` and `GroupsHeld` are proved; TLC checked them
  while they were written, and no run lists them.

## 6. Not modelled

- Hash40 collisions and the hash function; names or numbers stand for hashes.
- Borrow panics of `RefCell`: they need a client that keeps a `Ref` over a call.
- What a decompressor or compressor computes, and the bytes of the sections of an
  archive: their sizes, padding and magic numbers have no protocol, since the
  reader goes to the second section by an offset of its own.
- `to_directory` of the packaged and stream filesystems file by file; they write
  their files as the search filesystem does, and `SearchEdits` stands for it.
- Setters of `PackagedFs` other than metadata and sub packages: the ten records
  have some forty, each of one field.
- The records of `raw.rs` besides the key: no code makes or reads them.

## 7. Plan

Done: the three filesystems with their abstract specifications, the archive over
them, the shared layers below, and the proofs of section 5.  What could come next:

1. What a sound image of the packaged filesystem is, from which `NoPanic`,
   `PatchInfosFollowFiles` and the refinement of `Document` would follow for a careful
   client, as they do for the stream filesystem.
2. The theorems of `SearchFs` carried over to its instance in `ArchiveFs`.
3. A client of `PackagedFs` that sets the other references of a record, and one
   that removes infos from a package.
