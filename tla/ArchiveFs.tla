------------------------------ MODULE ArchiveFs ------------------------------
(***************************************************************************)
(* An archive (src/src/archive.rs): its packaged, search and stream         *)
(* filesystems, which are read from one archive, edited and saved together, *)
(* by one thread.  A call of the archive is a list of calls of the three;   *)
(* each runs to its end, in its own steps, before the next begins.  Their   *)
(* cells take their GUIDs from one counter.                                *)
(***************************************************************************)
EXTENDS Integers, Sequences

CONSTANTS
  Names, Dotted,     \* components of a path; those with an extension
  Packages,          \* packages a client asks for
  Locales, Regions,  \* links and descriptors by kind
  Files,             \* paths a client adds
  Archives,          \* what there may be to open
  Liberties,         \* what a careless client does: see AddFile, CatchPanic
  MaxGuid,           \* bound: cells made in a run
  MaxAdds            \* bound: files a client adds in a run

VARIABLES
  archive,  \* the archive that can be opened: an image of each filesystem
  todo,     \* the calls that are left of the archive's call
  guid      \* the static counter of TableCell::new

\* SearchFs, PackagedFs and StreamFs have their variables here.
VARIABLES
  folder, path, folders, paths, folderLookup, pathLookup, file, depth, current,
  walked, j, folderMaker, pathMaker, searchK, searchTarget, searchDisk, searchPc
VARIABLES
  package, packageWriter, packageK, packageTarget, packageDisk, adds, packagePc
VARIABLES
  streamFolder, streamPath, link, metadata, stream, streamWriter, streamAt,
  streamTarget, streamDisk, streamPc

searchVars ==
  <<folder, path, folders, paths, folderLookup, pathLookup, file, depth, current,
    walked, j, folderMaker, pathMaker, searchK, searchTarget, searchDisk, searchPc>>
packageVars ==
  <<package, packageWriter, packageK, packageTarget, packageDisk, adds, packagePc>>
streamVars ==
  <<streamFolder, streamPath, link, metadata, stream, streamWriter, streamAt,
    streamTarget, streamDisk, streamPc>>
vars == <<archive, todo, guid, searchVars, packageVars, streamVars>>

Search ==
  INSTANCE SearchFs WITH
    Images <- {a.search : a \in Archives}, MaxTable <- MaxGuid,
    k <- searchK, target <- searchTarget, disk <- searchDisk, pc <- searchPc

Packaged ==
  INSTANCE PackagedFs WITH
    Names <- Packages, Files <- {}, NoData <- "unset", NewData <- {},
    Images <- {a.packaged : a \in Archives}, Gaps <- {0}, MaxEdits <- MaxAdds,
    engine <- package, writer <- packageWriter, k <- packageK,
    target <- packageTarget, disk <- packageDisk, edits <- adds, pc <- packagePc

StreamClient ==
  [images |-> {a.stream : a \in Archives}, liberties |-> Liberties]

Stream ==
  INSTANCE StreamFs WITH
    NewData <- {}, Clients <- {StreamClient}, client <- StreamClient, MaxEdits <- 0,
    folder <- streamFolder, path <- streamPath, engine <- stream,
    writer <- streamWriter, at <- streamAt, target <- streamTarget,
    disk <- streamDisk, edits <- 0, pc <- streamPc

-----------------------------------------------------------------------------
(* The calls of the three that a call of the archive is made of. *)

Call(fs, op) == [fs |-> fs, op |-> op]
CallFor(fs, op, arg) == [fs |-> fs, op |-> op, arg |-> arg]

\* ArchiveNonUserTables::read_options comes before ArchiveUserTables'.
Opening == <<Call("stream", "read"), Call("packaged", "read"), Call("search", "read")>>

Resolving ==
  <<Call("packaged", "resolve"), Call("search", "resolve"), Call("stream", "resolve")>>

Reorganizing ==
  <<CallFor("packaged", "from_engine", "engine"), Call("packaged", "finish"),
    CallFor("search", "from_engine", "engine"), Call("search", "finish"),
    CallFor("stream", "from_engine", "engine"), Call("stream", "finish")>>

\* Mutant: the file is added to the packaged filesystem alone.
AddingUnlisted(f, p) == <<CallFor("packaged", "add_file", <<f, p>>)>>

\* Mutant: the packaged filesystem comes first.
AddingPackagedFirst(f, p) ==
  <<CallFor("packaged", "add_file", <<f, p>>), CallFor("search", "add_file", f)>>

Adding(f, p) ==
  <<CallFor("search", "add_file", f), CallFor("packaged", "add_file", <<f, p>>)>>

\* Every engine gives way to its writer before the first one is serialised.
Saving ==
  <<CallFor("packaged", "from_engine", "memory"),
    CallFor("search", "from_engine", "memory"),
    CallFor("stream", "from_engine", "memory"),
    Call("stream", "finish"), Call("packaged", "finish"), Call("search", "finish"),
    Call("archive", "write")>>

SearchStep(call) ==
  \/ call.op = "read" /\ (Search!Read \/ Search!ReadGarbled)
  \/ call.op = "resolve"
       /\ (Search!ResolvePaths \/ Search!ResolvePathsPanics \/ Search!ResolveStep)
  \/ call.op = "add_file" /\ (Search!AddFile(call.arg) \/ Search!AddStep)
  \/ call.op = "from_engine"
       /\ (Search!FromEngine(call.arg) \/ Search!PushFolder \/ Search!PushPath
             \/ Search!PushNext)
  \/ call.op = "finish" /\ (Search!Reorganize \/ Search!Write \/ Search!WritePanics)

PackagedStep(call) ==
  \/ call.op = "read" /\ (Packaged!Read \/ Packaged!ReadGarbled)
  \/ call.op = "resolve"
       /\ (Packaged!ResolveBegins \/ Packaged!ResolveBeginPanics
             \/ Packaged!ResolveEnds \/ Packaged!ResolveEndPanics)
  \/ call.op = "add_file"
       /\ LET f == [fullPath |-> call.arg[1], extension |-> Search!HasExtension(call.arg[1])]
          IN Packaged!AddFile(f, call.arg[2]) \/ Packaged!AddFilePanics(f, call.arg[2])
  \/ call.op = "from_engine"
       /\ (Packaged!FromEngine(call.arg) \/ Packaged!PushTurn \/ Packaged!PushPanics)
  \/ call.op = "finish"
       /\ (Packaged!Reorganize \/ Packaged!Write \/ Packaged!WritePanics)

StreamStep(call) ==
  \/ call.op = "read" /\ (Stream!Read \/ Stream!ReadGarbled \/ Stream!ReadPanics)
  \/ call.op = "resolve" /\ (Stream!ResolveAll \/ Stream!ResolvePanics)
  \/ call.op = "from_engine"
       /\ (Stream!FromEngine(call.arg) \/ Stream!PushStep)
  \/ call.op = "finish" /\ (Stream!Reorganize \/ Stream!Write \/ Stream!WritePanics)

\* How far each filesystem is, and where a call leaves its filesystem when it
\* has returned.
Stage ==
  [search |-> IF Search!Pushed THEN "writing" ELSE searchPc,
   packaged |-> packagePc,
   stream |-> IF Stream!Done THEN "writing" ELSE streamPc]

Returned(call) ==
  IF call.op = "from_engine" THEN {"writing"} ELSE {"closed", "read", "idle"}

Broken == {searchPc, packagePc, streamPc} \cap {"panicked", "garbled"} # {}

CallStep ==
  /\ todo # <<>> /\ ~Broken
  /\ LET call == Head(todo) IN
     /\ \/ call.fs = "search" /\ SearchStep(call) /\ UNCHANGED <<packageVars, streamVars>>
        \/ call.fs = "packaged" /\ PackagedStep(call) /\ UNCHANGED <<searchVars, streamVars>>
        \/ call.fs = "stream" /\ StreamStep(call) /\ UNCHANGED <<searchVars, packageVars>>
     /\ todo' = IF Stage'[call.fs] \in Returned(call) THEN Tail(todo) ELSE todo
  /\ UNCHANGED archive

-----------------------------------------------------------------------------
(* The session. *)

Closed == todo = <<>> /\ searchPc = "closed"
AtRest == todo = <<>> /\ searchPc = "idle" /\ ~Broken
Resolved == packagePc = "idle"

Session == [packaged |-> packageDisk, search |-> searchDisk, stream |-> streamDisk]

Init ==
  /\ Search!Init /\ Packaged!Init /\ Stream!Init
  /\ archive = Session /\ archive \in Archives
  /\ todo = <<>>

Begin(calls) ==
  /\ todo' = calls
  /\ UNCHANGED <<archive, guid, searchVars, packageVars, streamVars>>

Size(a) ==
  Len(a.search.folders) + Len(a.search.paths) + Packaged!CellsOf(a.packaged)
    + Len(a.stream.folders) + Len(a.stream.paths) + Len(a.stream.links)
    + Len(a.stream.metadatas)

Open == Closed /\ guid + Size(archive) <= MaxGuid /\ Begin(Opening)

\* resolve is the first thing a client calls.
Resolve == AtRest /\ ~Resolved /\ Begin(Resolving)

Reorganize == AtRest /\ Resolved /\ Begin(Reorganizing)

\* A careful client adds new files, with an extension, to packages there are.
AddFile(f, p) ==
  /\ AtRest /\ Resolved
  /\ adds < MaxAdds
  /\ guid + 2 * Len(f) + 5 <= MaxGuid
  /\ Search!Careful("misnamed", Search!WellNamed(f))
  /\ Search!Careful("duplicate", f \notin DOMAIN pathLookup)
  /\ Search!Careful("unaddable",
       /\ f \notin DOMAIN package.fileLookup
       /\ p \in DOMAIN package.packageLookup)
  /\ Begin(Adding(f, p))

\* The table of folders is public, and add_file leaves new folders out of it.
ListFolder(f) ==
  /\ AtRest
  /\ Search!ListFolder(f)
  /\ UNCHANGED <<archive, todo, guid, packageVars, streamVars>>

WriteTables == AtRest /\ Resolved /\ Search!Listed /\ Begin(Saving)

\* Mutant: the search section is the one that was read.
WritesStaleSearch ==
  /\ todo = <<Call("archive", "write")>>
  /\ archive' = [Session EXCEPT !.search = archive.search]
  /\ todo' = <<>>
  /\ UNCHANGED <<guid, searchVars, packageVars, streamVars>>

\* Both sections are in memory when the first byte goes out.
Writes ==
  /\ todo = <<Call("archive", "write")>>
  /\ archive' = Session
  /\ todo' = <<>>
  /\ UNCHANGED <<guid, searchVars, packageVars, streamVars>>

\* A panic, a write that fails, or a client that leaves it at that: the engines
\* are gone, and the archive can be opened again.
BreakOff ==
  /\ \/ Broken
     \/ todo = <<Call("archive", "write")>>
     \/ AtRest
  /\ todo' = <<>>
  /\ folder' = Search!EmptyMap /\ path' = Search!EmptyMap
  /\ folders' = <<>> /\ paths' = <<>>
  /\ folderLookup' = Search!EmptyMap /\ pathLookup' = Search!EmptyMap
  /\ file' = <<>> /\ depth' = 0 /\ current' = 0 /\ walked' = <<>> /\ j' = 0
  /\ folderMaker' = Search!NewMaker /\ pathMaker' = Search!NewMaker
  /\ searchK' = 0 /\ searchTarget' = "engine" /\ searchPc' = "closed"
  /\ package' = Packaged!NoEngine /\ packageWriter' = Packaged!NoWriter
  /\ packageK' = 0 /\ packageTarget' = "engine" /\ packagePc' = "closed"
  /\ streamFolder' = Stream!EmptyMap /\ streamPath' = Stream!EmptyMap
  /\ link' = Stream!EmptyMap /\ metadata' = Stream!EmptyMap
  /\ stream' = Stream!NoEngine /\ streamWriter' = Stream!NoWriter
  /\ streamAt' = Stream!NoTurn /\ streamTarget' = "engine" /\ streamPc' = "closed"
  /\ searchDisk' = archive.search /\ packageDisk' = archive.packaged
  /\ streamDisk' = archive.stream
  /\ UNCHANGED <<archive, guid, adds>>

\* The client goes on after the packaged filesystem has refused a file, which
\* it does before it touches anything.
CatchPanic ==
  /\ "caught" \in Liberties
  /\ packagePc = "panicked"
  /\ todo # <<>> /\ Head(todo).op = "add_file"
  /\ packagePc' = "idle"
  /\ adds' = adds + 1
  /\ todo' = <<>>
  /\ UNCHANGED <<archive, guid, searchVars, package, packageWriter, packageK,
                 packageTarget, packageDisk, streamVars>>

\* bound: the archive cannot be opened once more.
Stops == Closed /\ guid + Size(archive) > MaxGuid /\ UNCHANGED vars

\* A state without a next one is a call that is stuck.
Next ==
  \/ CallStep
  \/ Open \/ Resolve \/ Reorganize \/ WriteTables \/ Writes
  \/ \E f \in Files, p \in Packages : AddFile(f, p)
  \/ \E p \in DOMAIN folderLookup : ListFolder(folderLookup[p])
  \/ BreakOff \/ CatchPanic \/ Stops

Spec == Init /\ [][Next]_vars

-----------------------------------------------------------------------------
(* Properties.                                                             *)

\* The files below the folders of a search filesystem.
ListedFiles ==
  UNION {{path[c].fullPath :
            c \in {d \in Search!Cells(folder[folderLookup[p]].children.cells) :
                     Search!IsNone(path[d].folder)}} : p \in DOMAIN folderLookup}

\* Between calls of a resolved archive whoever finds a file in the packaged
\* filesystem finds it in a folder as well, even after the packaged filesystem
\* refused files that the search filesystem had taken (Archive::add_file).
FilesAreListed ==
  AtRest /\ Resolved => DOMAIN package.fileLookup \subseteq ListedFiles

\* PackagedEngine::add_file puts metadata into a group before it finds that a file
\* has no extension and panics; the metadata would be saved with the group.  The
\* search filesystem has refused such a file by then.
RefusedInTime ==
  todo # <<>> =>
    LET call == Head(todo)
    IN call.fs = "packaged" /\ call.op = "add_file" => Search!HasExtension(call.arg[1])

\* The search filesystem keeps the file that the packaged one refuses.  Whatever
\* was refused before, nothing but a refusal panics; and only if what was refused
\* was there already, so that a path is in the archive twice and in its lookup
\* once, is an archive read back garbled.
ListedTwice(image) ==
  \E m, n \in 1..Len(image.paths) :
    m # n /\ image.paths[m].fullPath = image.paths[n].fullPath

OnlyRefusalsPanic ==
  Broken =>
    \/ todo # <<>> /\ Head(todo).op = "add_file"
    \/ searchPc = "garbled" /\ ListedTwice(archive.search)
=============================================================================
