--------------------------- MODULE ArchiveFsProofs ---------------------------
(***************************************************************************)
(* Proofs about ArchiveFs: what the search filesystem has done before the   *)
(* packaged filesystem is asked, whatever archive is opened and whatever    *)
(* liberties its client takes.                                             *)
(***************************************************************************)
EXTENDS ArchiveFs, SequenceTheorems, TLAPS

\* A call of the archive that adds no file.
WithoutAdding(calls) ==
  /\ calls \in Seq({calls[i] : i \in 1..Len(calls)})
  /\ \A i \in 1..Len(calls) : calls[i].op # "add_file"

\* add_file before the search filesystem has returned, and after.
AsksSearch ==
  \E f \in Files, p \in Packages :
    todo = Adding(f, p) /\ (searchPc = "add" => file = f)

AsksPackaged ==
  \E f \in Files, p \in Packages :
    todo = <<CallFor("packaged", "add_file", <<f, p>>)>> /\ Search!HasExtension(f)

CallsIInv == WithoutAdding(todo) \/ AsksSearch \/ AsksPackaged

\* The calls of the archive besides add_file add nothing.
LEMMA OtherCalls ==
  /\ WithoutAdding(<<>>)
  /\ WithoutAdding(Opening) /\ WithoutAdding(Resolving)
  /\ WithoutAdding(Reorganizing) /\ WithoutAdding(Saving)
BY DEF WithoutAdding, Opening, Resolving, Reorganizing, Saving, Call, CallFor

\* What is left of a call that adds nothing adds nothing.
LEMMA RestOfCalls ==
  ASSUME NEW calls, WithoutAdding(calls), calls # <<>>
  PROVE  WithoutAdding(Tail(calls))
<1>1. PICK S : S = {calls[i] : i \in 1..Len(calls)}
  OBVIOUS
<1>2. calls \in Seq(S)
  BY <1>1 DEF WithoutAdding
<1>3. PICK rest : rest = Tail(calls)
  OBVIOUS
<1>4. /\ rest \in Seq(S) /\ Len(rest) = Len(calls) - 1 /\ Len(calls) \in Nat \ {0}
      /\ \A i \in 1..Len(rest) : rest[i] = calls[i + 1]
  BY <1>2, <1>3, HeadTailProperties, LenProperties, EmptySeq
<1>5. ASSUME NEW i \in 1..Len(rest) PROVE rest[i].op # "add_file"
  <2>1. i + 1 \in 1..Len(calls) /\ rest[i] = calls[i + 1]
    BY <1>4
  <2> QED BY <2>1 DEF WithoutAdding
<1>6. rest \in Seq({rest[i] : i \in 1..Len(rest)})
  <2>1. rest \in [1..Len(rest) -> {rest[i] : i \in 1..Len(rest)}]
    BY <1>4, LenProperties
  <2> QED BY <1>4, <2>1, SeqDef, LenProperties
<1> QED
  BY <1>3, <1>5, <1>6 DEF WithoutAdding

\* A step of SearchEngine::add_file keeps the path it was called with, and
\* returns only if the path has an extension.
LEMMA SearchAdds ==
  ASSUME NEW f, searchPc = "add" => file = f,
         Search!AddFile(f) \/ Search!AddStep
  PROVE  \/ searchPc' = "add" /\ file' = f
         \/ searchPc' = "panicked"
         \/ searchPc' = "idle" /\ Search!HasExtension(f)
<1>1. CASE Search!AddFile(f)
  BY <1>1 DEF Search!AddFile, Search!Panic
<1>2. CASE Search!Descend
  BY <1>2 DEF Search!Descend, Search!Descending, Search!Panic, Search!addVars
<1>3. CASE Search!MakeFolder
  BY <1>3 DEF Search!MakeFolder, Search!Descending, Search!Panic, Search!addVars
<1>4. CASE Search!MakeFile
  BY <1>4 DEF Search!MakeFile, Search!Landing
<1>5. CASE Search!AddFilePanics
  BY <1>5 DEF Search!AddFilePanics, Search!Panic
<1> QED
  BY <1>1, <1>2, <1>3, <1>4, <1>5 DEF Search!AddStep

\* The first call of the archive's add_file, at any of its steps.
LEMMA SearchIsAsked ==
  ASSUME NEW f \in Files, NEW p \in Packages, todo = Adding(f, p),
         searchPc = "add" => file = f, CallStep
  PROVE  CallsIInv'
<1>1. /\ Head(todo) = CallFor("search", "add_file", f)
      /\ Tail(todo) = <<CallFor("packaged", "add_file", <<f, p>>)>>
  BY DEF Adding
<1>2. /\ Head(todo).fs = "search" /\ Head(todo).op = "add_file" /\ Head(todo).arg = f
  BY <1>1 DEF CallFor
<1>3. SearchStep(Head(todo))
  BY <1>2 DEF CallStep
<1>4. Search!AddFile(f) \/ Search!AddStep
  BY <1>2, <1>3 DEF SearchStep
<1>5. todo' = IF Stage'["search"] \in {"closed", "read", "idle"} THEN Tail(todo) ELSE todo
  <2>1. todo' = IF Stage'[Head(todo).fs] \in Returned(Head(todo)) THEN Tail(todo) ELSE todo
    BY DEF CallStep
  <2> QED BY <1>2, <2>1 DEF Returned
<1>6. CASE searchPc' = "add" /\ file' = f
  <2>1. Stage'["search"] = "add"
    BY <1>6 DEF Stage, Search!Pushed
  <2> QED BY <1>5, <1>6, <2>1 DEF CallsIInv, AsksSearch, Adding, CallFor
<1>7. CASE searchPc' = "panicked"
  <2>1. Stage'["search"] = "panicked"
    BY <1>7 DEF Stage, Search!Pushed
  <2> QED BY <1>5, <1>7, <2>1 DEF CallsIInv, AsksSearch, Adding, CallFor
<1>8. CASE searchPc' = "idle" /\ Search!HasExtension(f)
  <2>1. Stage'["search"] = "idle"
    BY <1>8 DEF Stage, Search!Pushed
  <2>2. todo' = <<CallFor("packaged", "add_file", <<f, p>>)>>
    BY <1>1, <1>5, <2>1
  <2> QED BY <1>8, <2>2 DEF CallsIInv, AsksPackaged, CallFor, Search!HasExtension
<1> QED
  BY <1>4, <1>6, <1>7, <1>8, SearchAdds

\* A step of a call: what is left to do is as much, or one call less.
LEMMA CallStepKeeps ==
  ASSUME CallsIInv, CallStep
  PROVE  CallsIInv'
<1>1. todo # <<>> /\ (todo' = todo \/ todo' = Tail(todo))
  BY DEF CallStep
<1>2. CASE WithoutAdding(todo)
  <2>1. WithoutAdding(todo')
    BY <1>1, <1>2, RestOfCalls
  <2> QED BY <2>1 DEF CallsIInv, WithoutAdding
<1>3. CASE AsksSearch
  BY <1>3, SearchIsAsked DEF AsksSearch
<1>4. CASE AsksPackaged
  <2>1. PICK f \in Files, p \in Packages :
          /\ todo = <<CallFor("packaged", "add_file", <<f, p>>)>>
          /\ Search!HasExtension(f)
    BY <1>4 DEF AsksPackaged
  <2>2. CASE todo' = todo
    BY <2>1, <2>2 DEF CallsIInv, AsksPackaged, CallFor, Search!HasExtension
  <2>3. CASE todo' = Tail(todo)
    <3>1. todo' = <<>>
      BY <2>1, <2>3
    <3>2. WithoutAdding(todo')
      BY <3>1, OtherCalls
    <3> QED BY <3>2 DEF CallsIInv, WithoutAdding
  <2> QED BY <1>1, <2>2, <2>3
<1> QED
  BY <1>2, <1>3, <1>4 DEF CallsIInv

\* What there is to do is known, and an extension looked for, at every step.
THEOREM CallsInductive == Spec => []CallsIInv
<1>1. Init => CallsIInv
  BY OtherCalls DEF Init, CallsIInv
<1>2. ASSUME CallsIInv, [Next]_vars PROVE CallsIInv'
  <2>1. ASSUME WithoutAdding(todo') PROVE CallsIInv'
    BY <2>1 DEF CallsIInv, WithoutAdding
  <2>2. CASE CallStep
    BY <1>2, <2>2, CallStepKeeps
  <2>3. CASE Open \/ Resolve \/ Reorganize \/ WriteTables
    BY <2>1, <2>3, OtherCalls DEF Open, Resolve, Reorganize, WriteTables, Begin
  <2>4. ASSUME NEW f \in Files, NEW p \in Packages, AddFile(f, p) PROVE CallsIInv'
    <3>1. /\ todo' = Adding(f, p) /\ searchPc' = "idle"
      BY <2>4 DEF AddFile, Begin, AtRest, searchVars
    <3> QED BY <3>1 DEF CallsIInv, AsksSearch, Adding, CallFor
  <2>5. CASE Writes \/ BreakOff \/ CatchPanic
    BY <2>1, <2>5, OtherCalls DEF Writes, BreakOff, CatchPanic
  <2>6. ASSUME NEW p \in DOMAIN folderLookup, ListFolder(folderLookup[p]) PROVE CallsIInv'
    BY <2>1, <2>6, OtherCalls DEF ListFolder, AtRest
  <2>7. CASE Stops \/ UNCHANGED vars
    <3>1. todo' = todo /\ searchPc' = searchPc /\ file' = file
      BY <2>7 DEF Stops, vars, searchVars
    <3> QED BY <1>2, <3>1
          DEF CallsIInv, WithoutAdding, AsksSearch, AsksPackaged, Adding, CallFor,
              Search!HasExtension
  <2> QED BY <1>2, <2>2, <2>3, <2>4, <2>5, <2>6, <2>7 DEF Next
<1> QED BY <1>1, <1>2, PTL DEF Spec

\* Whatever a client adds, and whichever panics it catches: when
\* PackagedEngine::add_file is called the path has an extension, so that it does
\* not panic with metadata already in a group (Archive::add_file).
THEOREM RefusedBeforeHarm == Spec => []RefusedInTime
<1>1. CallsIInv => RefusedInTime
  <2> SUFFICES ASSUME CallsIInv, todo # <<>>, Head(todo).fs = "packaged",
                      Head(todo).op = "add_file"
               PROVE  Search!HasExtension(Head(todo).arg[1])
    BY DEF RefusedInTime
  <2>1. CASE WithoutAdding(todo)
    <3>1. PICK S : todo \in Seq(S)
      BY <2>1 DEF WithoutAdding
    <3>2. Len(todo) \in Nat \ {0} /\ Head(todo) = todo[1]
      BY <3>1, HeadTailProperties, EmptySeq, LenProperties
    <3> QED BY <2>1, <3>2 DEF WithoutAdding
  <2>2. CASE AsksSearch
    BY <2>2 DEF AsksSearch, Adding, CallFor
  <2>3. CASE AsksPackaged
    BY <2>3 DEF AsksPackaged, CallFor
  <2> QED BY <2>1, <2>2, <2>3 DEF CallsIInv
<1> QED BY <1>1, CallsInductive, PTL
=============================================================================
