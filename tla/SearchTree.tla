----------------------------- MODULE SearchTree -----------------------------
(***************************************************************************)
(* What the search filesystem promises, without cells, links or indices: a *)
(* listing gives each folder's children in order; the archive stores one,  *)
(* an open engine edits another, and saving stores exactly what was edited. *)
(***************************************************************************)
EXTENDS Sequences, Integers

CONSTANTS RootFolder,  \* the folder that has no parent
          Originals    \* the listings an archive may start from

VARIABLES stored,  \* the listing in the archive
          open,    \* whether there is an engine
          live     \* the listing the engine holds

NoListing == [x \in {} |-> <<>>]

Init == stored \in Originals /\ open = FALSE /\ live = NoListing

\* Opening and resolving an archive loses nothing and reorders nothing.
Open ==
  /\ ~open
  /\ open' = TRUE
  /\ live' = stored
  /\ UNCHANGED stored

FolderOf(child) ==
  IF Len(child) = 1 THEN RootFolder ELSE SubSeq(child, 1, Len(child) - 1)

AddFolder(child) ==
  /\ open
  /\ FolderOf(child) \in DOMAIN live
  /\ child \notin DOMAIN live
  /\ live' = [p \in DOMAIN live \cup {child} |->
                IF p = child THEN <<>>
                ELSE IF p = FolderOf(child) THEN Append(live[p], child)
                ELSE live[p]]
  /\ UNCHANGED <<stored, open>>

AddFile(child) ==
  /\ open
  /\ FolderOf(child) \in DOMAIN live
  /\ \A i \in 1..Len(live[FolderOf(child)]) : live[FolderOf(child)][i] # child
  /\ live' = [live EXCEPT ![FolderOf(child)] = Append(@, child)]
  /\ UNCHANGED <<stored, open>>

Save ==
  /\ open
  /\ stored' = live
  /\ open' = FALSE
  /\ live' = NoListing

\* A panic loses the engine, never the archive.
Lose ==
  /\ open
  /\ open' = FALSE
  /\ live' = NoListing
  /\ UNCHANGED stored

vars == <<stored, open, live>>

Next ==
  \/ Open \/ Save \/ Lose
  \/ \E p \in DOMAIN live' \ DOMAIN live : AddFolder(p)
  \/ \E p \in DOMAIN live' : \E i \in 1..Len(live'[p]) : AddFile(live'[p][i])

Spec == Init /\ [][Next]_vars
=============================================================================
