------------------------------ MODULE Document ------------------------------
(***************************************************************************)
(* What any filesystem of the archive promises a program that opens, edits *)
(* and saves it, whatever its tables look like: reading shows what is      *)
(* stored, saving stores what is shown, and nothing but an edit changes    *)
(* what is shown - resolving and reorganizing do not.                      *)
(***************************************************************************)
CONSTANT Originals  \* what an archive may hold to begin with

VARIABLES stored,   \* what the archive holds
          open,     \* whether an engine is open
          working,  \* whether the engine is not yet resolved, or is in a call
          shown     \* what the engine shows; what the archive holds if closed

vars == <<stored, open, working, shown>>

Init ==
  /\ stored \in Originals
  /\ open = FALSE
  /\ working = FALSE
  /\ shown = stored

\* What holds no records is resolved as it is read.
Open ==
  /\ ~open
  /\ open' = TRUE
  /\ working' \in BOOLEAN
  /\ UNCHANGED <<stored, shown>>

\* The engine gets to work, or is done with it.
Work ==
  /\ open
  /\ working' = ~working
  /\ UNCHANGED <<stored, open, shown>>

Edit ==
  /\ open
  /\ ~working
  /\ shown' # shown
  /\ UNCHANGED <<stored, open, working>>

Save ==
  /\ open
  /\ working
  /\ stored' = shown
  /\ open' = FALSE
  /\ working' = FALSE
  /\ UNCHANGED shown

Next == Open \/ Work \/ Edit \/ Save

Spec == Init /\ [][Next]_vars
=============================================================================
