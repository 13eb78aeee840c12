------------------------------ MODULE Catalogue ------------------------------
(***************************************************************************)
(* What an archive promises of its files, whatever its three filesystems   *)
(* do: a file that was added is there for good once the archive is saved,  *)
(* and a session that breaks off leaves what was saved before.             *)
(***************************************************************************)
CONSTANT Originals  \* the sets of files an archive may have to begin with

VARIABLES saved,    \* the files of the archive
          open,     \* whether a session is under way
          files     \* the files of the session

vars == <<saved, open, files>>

Init == saved \in Originals /\ open = FALSE /\ files = {}

Open == ~open /\ open' = TRUE /\ files' = saved /\ UNCHANGED saved

Add(file) ==
  /\ open
  /\ file \notin files
  /\ files' = files \cup {file}
  /\ UNCHANGED <<saved, open>>

Save == open /\ saved' = files /\ open' = FALSE /\ files' = {}

BreakOff == open /\ open' = FALSE /\ files' = {} /\ UNCHANGED saved

Next ==
  \/ Open \/ Save \/ BreakOff
  \/ \E file \in files' : Add(file)

Spec == Init /\ [][Next]_vars
=============================================================================
