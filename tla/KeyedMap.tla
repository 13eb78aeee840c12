------------------------------ MODULE KeyedMap ------------------------------
(***************************************************************************)
(* What a map promises whatever it is made of: a key has the value inserted *)
(* last, and an operation answers with the value that was there.           *)
(***************************************************************************)
CONSTANTS Keys, Values, Absent

VARIABLES map,      \* each key's value, or Absent
          returned  \* what the last operation gave back

Init == map = [key \in Keys |-> Absent] /\ returned = Absent

Put(key, value) ==
  /\ map' = [map EXCEPT ![key] = value]
  /\ returned' = map[key]

Next == \E key \in Keys, value \in Values \cup {Absent} : Put(key, value)

Spec == Init /\ [][Next]_<<map, returned>>
=============================================================================
