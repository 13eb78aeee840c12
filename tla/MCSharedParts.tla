--------------------------- MODULE MCSharedParts ---------------------------
(***************************************************************************)
(* Instances for TLC of the parts below the filesystems: the counter of     *)
(* GUIDs, the bucket map, the keys of tables, the global decompressor and   *)
(* the locales.  They have no state in common, so one of them runs and the  *)
(* others stand still; the property of each is about its own state.        *)
(***************************************************************************)
EXTENDS CellGuids, BucketMap, HashKeys, GlobalDecompressor, Locales

VARIABLE part  \* the one that runs

partVars == <<part, guidVars, bucketVars, keyVars, lockVars, localeVars>>

Init ==
  /\ GuidInit /\ BucketInit /\ KeyInit /\ LockInit /\ LocaleInit
  /\ \/ part = "buckets" /\ hash = 0 /\ index = 0
     \/ part = "keys" /\ Len(buckets) = 1
     \/ part \in {"guids", "decompressor", "locales"}
          /\ Len(buckets) = 1 /\ hash = 0 /\ index = 0

Next ==
  /\ \/ /\ part = "guids" /\ GuidNext
        /\ UNCHANGED <<bucketVars, keyVars, lockVars, localeVars>>
     \/ /\ part = "buckets" /\ BucketNext
        /\ UNCHANGED <<guidVars, keyVars, lockVars, localeVars>>
     \/ /\ part = "keys" /\ KeyNext
        /\ UNCHANGED <<guidVars, bucketVars, lockVars, localeVars>>
     \/ /\ part = "decompressor" /\ LockNext
        /\ UNCHANGED <<guidVars, bucketVars, keyVars, localeVars>>
     \/ /\ part = "locales" /\ LocaleNext
        /\ UNCHANGED <<guidVars, bucketVars, keyVars, lockVars>>
  /\ UNCHANGED part

Spec == Init /\ [][Next]_partVars /\ LockFairness
=============================================================================
