----------------------------- MODULE BucketMap -----------------------------
(***************************************************************************)
(* The map from hashes to paths of the packaged filesystem                 *)
(* (src/src/engines/packaged/bucket_map.rs), and the two lookups written    *)
(* from such maps: that of all paths and that of each patch.               *)
(*                                                                         *)
(* A hash belongs to the bucket of its remainder; a bucket is sorted.  The  *)
(* lookup on disk is the keys of all buckets one after another and, for    *)
(* each bucket, where its keys are: a start and a length in the archive, a  *)
(* start and an end in a directory and in a patch.  The archive is read     *)
(* with as many buckets as it has, and filled from the table of paths.      *)
(***************************************************************************)
EXTENDS Tables, FiniteSets

CONSTANTS
  Hashes,        \* the hashes of the paths of a run
  Values,        \* the paths
  Absent,        \* what get answers if there is none
  BucketCounts   \* the numbers of buckets an archive may have

ASSUME HashesAreNumbers == Hashes \subseteq Nat
ASSUME SomeBuckets == BucketCounts \subseteq Nat \ {0}
ASSUME AbsentIsNoValue == Absent \notin Values

VARIABLES
  buckets,   \* the bucket of each remainder: hash -> value
  returned,  \* what the last operation gave back
  image,     \* the lookup last written, and the table it is of
  open       \* whether the map is in memory

bucketVars == <<buckets, returned, image, open>>

-----------------------------------------------------------------------------
\* The bucket as an element of the sequence, counted from 1.
BucketForHash(bs, hash) == (hash % Len(bs)) + 1

Lookup(map, hash) == IF hash \in DOMAIN map THEN map[hash] ELSE Absent

Get(bs, hash) == Lookup(bs[BucketForHash(bs, hash)], hash)

NewMap(n) == [b \in 1..n |-> EmptyMap]

Without(map, hash) == [x \in DOMAIN map \ {hash} |-> map[x]]

-----------------------------------------------------------------------------
(* The lookup as written: iter() goes bucket by bucket, each in order.     *)

\* Places before one bucket, and before one entry.
Before(bs, b) ==
  Cardinality({place \in (DOMAIN bs) \X Hashes :
                 place[2] \in DOMAIN bs[place[1]] /\ place[1] < b})

Place(bs, b, hash) ==
  Before(bs, b) + Cardinality({x \in DOMAIN bs[b] : x < hash})

KeysInOrder(bs) ==
  [i \in 1..Before(bs, Len(bs) + 1) |->
     CHOOSE hash \in Hashes :
       \E b \in DOMAIN bs : hash \in DOMAIN bs[b] /\ Place(bs, b, hash) = i - 1]

\* Mutant: start and length in both forms.
BoundsAsLengths(bs, form) ==
  [b \in 1..Len(bs) |-> <<Before(bs, b), Cardinality(DOMAIN bs[b])>>]

Bounds(bs, form) ==
  [b \in 1..Len(bs) |->
     LET start == Before(bs, b)
         length == Cardinality(DOMAIN bs[b])
     IN <<start, IF form = "memory" THEN length ELSE start + length>>]

\* The table of paths has an entry for each, in an order of its own.
Entries(bs) ==
  [hash \in {h \in Hashes : Get(bs, h) # Absent} |-> Get(bs, hash)]

Refilled(n, entries) ==
  [b \in 1..n |->
     [hash \in {h \in DOMAIN entries : (h % n) + 1 = b} |-> entries[hash]]]

-----------------------------------------------------------------------------
BucketInit ==
  /\ \E n \in BucketCounts : buckets = NewMap(n)
  /\ returned = Absent
  /\ image = [form |-> "none", keys |-> <<>>, bounds |-> <<>>,
              entries |-> EmptyMap]
  /\ open = TRUE

\* Mutant: new keys go to the smallest bucket.
InsertBalanced(hash, value) ==
  LET size(b) == Cardinality(DOMAIN buckets[b])
      b == IF \E x \in 1..Len(buckets) : hash \in DOMAIN buckets[x]
             THEN CHOOSE x \in 1..Len(buckets) : hash \in DOMAIN buckets[x]
             ELSE CHOOSE x \in 1..Len(buckets) :
                    \A y \in 1..Len(buckets) : size(x) <= size(y)
  IN /\ open
     /\ returned' = Lookup(buckets[b], hash)
     /\ buckets' = [buckets EXCEPT ![b] = Insert(@, hash, value)]
     /\ UNCHANGED <<image, open>>

InsertValue(hash, value) ==
  LET b == BucketForHash(buckets, hash)
  IN /\ open
     /\ returned' = Lookup(buckets[b], hash)
     /\ buckets' = [buckets EXCEPT ![b] = Insert(@, hash, value)]
     /\ UNCHANGED <<image, open>>

Remove(hash) ==
  LET b == BucketForHash(buckets, hash)
  IN /\ open
     /\ returned' = Lookup(buckets[b], hash)
     /\ buckets' = [buckets EXCEPT ![b] = Without(@, hash)]
     /\ UNCHANGED <<image, open>>

\* The writer consumes the map.
Save(form) ==
  /\ open
  /\ image' = [form |-> form, keys |-> KeysInOrder(buckets),
               bounds |-> Bounds(buckets, form), entries |-> Entries(buckets)]
  /\ open' = FALSE
  /\ UNCHANGED <<buckets, returned>>

\* The number of buckets is what the header, or the length of the file, says.
Load ==
  /\ ~open
  /\ buckets' = Refilled(Len(image.bounds), image.entries)
  /\ open' = TRUE
  /\ UNCHANGED <<returned, image>>

BucketNext ==
  \/ \E hash \in Hashes : Remove(hash) \/ \E value \in Values : InsertValue(hash, value)
  \/ \E form \in {"memory", "directory"} : Save(form)
  \/ Load

BucketSpec == BucketInit /\ [][BucketNext]_bucketVars

-----------------------------------------------------------------------------
(* Properties. *)

Bucket == UNION {[keys -> Values] : keys \in SUBSET Hashes}

\* Type correctness of the buckets, and of the table on disk.
BucketTypeOK ==
  /\ buckets \in Seq(Bucket) /\ Len(buckets) > 0
  /\ returned \in Values \cup {Absent}
  /\ image.entries \in Bucket /\ Len(image.bounds) \in Nat
  /\ ~open => Len(image.bounds) > 0
  /\ open \in BOOLEAN

\* BucketMap is a map from all hashes: the buckets do not show.  A save and a
\* read of the archive keep every entry.
AsMap ==
  [hash \in Hashes |-> IF open THEN Get(buckets, hash)
                       ELSE Lookup(image.entries, hash)]

Abstract ==
  INSTANCE KeyedMap WITH Keys <- Hashes, map <- AsMap

ImplementsMap == Abstract!Spec

\* No entry is where get does not look for it.
InOwnBucket ==
  \A b \in 1..Len(buckets) : \A hash \in DOMAIN buckets[b] :
    BucketForHash(buckets, hash) = b

\* A reader of the lookup that takes a hash's bucket, the bounds written for
\* it, and searches that range of keys by halves: the range is sorted, and has
\* the hash if and only if the map had it.
KeysFindEntries ==
  image.form # "none" =>
    LET bucket(hash) == BucketForHash(image.bounds, hash)
        first(b) == image.bounds[b][1] + 1
        last(b) == IF image.form = "memory"
                     THEN image.bounds[b][1] + image.bounds[b][2]
                     ELSE image.bounds[b][2]
    IN /\ \A b \in 1..Len(image.bounds) : \A x, y \in first(b)..last(b) :
            x < y => image.keys[x] < image.keys[y]
       /\ \A hash \in Hashes :
            (\E i \in first(bucket(hash))..last(bucket(hash)) : image.keys[i] = hash)
              <=> hash \in DOMAIN image.entries
=============================================================================
