------------------------------ MODULE HashKeys ------------------------------
(***************************************************************************)
(* The keys of the archive's tables (HashKey in src/src/engines/mod.rs and  *)
(* RawHashKey in src/src/raw.rs): a hash of 40 bits, which is a word of 32  *)
(* and a length of 8, below an index of 24 bits, in one word of 64.  Shifts *)
(* and masks are products, quotients and remainders by the spans of the     *)
(* parts.                                                                  *)
(***************************************************************************)
EXTENDS Integers

CONSTANTS
  WordSpan, LenSpan,  \* of the two parts of a hash: 2^32 and 2^8
  IndexSpan,          \* of an index: 2^24
  Indices             \* the indices a client stores

ASSUME SpansOK ==
  /\ WordSpan \in Nat \ {0} /\ LenSpan \in Nat \ {0} /\ IndexSpan \in Nat \ {0}
  /\ LenSpan * IndexSpan <= WordSpan
  /\ Indices \subseteq Nat

HashSpan == WordSpan * LenSpan
Hash40 == 0..(HashSpan - 1)

VARIABLES
  key,    \* the word
  hash,   \* the hash it was given last
  index   \* the index it was given last

keyVars == <<key, hash, index>>

\* What the shift by 40 leaves of an index, and where it puts it.
Shifted(i) == HashSpan * (i % IndexSpan)

New(h, i) == h + Shifted(i)

Hash(k) == k % HashSpan
Index(k) == k \div HashSpan

WithHash(k, h) == k - Hash(k) + h

\* Mutant: the old index is not masked out first.
AddIndex(k, i) == (k + Shifted(i)) % (HashSpan * IndexSpan)

WithIndex(k, i) == Hash(k) + Shifted(i)

\* The word as two words of 32 bits: "hash" and "len_and_index".
LenAndIndex(k) == k \div WordSpan

RawIndex(k) == LenAndIndex(k) \div LenSpan

-----------------------------------------------------------------------------
KeyInit ==
  /\ hash \in Hash40 /\ index \in Indices
  /\ key = New(hash, index)

SetHash(h) == key' = WithHash(key, h) /\ hash' = h /\ UNCHANGED index

SetIndex(i) == key' = WithIndex(key, i) /\ index' = i /\ UNCHANGED hash

KeyNext == (\E h \in Hash40 : SetHash(h)) \/ (\E i \in Indices : SetIndex(i))

KeySpec == KeyInit /\ [][KeyNext]_keyVars

-----------------------------------------------------------------------------
(* Properties.                                                             *)

\* Type correctness: a key is a word of 64 bits.
KeyTypeOK ==
  /\ key \in 0..(HashSpan * IndexSpan - 1)
  /\ hash \in Hash40 /\ index \in Indices

\* However often either half is replaced, the other keeps what it was given; an
\* index comes back modulo 2^24, so a table longer than that is not noticed here
\* (HashKey::set_hash, HashKey::set_index).
HalvesAreApart == Hash(key) = hash /\ Index(key) = index % IndexSpan

\* The raw structures find the same index in a key (RawHashKey::index).
RawIndexAgrees == RawIndex(key) = Index(key)
=============================================================================
