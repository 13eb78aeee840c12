--------------------------- MODULE TablesProofs ---------------------------
(* What the operators of Tables promise, for all tables and all cells. *)
EXTENDS Tables, SequenceTheorems, FiniteSetTheorems, TLAPS

\* The cells of a table are what its entries hold.
LEMMA CellsOfSeq ==
  ASSUME NEW S, NEW s \in Seq(S)
  PROVE  /\ Cells(s) \subseteq S
         /\ s \in Seq(Cells(s))
         /\ \A c \in Cells(s) : \E i \in 1..Len(s) : c = s[i]
         /\ \A i \in 1..Len(s) : s[i] \in Cells(s)
         /\ s # <<>> => Len(s) \in 1..Len(s)
<1>1. /\ Len(s) \in Nat /\ s \in [1..Len(s) -> S]
  BY LenProperties
<1>2. s \in [1..Len(s) -> Cells(s)]
  BY <1>1 DEF Cells
<1>3. s \in Seq(Cells(s))
  BY <1>1, <1>2, SeqDef
<1>4. s # <<>> => Len(s) # 0
  BY EmptySeq, Zenon
<1> QED
  BY <1>1, <1>3, <1>4, EmptySeq DEF Cells

\* A vector of one cell.
LEMMA OneElement ==
  ASSUME NEW S, NEW c \in S
  PROVE  <<c>> \in Seq(S) /\ Len(<<c>>) = 1 /\ <<c>>[1] = c
OBVIOUS

\* Vec::push keeps the entries that are there and puts the new one last.
LEMMA AppendElement ==
  ASSUME NEW S, NEW s \in Seq(S), NEW c \in S
  PROVE  /\ Append(s, c) \in Seq(S)
         /\ Len(Append(s, c)) = Len(s) + 1
         /\ Append(s, c)[Len(s) + 1] = c
         /\ \A i \in 1..Len(s) : Append(s, c)[i] = s[i]
         /\ Append(s, c) # <<>>
BY AppendProperties, EmptySeq, LenProperties

\* Each key of a lookup made of a table leads to an entry with that key.
LEMMA LookupLeads ==
  ASSUME NEW table, NEW S, table \in Seq(S), NEW first, NEW skipped
  PROVE  /\ \A p \in DOMAIN LookupOf(table, first, skipped) :
              /\ p \notin skipped
              /\ \E i \in 1..Len(table) : /\ p = table[i].fullPath
                                          /\ LookupOf(table, first, skipped)[p] = first + i - 1
         /\ \A i \in 1..Len(table) :
              table[i].fullPath \notin skipped =>
                table[i].fullPath \in DOMAIN LookupOf(table, first, skipped)
<1> DEFINE keys == {table[i].fullPath : i \in 1..Len(table)} \ skipped
           last(p) == CHOOSE i \in 1..Len(table) :
                        /\ table[i].fullPath = p
                        /\ \A h \in (i + 1)..Len(table) : table[h].fullPath # p
<1>1. Len(table) \in Nat /\ \A i \in 1..Len(table) : table[i] \in S
  BY LenProperties, ElementOfSeq
<1>3. ASSUME NEW p \in keys PROVE last(p) \in 1..Len(table) /\ table[last(p)].fullPath = p
  <2> DEFINE T == {n \in Nat : n < Len(table) /\ table[Len(table) - n].fullPath = p}
             R == OpToRel(<, Nat)
  <2>1. PICK i \in 1..Len(table) : table[i].fullPath = p
    OBVIOUS
  <2>2. Len(table) - i \in T
    <3>1. Len(table) - i \in Nat /\ Len(table) - i < Len(table)
      BY <1>1, <2>1
    <3>2. Len(table) - (Len(table) - i) = i
      BY <1>1, <2>1
    <3> QED BY <2>1, <3>1, <3>2
  <2>3. T \subseteq Nat /\ T # {}
    BY <2>2
  <2>4. PICK n \in T : \A m \in T : ~(<<m, n>> \in R)
    <3> HIDE DEF T, R
    <3>1. IsWellFoundedOn(R, Nat)
      BY NatLessThanWellFounded DEF R
    <3> QED BY <2>3, <3>1, WFMin
  <2>5. \A m \in T : ~(m < n)
    BY <2>3, <2>4 DEF OpToRel
  <2> HIDE DEF R
  <2>5a. n \in Nat /\ n < Len(table) /\ table[Len(table) - n].fullPath = p
    BY <2>4
  <2> DEFINE l == Len(table) - n
  <2>6. l \in 1..Len(table) /\ table[l].fullPath = p
    BY <1>1, <2>5a
  <2>7. ASSUME NEW h \in (l + 1)..Len(table) PROVE table[h].fullPath # p
    <3>1. SUFFICES ASSUME table[h].fullPath = p PROVE FALSE
      OBVIOUS
    <3>2. Len(table) - h \in Nat /\ Len(table) - h < n /\ Len(table) - (Len(table) - h) = h
      BY <1>1, <2>6, <2>5a
    <3>3. Len(table) - h \in T
      BY <1>1, <3>1, <3>2, <2>5a
    <3> QED BY <2>5, <3>2, <3>3
  <2>8. \E x \in 1..Len(table) :
          /\ table[x].fullPath = p
          /\ \A h \in (x + 1)..Len(table) : table[h].fullPath # p
    BY <2>6, <2>7
  <2> QED BY <2>8
<1>4. LookupOf(table, first, skipped) = [p \in keys |-> first + last(p) - 1]
  BY DEF LookupOf
<1>5. \A i \in 1..Len(table) : table[i].fullPath \notin skipped => table[i].fullPath \in keys
  OBVIOUS
<1>6. \A p \in keys : p \notin skipped
  OBVIOUS
<1> HIDE DEF keys, last
<1> QED
  BY <1>3, <1>4, <1>5, <1>6

\* A lookup made of a table leads to the cells of its entries.
LEMMA LookupIsMap ==
  ASSUME NEW table, NEW S, table \in Seq(S),
         NEW K, \A r \in S : r.fullPath \in K,
         NEW first \in Nat, NEW skipped
  PROVE  IsMap(LookupOf(table, first, skipped), K,
               first..(first + Len(table) - 1))
<1> DEFINE lookup == LookupOf(table, first, skipped)
<1>1. Len(table) \in Nat /\ \A i \in 1..Len(table) : table[i] \in S
  BY LenProperties, ElementOfSeq
<1>2. \A p \in DOMAIN lookup :
        \E i \in 1..Len(table) : p = table[i].fullPath /\ lookup[p] = first + i - 1
  BY LookupLeads
<1>3. lookup = [p \in DOMAIN lookup |-> lookup[p]]
  BY DEF LookupOf
<1> HIDE DEF lookup
<1>4. \A p \in DOMAIN lookup : p \in K /\ lookup[p] \in first..(first + Len(table) - 1)
  BY <1>1, <1>2
<1> QED
  BY <1>3, <1>4 DEF IsMap, lookup

\* A lookup collected from entries of different paths finds each of them.
LEMMA LookupIsInverse ==
  ASSUME NEW table, Len(table) \in Nat, NEW first, NEW skipped,
         \A i, h \in 1..Len(table) :
           table[i].fullPath = table[h].fullPath /\ table[i].fullPath \notin skipped
             => i = h
  PROVE  /\ \A p \in DOMAIN LookupOf(table, first, skipped) :
              p \notin skipped /\ \E i \in 1..Len(table) : p = table[i].fullPath
         /\ \A i \in 1..Len(table) :
              table[i].fullPath \notin skipped =>
                /\ table[i].fullPath \in DOMAIN LookupOf(table, first, skipped)
                /\ LookupOf(table, first, skipped)[table[i].fullPath] = first + i - 1
<1> DEFINE keys == {table[i].fullPath : i \in 1..Len(table)} \ skipped
           last(p) == CHOOSE i \in 1..Len(table) :
                        /\ table[i].fullPath = p
                        /\ \A h \in (i + 1)..Len(table) : table[h].fullPath # p
<1>1. LookupOf(table, first, skipped) = [p \in keys |-> first + last(p) - 1]
  BY DEF LookupOf
<1>2. ASSUME NEW i \in 1..Len(table), table[i].fullPath \notin skipped
      PROVE  last(table[i].fullPath) = i
  <2>1. ASSUME NEW h \in (i + 1)..Len(table) PROVE table[h].fullPath # table[i].fullPath
    <3>1. h \in 1..Len(table) /\ h # i
      OBVIOUS
    <3> QED BY <1>2, <3>1
  <2>2. \E x \in 1..Len(table) :
          /\ table[x].fullPath = table[i].fullPath
          /\ \A h \in (x + 1)..Len(table) : table[h].fullPath # table[i].fullPath
    BY <2>1
  <2>3. /\ last(table[i].fullPath) \in 1..Len(table)
        /\ table[last(table[i].fullPath)].fullPath = table[i].fullPath
    BY <2>2
  <2> HIDE DEF last
  <2> QED BY <1>2, <2>3
<1>3. \A i \in 1..Len(table) : table[i].fullPath \notin skipped => table[i].fullPath \in keys
  OBVIOUS
<1> HIDE DEF keys, last
<1>4. DOMAIN LookupOf(table, first, skipped) = keys
  BY <1>1
<1>5. \A i \in 1..Len(table) :
        table[i].fullPath \notin skipped =>
          LookupOf(table, first, skipped)[table[i].fullPath] = first + i - 1
  BY <1>1, <1>2, <1>3
<1> QED
  BY <1>4, <1>5 DEF keys

\* A table that names the members of a set, each once, has as many entries.
LEMMA Counted ==
  ASSUME NEW T, NEW n \in Nat, NEW s,
         \A i \in 1..n : s[i] \in T,
         \A t \in T : \E i \in 1..n : t = s[i],
         \A i, h \in 1..n : s[i] = s[h] => i = h
  PROVE  Cardinality(T) = n
<1> DEFINE F == [i \in 1..n |-> s[i]]
<1>1. F \in Injection(1..n, T)
  BY DEF Injection, IsInjective
<1>2. F \in Surjection(1..n, T)
  BY DEF Surjection
<1>3. ExistsBijection(1..n, T)
  BY <1>1, <1>2 DEF ExistsBijection, Bijection
<1> QED
  BY <1>3, FS_CountingElements

\* A table without repetitions is no longer than one that has all its cells.
LEMMA NoLonger ==
  ASSUME NEW s, NEW t, Len(s) \in Nat, Len(t) \in Nat,
         \A i, h \in 1..Len(s) : s[i] = s[h] => i = h,
         Cells(s) \subseteq Cells(t)
  PROVE  Len(s) <= Len(t)
<1>1. /\ IsFiniteSet(1..Len(t)) /\ Cardinality(1..Len(t)) = Len(t)
      /\ IsFiniteSet(1..Len(s)) /\ Cardinality(1..Len(s)) = Len(s)
  <2>1. \A n \in Nat : IsFiniteSet(1..n) /\ Cardinality(1..n) = n
    <3> SUFFICES ASSUME NEW n \in Nat PROVE IsFiniteSet(1..n) /\ Cardinality(1..n) = n
      OBVIOUS
    <3>1. IsFiniteSet(1..n) /\ Cardinality(1..n) = IF 1 > n THEN 0 ELSE n - 1 + 1
      <4>1. 1 \in Int /\ n \in Int
        OBVIOUS
      <4> QED BY <4>1, FS_Interval
    <3> QED BY <3>1
  <2> QED BY <2>1
<1>2. IsFiniteSet(Cells(t)) /\ Cardinality(Cells(t)) <= Len(t)
  <2> DEFINE F == [i \in 1..Len(t) |-> t[i]]
  <2>1. F \in Surjection(1..Len(t), Cells(t))
    BY DEF Surjection, Cells
  <2> QED BY <1>1, <2>1, FS_Surjection
<1>3. Len(s) <= Cardinality(Cells(t))
  <2> DEFINE F == [i \in 1..Len(s) |-> s[i]]
  <2>1. \A i \in 1..Len(s) : s[i] \in Cells(t)
    BY DEF Cells
  <2>2. F \in Injection(1..Len(s), Cells(t))
    BY <2>1 DEF Injection, IsInjective
  <2> QED BY <1>1, <1>2, <2>2, FS_Injection
<1>4. Cardinality(Cells(t)) \in Nat
  BY <1>2, FS_CardinalityType
<1> QED
  BY <1>2, <1>3, <1>4

\* TableMaker::push: what get_index answers stays right.
LEMMA PushKeepsIndex ==
  ASSUME NEW G, NEW maker, IsMaker(maker, G), MakerOK(maker), NEW cell \in G,
         ~HasCell(maker, cell)
  PROVE  /\ IsMaker(PushCell(maker, cell), G)
         /\ MakerOK(PushCell(maker, cell))
         /\ Cells(PushCell(maker, cell).table) = Cells(maker.table) \cup {cell}
<1> DEFINE t == maker.table
           u == Append(t, cell)
           new == PushCell(maker, cell)
<1>1. t \in Seq(G) /\ IsMap(maker.index, G, Nat) /\ Len(t) \in Nat
  BY LenProperties DEF IsMaker
<1>2. /\ u \in Seq(G) /\ Len(u) = Len(t) + 1
      /\ \A i \in 1..Len(t) : u[i] = t[i]
      /\ u[Len(u)] = cell
  BY <1>1, AppendProperties
<1>3. new.table = u /\ new.index = Insert(maker.index, cell, Len(t))
  BY DEF PushCell
<1>3a. /\ IsMap(new.index, G, Nat)
       /\ DOMAIN new.index = DOMAIN maker.index \cup {cell}
       /\ new.index[cell] = Len(t)
       /\ \A x \in DOMAIN maker.index : x # cell => new.index[x] = maker.index[x]
  <2> DEFINE ins == Insert(maker.index, cell, Len(t))
  <2>1. /\ IsMap(ins, G, Nat)
        /\ DOMAIN ins = DOMAIN maker.index \cup {cell}
        /\ ins[cell] = Len(t)
        /\ \A x \in DOMAIN maker.index : x # cell => ins[x] = maker.index[x]
    <3> HIDE DEF t
    <3> QED BY <1>1 DEF IsMap, Insert
  <2> QED BY <2>1, <1>3
<1>4. IsMaker(new, G)
  BY <1>1, <1>2, <1>3, <1>3a DEF IsMaker, PushCell
<1>5. Cells(u) = Cells(t) \cup {cell}
  <2>1. ASSUME NEW c \in Cells(u) PROVE c \in Cells(t) \cup {cell}
    <3>1. PICK i \in 1..Len(u) : c = u[i]
      BY <2>1 DEF Cells
    <3>2. i \in 1..Len(t) \/ i = Len(u)
      BY <1>1, <1>2, <3>1
    <3> QED BY <1>1, <1>2, <3>1, <3>2 DEF Cells
  <2>2. ASSUME NEW c \in Cells(t) PROVE c \in Cells(u)
    <3>1. PICK i \in 1..Len(t) : c = t[i]
      BY <2>2 DEF Cells
    <3>2. i \in 1..Len(u) /\ u[i] = c
      BY <1>1, <1>2, <3>1
    <3> QED BY <3>2 DEF Cells
  <2>3. cell \in Cells(u)
    BY <1>1, <1>2 DEF Cells
  <2> QED BY <2>1, <2>2, <2>3
<1>6. DOMAIN new.index = Cells(u)
  BY <1>3a, <1>5 DEF MakerOK
<1>7. ASSUME NEW i \in 1..Len(u) PROVE new.index[u[i]] = i - 1
  <2>1. CASE i \in 1..Len(t)
    <3>1. t[i] \in Cells(t) /\ t[i] # cell
      BY <2>1 DEF Cells, MakerOK, HasCell
    <3>2. new.index[t[i]] = maker.index[t[i]]
      BY <1>3a, <3>1 DEF MakerOK
    <3> QED BY <1>2, <2>1, <3>2 DEF MakerOK
  <2>2. CASE i = Len(u)
    BY <1>1, <1>2, <1>3a, <2>2
  <2> QED BY <1>1, <1>2, <2>1, <2>2
<1> QED
  BY <1>3, <1>4, <1>5, <1>6, <1>7 DEF MakerOK

\* TableMaker::push keeps a maker a maker, of whatever it was given.
LEMMA PushIsMaker ==
  ASSUME NEW G, NEW maker, IsMaker(maker, G), NEW cell \in G
  PROVE  IsMaker(PushCell(maker, cell), G)
<1> DEFINE t == maker.table
<1>1. t \in Seq(G) /\ IsMap(maker.index, G, Nat) /\ Len(t) \in Nat
  BY LenProperties DEF IsMaker
<1>2. Append(t, cell) \in Seq(G)
  BY <1>1, AppendElement
<1>3. IsMap(Insert(maker.index, cell, Len(t)), G, Nat)
  <2> HIDE DEF t
  <2> QED BY <1>1 DEF IsMap, Insert
<1> QED
  BY <1>2, <1>3 DEF IsMaker, PushCell

\* TableMaker::new: an empty table, and no index to be wrong.
LEMMA NewMakerOK ==
  ASSUME NEW G
  PROVE  IsMaker(NewMaker, G) /\ MakerOK(NewMaker)
<1>1. NewMaker.table = <<>> /\ NewMaker.index = EmptyMap /\ Len(<<>>) = 0
  BY EmptySeq DEF NewMaker
<1>2. DOMAIN EmptyMap = {} /\ EmptyMap \in [{} -> Nat]
  BY DEF EmptyMap
<1> QED
  BY <1>1, <1>2, EmptySeq DEF NewMaker, IsMaker, MakerOK, IsMap, Cells

\* The table of a maker has no cell twice.
LEMMA MakerInjective ==
  ASSUME NEW maker, MakerOK(maker),
         NEW m \in 1..Len(maker.table), NEW n \in 1..Len(maker.table),
         maker.table[m] = maker.table[n]
  PROVE  m = n
BY DEF MakerOK

\* A slice of a table has cells of the table.
LEMMA SubSeqIsSeq ==
  ASSUME NEW S, NEW s \in Seq(S), NEW m \in Nat, NEW n \in Nat, m >= 1, n <= Len(s)
  PROVE  /\ SubSeq(s, m, n) \in Seq(S)
         /\ Cells(SubSeq(s, m, n)) \subseteq Cells(s)
<1>1. Len(s) \in Nat /\ \A i \in 1..Len(s) : s[i] \in S
  BY LenProperties, ElementOfSeq
<1>2. m \in Int /\ n \in Int /\ \A i \in m..n : i \in 1..Len(s)
  BY <1>1
<1>3. /\ SubSeq(s, m, n) \in Seq(S)
      /\ Len(SubSeq(s, m, n)) = IF m <= n THEN n - m + 1 ELSE 0
      /\ \A i \in 1..(n - m + 1) : SubSeq(s, m, n)[i] = s[m + i - 1]
  BY <1>1, <1>2, SubSeqProperties
<1>4. ASSUME NEW i \in 1..Len(SubSeq(s, m, n))
      PROVE  SubSeq(s, m, n)[i] \in Cells(s)
  <2>1. i \in 1..(n - m + 1) /\ m + i - 1 \in 1..Len(s)
    BY <1>1, <1>3, <1>4
  <2> QED BY <1>3, <2>1 DEF Cells
<1> QED
  BY <1>3, <1>4 DEF Cells

\* SliceReference::resolve.
LEMMA ResolveSpanType ==
  ASSUME NEW G, NEW table \in Seq(G), NEW set \in SpanSetOf(G), SpanFits(set, table)
  PROVE  ResolveSpan(set, table) \in SpanSetOf(G)
<1>1. CASE IsSet(set)
  BY <1>1 DEF ResolveSpan
<1>2. CASE ~IsSet(set)
  <2>1. set.start \in Nat /\ set.end \in Nat /\ set.end <= Len(table)
    BY <1>2 DEF SpanSetOf, IsSet, SpanFits
  <2>2. set.start + 1 \in Nat /\ set.start + 1 >= 1
    BY <2>1
  <2>3. SubSeq(table, set.start + 1, set.end) \in Seq(G)
    BY <2>1, <2>2, SubSeqIsSeq
  <2> QED BY <1>2, <2>3 DEF ResolveSpan, Set, SpanSetOf
<1> QED
  BY <1>1, <1>2

\* A table of a heap is a table of a larger one.
LEMMA LargerHeap ==
  ASSUME NEW S, NEW T, S \subseteq T
  PROVE  /\ \A s \in Seq(S) : s \in Seq(T)
         /\ \A m : IsMaker(m, S) => IsMaker(m, T)
<1>1. \A s \in Seq(S) : s \in Seq(T)
  BY SeqMonotonic
<1>2. \A m, V : IsMap(m, S, V) => IsMap(m, T, V)
  BY DEF IsMap
<1> QED
  BY <1>1, <1>2 DEF IsMaker
=============================================================================
