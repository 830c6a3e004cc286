---------------------------- MODULE TallyProofs ----------------------------
(***************************************************************************)
(* What implementing Tally is worth: the counters are the numbers of rows, *)
(* for any items and owners.  CounterMatches alone is not inductive, the   *)
(* number of rows says nothing unless there are finitely many of them.     *)
(***************************************************************************)
EXTENDS Tally, FiniteSetTheorems, TLAPS

TallyTypeOK ==
  /\ counted \subseteq Items \X Owners
  /\ IsFiniteSet(counted)
  /\ counter \in [Owners -> Int]

TallyInv == TallyTypeOK /\ CounterMatches

\* The rows of an owner are finitely many, if all rows are.
LEMMA RowsFinite ==
  ASSUME TallyTypeOK, NEW o
  PROVE  IsFiniteSet(RowsCounted(o))
<1>1. RowsCounted(o) \in SUBSET counted
  BY DEF RowsCounted
<1> QED
  BY <1>1, FS_Subset DEF TallyTypeOK

\* A row that comes is one more of its owner's and of nobody else's.
LEMMA PutKeeps ==
  ASSUME TallyInv, NEW row \in Items \X Owners, Put(row)
  PROVE  TallyInv'
<1>1. TallyTypeOK'
  <2>1. IsFiniteSet(counted')
    BY FS_AddElement DEF TallyInv, TallyTypeOK, Put
  <2> QED
    BY <2>1 DEF TallyInv, TallyTypeOK, Put
<1>2. ASSUME NEW o \in Owners
      PROVE  counter'[o] = Cardinality(RowsCounted(o)')
  <2>1. IsFiniteSet(RowsCounted(o))
    BY RowsFinite DEF TallyInv
  <2>2. counter[o] = Cardinality(RowsCounted(o)) /\ counter[o] \in Int
    BY DEF TallyInv, TallyTypeOK, CounterMatches, RowsOf
  <2>3. CASE row[2] = o
    <3>1. RowsCounted(o)' = RowsCounted(o) \cup {row}
      BY <2>3 DEF RowsCounted, Put
    <3>2. row \notin RowsCounted(o)
      BY DEF RowsCounted, Put
    <3>3. Cardinality(RowsCounted(o)') = Cardinality(RowsCounted(o)) + 1
      BY <2>1, <3>1, <3>2, FS_AddElement
    <3> QED
      BY <2>2, <2>3, <3>3 DEF TallyInv, TallyTypeOK, Put
  <2>4. CASE row[2] # o
    <3>1. RowsCounted(o)' = RowsCounted(o)
      BY <2>4 DEF RowsCounted, Put
    <3> QED
      BY <2>2, <2>4, <3>1 DEF TallyInv, TallyTypeOK, Put
  <2> QED
    BY <2>3, <2>4
<1> QED
  BY <1>1, <1>2 DEF TallyInv, CounterMatches, RowsOf

\* A row that goes was one of its owner's and of nobody else's.
LEMMA TakeKeeps ==
  ASSUME TallyInv, NEW row \in Items \X Owners, Take(row)
  PROVE  TallyInv'
<1>1. TallyTypeOK'
  <2>1. IsFiniteSet(counted')
    BY FS_RemoveElement DEF TallyInv, TallyTypeOK, Take
  <2> QED
    BY <2>1 DEF TallyInv, TallyTypeOK, Take
<1>2. ASSUME NEW o \in Owners
      PROVE  counter'[o] = Cardinality(RowsCounted(o)')
  <2>1. IsFiniteSet(RowsCounted(o))
    BY RowsFinite DEF TallyInv
  <2>2. counter[o] = Cardinality(RowsCounted(o)) /\ counter[o] \in Int
    BY DEF TallyInv, TallyTypeOK, CounterMatches, RowsOf
  <2>3. CASE row[2] = o
    <3>1. RowsCounted(o)' = RowsCounted(o) \ {row}
      BY <2>3 DEF RowsCounted, Take
    <3>2. row \in RowsCounted(o)
      BY <2>3 DEF RowsCounted, Take
    <3>3. Cardinality(RowsCounted(o)') = Cardinality(RowsCounted(o)) - 1
      BY <2>1, <3>1, <3>2, FS_RemoveElement
    <3> QED
      BY <2>2, <2>3, <3>3 DEF TallyInv, TallyTypeOK, Take
  <2>4. CASE row[2] # o
    <3>1. RowsCounted(o)' = RowsCounted(o)
      BY <2>4 DEF RowsCounted, Take
    <3> QED
      BY <2>2, <2>4, <3>1 DEF TallyInv, TallyTypeOK, Take
  <2> QED
    BY <2>3, <2>4
<1> QED
  BY <1>1, <1>2 DEF TallyInv, CounterMatches, RowsOf

\* In every behaviour in which rows come and go one at a time, each with its step of the
\* counter, as react, addComment, deleteComment and restoreComment make them, every
\* counter is the number of its rows.
THEOREM TallyCounts == TallySpec => []CounterMatches
<1>1. TallyInit => TallyInv
  <2> SUFFICES ASSUME TallyInit PROVE TallyInv
    OBVIOUS
  <2>1. \A o \in Owners : RowsCounted(o) = {}
    BY DEF TallyInit, RowsCounted
  <2>2. CounterMatches
    BY <2>1, FS_EmptySet DEF TallyInit, CounterMatches, RowsOf
  <2> QED
    BY <2>2, FS_EmptySet DEF TallyInit, TallyInv, TallyTypeOK
<1>2. TallyInv /\ [TallyNext]_tallyVars => TallyInv'
  <2> SUFFICES ASSUME TallyInv, [TallyNext]_tallyVars PROVE TallyInv'
    OBVIOUS
  <2>1. CASE TallyNext
    BY <2>1, PutKeeps, TakeKeeps DEF TallyNext
  <2>2. CASE UNCHANGED tallyVars
    BY <2>2 DEF tallyVars, TallyInv, TallyTypeOK, CounterMatches, RowsOf, RowsCounted
  <2> QED
    BY <2>1, <2>2
<1>3. TallyInv => CounterMatches
  BY DEF TallyInv
<1> QED
  BY <1>1, <1>2, <1>3, PTL DEF TallySpec
=============================================================================
