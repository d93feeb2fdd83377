------------------------------ MODULE Folding ------------------------------
(***************************************************************************)
(* What a fold of the community modules computes.  FoldLeft and FoldSet    *)
(* walk a list or a set (bridge_track.c walks the ports of a bridge, and   *)
(* the bridges) by a recursive function over the subsets still to be       *)
(* walked; the lemmas here say that there is such a function when the set  *)
(* is finite, and give its trace, from which each module that folds draws  *)
(* its own conclusions by induction.                                       *)
(***************************************************************************)
EXTENDS Integers, FiniteSets, FiniteSetTheorems, WellFoundedInduction, TLAPS

CONSTANTS
  Step(_, _, _, _), \* the step for one element, in a context of two values
  Pick(_)           \* the element a set is walked to last

-----------------------------------------------------------------------------
Rest(s, x) == s \ {x}

\* A set that has 0, and the successor of what it has, has every number.
LEMMA Induction ==
  ASSUME NEW S, 0 \in S, \A n \in Nat : n \in S => n + 1 \in S
  PROVE  \A n \in Nat : n \in S
<1> DEFINE T == {n \in Nat : n \notin S}
<1> SUFFICES ASSUME T # {}
             PROVE  FALSE
  OBVIOUS
<1>1. PICK n \in T : \A m \in T : <<m, n>> \notin OpToRel(<, Nat)
  <2>1. T \subseteq Nat
    OBVIOUS
  <2> HIDE DEF T
  <2> QED
    BY <2>1, NatLessThanWellFounded, WFMin
<1>2. \A m \in T : ~(m < n)
  BY <1>1 DEF OpToRel
<1>3. n \in Nat /\ n \notin S
  BY <1>1
<1> HIDE DEF T
<1>4. n - 1 \in Nat /\ n - 1 < n /\ (n - 1) + 1 = n
  <2>1. n # 0
    BY <1>3
  <2> QED
    BY <1>3, <2>1, SMT
<1>5. n - 1 \in S
  BY <1>2, <1>4 DEF T
<1> QED
  BY <1>3, <1>4, <1>5

\* A set of subsets that has the empty one, and a subset whenever it has it
\* without some element of it, has the whole of a finite set.
LEMMA SubsetInduction ==
  ASSUME NEW S, IsFiniteSet(S), NEW T, {} \in T,
         \A s \in SUBSET S : s # {} =>
           \E x \in s : Rest(s, x) \in T => s \in T
  PROVE  S \in T
<1> DEFINE N == {n \in Nat : \A s \in SUBSET S : Cardinality(s) = n => s \in T}
<1>1. \A s \in SUBSET S : IsFiniteSet(s) /\ Cardinality(s) \in Nat
  BY FS_Subset, FS_CardinalityType
<1>2. 0 \in N
  BY <1>1, FS_EmptySet
<1>3. ASSUME NEW n \in Nat, n \in N
      PROVE  n + 1 \in N
  <2> SUFFICES ASSUME NEW s \in SUBSET S, Cardinality(s) = n + 1
               PROVE  s \in T
    OBVIOUS
  <2>1. s # {}
    BY <1>1, FS_EmptySet
  <2>2. PICK x \in s : s \ {x} \in T => s \in T
    BY <2>1 DEF Rest
  <2>3. Cardinality(s \ {x}) = n /\ s \ {x} \in SUBSET S
    <3>1. Cardinality(s \ {x}) = Cardinality(s) - 1
      BY <1>1, FS_RemoveElement
    <3>2. (n + 1) - 1 = n
      BY SMT
    <3> HIDE DEF N
    <3> QED
      BY <3>1, <3>2
  <2> QED
    BY <1>3, <2>2, <2>3
<1> HIDE DEF N
<1>4. Cardinality(S) \in N
  BY <1>1, <1>2, <1>3, Induction
<1> QED
  BY <1>4 DEF N

-----------------------------------------------------------------------------
Small(S, n) == {s \in SUBSET S : Cardinality(s) <= n}

\* f folds the subsets of S that have no more than n elements.
FoldsTo(c, e, base, S, n, f) ==
  f = [s \in Small(S, n) |->
         IF s = {} THEN base ELSE Step(c, e, Pick(s), f[s \ {Pick(s)}])]

\* Some f does, whatever the size of the subsets.
LEMMA FoldExists ==
  ASSUME NEW c, NEW e, NEW base, NEW S, IsFiniteSet(S), NEW n \in Nat,
         \A s \in SUBSET S : s # {} => Pick(s) \in s
  PROVE  \E f : FoldsTo(c, e, base, S, n, f)
<1> DEFINE N == {m \in Nat : \E f : FoldsTo(c, e, base, S, m, f)}
<1>1. \A s \in SUBSET S : IsFiniteSet(s) /\ Cardinality(s) \in Nat
  BY FS_Subset, FS_CardinalityType
<1>2. 0 \in N
  <2> DEFINE f == [s \in Small(S, 0) |-> base]
  <2>1. \A s \in Small(S, 0) : s = {}
    BY <1>1, FS_EmptySet DEF Small
  <2>2. f = [s \in Small(S, 0) |->
               IF s = {} THEN base ELSE Step(c, e, Pick(s), f[s \ {Pick(s)}])]
    BY <2>1
  <2> HIDE DEF f
  <2>3. FoldsTo(c, e, base, S, 0, f)
    BY <2>2 DEF FoldsTo
  <2> QED
    BY <2>3
<1>3. ASSUME NEW m \in Nat, m \in N
      PROVE  m + 1 \in N
  <2>1. PICK f : FoldsTo(c, e, base, S, m, f)
    BY <1>3
  <2> DEFINE Next(g, s) == IF s = {} THEN base
                           ELSE Step(c, e, Pick(s), g[s \ {Pick(s)}])
             g == [s \in Small(S, m + 1) |-> Next(f, s)]
             h == [s \in Small(S, m + 1) |-> Next(g, s)]
  <2>2. \A s \in Small(S, m) : f[s] = Next(f, s)
    BY <2>1 DEF FoldsTo
  <2>3. ASSUME NEW s \in Small(S, m + 1), s # {}
        PROVE  s \ {Pick(s)} \in Small(S, m) \cap Small(S, m + 1)
    <3>1. Pick(s) \in s /\ s \in SUBSET S
      BY <2>3 DEF Small
    <3>2. Cardinality(s \ {Pick(s)}) = Cardinality(s) - 1
      BY <1>1, <3>1, FS_RemoveElement
    <3>3. Cardinality(s) \in Nat /\ Cardinality(s) <= m + 1
      BY <1>1 DEF Small
    <3> QED
      BY <3>1, <3>2, <3>3, SMT DEF Small
  <2> HIDE DEF Next
  <2>4. \A s \in Small(S, m) \cap Small(S, m + 1) : g[s] = f[s]
    BY <2>2
  <2> HIDE DEF g
  <2>5. \A s \in Small(S, m + 1) : Next(g, s) = Next(f, s)
    BY <2>3, <2>4 DEF Next
  <2>6. g = h
    BY <2>5 DEF g
  <2>7. FoldsTo(c, e, base, S, m + 1, g)
    BY <2>6 DEF FoldsTo, Next
  <2> QED
    BY <2>7
<1> HIDE DEF N
<1>4. n \in N
  BY <1>2, <1>3, Induction
<1> QED
  BY <1>4 DEF N

\* MapThenFoldSet of module Folds, of this step.
Folded(c, e, base, S) ==
  LET iter[s \in SUBSET S] ==
        IF s = {} THEN base
        ELSE Step(c, e, Pick(s), iter[s \ {Pick(s)}])
  IN iter[S]

(***************************************************************************)
(* A trace of a fold: its value for every subset it comes to.              *)
(***************************************************************************)
Traces(c, e, base, S, f) ==
  /\ f[{}] = base
  /\ \A s \in SUBSET S : s # {} =>
       Pick(s) \in s /\ f[s] = Step(c, e, Pick(s), f[Rest(s, Pick(s))])
  /\ Folded(c, e, base, S) = f[S]

\* A fold has a trace.
THEOREM FoldTrace ==
  ASSUME NEW c, NEW e, NEW base, NEW S, IsFiniteSet(S),
         \A s \in SUBSET S : s # {} => Pick(s) \in s
  PROVE  \E f : Traces(c, e, base, S, f)
<1> DEFINE Is(f) == f = [s \in SUBSET S |->
                          IF s = {} THEN base
                          ELSE Step(c, e, Pick(s), f[s \ {Pick(s)}])]
           iter == CHOOSE f : Is(f)
<1>1. Cardinality(S) \in Nat /\ SUBSET S = Small(S, Cardinality(S))
  BY FS_Subset, FS_CardinalityType DEF Small
<1>2. \E f : Is(f)
  <2>1. PICK f : FoldsTo(c, e, base, S, Cardinality(S), f)
    BY <1>1, FoldExists
  <2>2. Is(f)
    BY <1>1, <2>1 DEF FoldsTo
  <2> QED
    BY <2>2
<1>3. Is(iter)
  <2> HIDE DEF Is
  <2> QED
    BY <1>2
<1>4. Folded(c, e, base, S) = iter[S]
  BY DEF Folded
<1> HIDE DEF iter
<1>5. {} \in SUBSET S
  OBVIOUS
<1>6. iter[{}] = base
  BY <1>3, <1>5
<1>7. \A s \in SUBSET S : s # {} =>
        iter[s] = Step(c, e, Pick(s), iter[s \ {Pick(s)}])
  BY <1>3
<1>8. Traces(c, e, base, S, iter)
  BY <1>4, <1>6, <1>7 DEF Traces, Rest
<1> QED
  BY <1>8

=============================================================================
