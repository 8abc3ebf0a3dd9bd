-------------------------- MODULE BlockEventsProofs --------------------------
(***************************************************************************)
(* Proofs about one block on its way into the tables, for every set of     *)
(* events, length of the block, supplier lists and number of calls.        *)
(*                                                                         *)
(* The loops over slices are recursive functions.  The first section shows *)
(* what they compute, by induction: a set of naturals that holds 0 and the *)
(* successor of each of its elements is Nat (NatSets), which follows from  *)
(* the naturals being well-founded, and a recursion has a solution.        *)
(***************************************************************************)
EXTENDS BlockEvents, SequenceTheorems, FiniteSetTheorems, WellFoundedInduction, TLAPS

\* Induction, as a fact about sets.
LEMMA NatSets ==
  ASSUME NEW S, S \subseteq Nat, 0 \in S, \A n \in S : n + 1 \in S
  PROVE  S = Nat
<1> DEFINE R == OpToRel(<, Nat)
           T == Nat \ S
<1>1. IsWellFoundedOn(R, Nat)
  BY NatLessThanWellFounded
<1>2. \A x, y \in Nat : <<y, x>> \in R <=> y < x
  BY DEF OpToRel
<1> HIDE DEF R
<1> SUFFICES ASSUME T # {} PROVE FALSE
  OBVIOUS
<1>3. PICK x \in T : \A y \in T : <<y, x>> \notin R
  BY <1>1, WFMin
<1>4. x \in Nat /\ x # 0 /\ x - 1 \in Nat /\ x - 1 < x /\ x = (x - 1) + 1
  OBVIOUS
<1>5. x - 1 \notin T
  BY <1>2, <1>3, <1>4
<1> QED
  BY <1>4, <1>5

\* A nonempty set of naturals has a least element.
LEMMA LeastOf ==
  ASSUME NEW S, S \subseteq Nat, S # {}
  PROVE  \E m \in S : \A n \in S : m <= n
<1> DEFINE R == OpToRel(<, Nat)
<1>1. IsWellFoundedOn(R, Nat)
  BY NatLessThanWellFounded
<1>2. \A x, y \in Nat : <<y, x>> \in R <=> y < x
  BY DEF OpToRel
<1> HIDE DEF R
<1>3. PICK x \in S : \A y \in S : <<y, x>> \notin R
  BY <1>1, WFMin
<1>4. ASSUME NEW n \in S PROVE x <= n
  <2>1. ~(n < x)
    BY <1>2, <1>3
  <2> QED
    BY <2>1
<1> QED
  BY <1>4

Repeats(f, n, base, step) ==
  f[0] = base /\ \A i \in 1..n : f[i] = step[<<i, f[i - 1]>>]

\* A step given as a function can be repeated any number of times.
LEMMA Recursion ==
  ASSUME NEW V, NEW n \in Nat, NEW base \in V, NEW step \in [(1..n) \X V -> V]
  PROVE  \E f \in [0..n -> V] : Repeats(f, n, base, step)
<1> DEFINE Upto(m, f) == f[0] = base /\ \A i \in 1..m : f[i] = step[<<i, f[i - 1]>>]
           S == {m \in Nat : m <= n => \E f \in [0..n -> V] : Upto(m, f)}
<1>1. 0 \in S
  <2> DEFINE f == [i \in 0..n |-> base]
  <2>1. f \in [0..n -> V] /\ f[0] = base /\ 1..0 = {}
    OBVIOUS
  <2> HIDE DEF f
  <2>2. Upto(0, f)
    BY <2>1
  <2> QED
    BY <2>1, <2>2
<1>2. ASSUME NEW m \in S PROVE m + 1 \in S
  <2> SUFFICES ASSUME m + 1 <= n PROVE \E f \in [0..n -> V] : Upto(m + 1, f)
    OBVIOUS
  <2>1. PICK f \in [0..n -> V] : Upto(m, f)
    OBVIOUS
  <2> DEFINE g == [f EXCEPT ![m + 1] = step[<<m + 1, f[m]>>]]
  <2>2. m \in 0..n /\ m + 1 \in 1..n /\ m + 1 \in 0..n
    OBVIOUS
  <2>3. <<m + 1, f[m]>> \in (1..n) \X V
    BY <2>2
  <2>4. g \in [0..n -> V]
    BY <2>2, <2>3
  <2>5. /\ \A i \in 0..n : i # m + 1 => g[i] = f[i]
        /\ g[m + 1] = step[<<m + 1, f[m]>>]
    BY <2>2
  <2>6. g[0] = base
    BY <2>1, <2>5
  <2>7. ASSUME NEW i \in 1..m + 1 PROVE g[i] = step[<<i, g[i - 1]>>]
    <3>1. g[i - 1] = f[i - 1]
      BY <2>2, <2>5
    <3>2. CASE i = m + 1
      <4>1. g[i - 1] = f[m] /\ g[i] = step[<<m + 1, f[m]>>]
        BY <2>5, <3>1, <3>2
      <4> HIDE DEF g
      <4> QED
        BY <3>2, <4>1
    <3>3. CASE i # m + 1
      <4>1. i \in 1..m /\ i \in 0..n
        BY <2>2, <3>3
      <4> QED
        BY <2>1, <2>5, <3>1, <3>3, <4>1
    <3> QED
      BY <3>2, <3>3
  <2> QED
    BY <2>4, <2>6, <2>7
<1>3. S = Nat
  <2>1. S \subseteq Nat
    OBVIOUS
  <2> HIDE DEF S
  <2> QED
    BY <1>1, <1>2, <2>1, NatSets
<1>4. n \in S
  BY <1>3
<1> QED
  BY <1>4 DEF Repeats

Keeps(kept, s, I) ==
  /\ kept[0] = <<>> /\ SelectAt(s, I) = kept[Len(s)]
  /\ \A i \in 1..Len(s) :
       kept[i] = IF i \in I THEN Append(kept[i - 1], s[i]) ELSE kept[i - 1]

\* The loop of SelectAt, step by step.
LEMMA SelectAtSteps ==
  ASSUME NEW V, NEW s \in Seq(V), NEW I
  PROVE  \E kept \in [0..Len(s) -> Seq(V)] : Keeps(kept, s, I)
<1> DEFINE n == Len(s)
           step == [p \in (1..n) \X Seq(V) |->
                      IF p[1] \in I THEN Append(p[2], s[p[1]]) ELSE p[2]]
           kept[i \in 0..n] == IF i = 0 THEN <<>>
                               ELSE IF i \in I THEN Append(kept[i - 1], s[i])
                               ELSE kept[i - 1]
           Solves(g) == g = [i \in 0..n |-> IF i = 0 THEN <<>>
                                           ELSE IF i \in I THEN Append(g[i - 1], s[i])
                                           ELSE g[i - 1]]
<1>1. n \in Nat /\ <<>> \in Seq(V) /\ \A i \in 1..n : s[i] \in V
  BY LenProperties, ElementOfSeq, EmptySeq
<1>2. step \in [(1..n) \X Seq(V) -> Seq(V)]
  BY <1>1, AppendProperties
<1>3. PICK f \in [0..n -> Seq(V)] :
           f[0] = <<>> /\ \A i \in 1..n : f[i] = step[<<i, f[i - 1]>>]
  <2> DEFINE base == <<>>
             SV == Seq(V)
  <2>1. base \in SV /\ step \in [(1..n) \X SV -> SV]
    BY <1>1, <1>2
  <2> HIDE DEF n, step, kept, Solves, base, SV
  <2>2. \E f \in [0..n -> SV] : Repeats(f, n, base, step)
    BY <1>1, <2>1, Recursion
  <2> QED
    BY <2>2 DEF Repeats, base, SV
<1>4. \A i \in 1..n : f[i - 1] \in Seq(V)
  BY <1>1
<1>5. \A i \in 1..n : f[i] = IF i \in I THEN Append(f[i - 1], s[i]) ELSE f[i - 1]
  BY <1>3, <1>4
<1>6. Solves(f)
  <2>1. \A i \in 0..n : f[i] = IF i = 0 THEN <<>>
                               ELSE IF i \in I THEN Append(f[i - 1], s[i]) ELSE f[i - 1]
    <3> HIDE DEF n, step, kept, Solves
    <3>1. \A i \in 0..n : i = 0 \/ i \in 1..n
      BY <1>1
    <3> QED
      BY <1>3, <1>5, <3>1
  <2>2. f = [i \in 0..n |-> f[i]]
    BY <1>3
  <2> QED
    BY <2>1, <2>2, Zenon
<1>7. kept = CHOOSE g : Solves(g)
  BY Zenon
<1>8. Solves(kept)
  <2> HIDE DEF Solves, kept
  <2> QED
    BY <1>6, <1>7, Zenon
<1>9. SelectAt(s, I) = kept[n]
  BY Zenon DEF SelectAt
<1> HIDE DEF kept
<1>10. /\ kept[0] = <<>>
       /\ \A i \in 1..n : kept[i] = IF i \in I THEN Append(kept[i - 1], s[i]) ELSE kept[i - 1]
  <2>1. \A i \in 0..n : kept[i] = IF i = 0 THEN <<>>
                                  ELSE IF i \in I THEN Append(kept[i - 1], s[i])
                                  ELSE kept[i - 1]
    BY <1>8, Zenon
  <2>2. 0 \in 0..n /\ \A i \in 1..n : i \in 0..n /\ i # 0
    BY <1>1
  <2> HIDE DEF n
  <2> QED
    BY <2>1, <2>2
<1>11. kept \in [0..n -> Seq(V)]
  <2> DEFINE S == {i \in Nat : i <= n => kept[i] \in Seq(V)}
  <2>1. 0 \in S
    BY <1>1, <1>10
  <2>2. ASSUME NEW i \in S PROVE i + 1 \in S
    <3> SUFFICES ASSUME i + 1 <= n PROVE kept[i + 1] \in Seq(V)
      OBVIOUS
    <3>1. i + 1 \in 1..n /\ (i + 1) - 1 = i /\ kept[i] \in Seq(V)
      BY <1>1
    <3>2. kept[i + 1] = IF i + 1 \in I THEN Append(kept[i], s[i + 1]) ELSE kept[i]
      BY <1>10, <3>1
    <3> QED
      BY <1>1, <3>1, <3>2, AppendProperties
  <2>3. S = Nat
    <3>1. S \subseteq Nat
      OBVIOUS
    <3> HIDE DEF S
    <3> QED
      BY <2>1, <2>2, <3>1, NatSets
  <2>4. \A i \in 0..n : kept[i] \in Seq(V)
    BY <1>1, <2>3
  <2> QED
    BY <1>8, <2>4
<1> QED
  BY <1>9, <1>10, <1>11 DEF Keeps

LEMMA ToSetAppend ==
  ASSUME NEW V, NEW q \in Seq(V), NEW e \in V
  PROVE  ToSet(Append(q, e)) = ToSet(q) \cup {e}
<1> DEFINE a == Append(q, e)
           n == Len(q)
<1>1. /\ n \in Nat /\ DOMAIN q = 1..n /\ DOMAIN a = 1..n + 1
      /\ a[n + 1] = e /\ \A i \in 1..n : a[i] = q[i]
  BY AppendProperties, LenProperties
<1> HIDE DEF a, n
<1>2. 1..n + 1 = (1..n) \cup {n + 1}
  BY <1>1
<1>3. ToSet(a) = {a[i] : i \in 1..n} \cup {a[n + 1]}
  BY <1>1, <1>2 DEF ToSet
<1>4. {a[i] : i \in 1..n} = {q[i] : i \in 1..n}
  BY <1>1
<1> QED
  BY <1>1, <1>3, <1>4 DEF a, ToSet

\* What SelectAt returns: the elements at the positions chosen, as many of them.
LEMMA Selected ==
  ASSUME NEW V, NEW s \in Seq(V), NEW I \in SUBSET DOMAIN s
  PROVE  /\ SelectAt(s, I) \in Seq(V)
         /\ ToSet(SelectAt(s, I)) = {s[i] : i \in I}
         /\ IsFiniteSet(I) /\ Len(SelectAt(s, I)) = Cardinality(I)
<1> DEFINE n == Len(s)
<1>1. n \in Nat /\ DOMAIN s = 1..n /\ \A i \in 1..n : s[i] \in V
  BY LenProperties, ElementOfSeq
<1>p. PICK kept \in [0..n -> Seq(V)] : Keeps(kept, s, I)
  BY SelectAtSteps
<1>2. /\ kept \in [0..n -> Seq(V)] /\ kept[0] = <<>> /\ SelectAt(s, I) = kept[n]
      /\ \A i \in 1..n :
           kept[i] = IF i \in I THEN Append(kept[i - 1], s[i]) ELSE kept[i - 1]
  BY <1>p DEF Keeps
<1> HIDE DEF n
<1> DEFINE At(m) == {i \in I : i <= m}
           Good(m) == /\ ToSet(kept[m]) = {s[i] : i \in At(m)}
                      /\ IsFiniteSet(At(m)) /\ Len(kept[m]) = Cardinality(At(m))
           S == {m \in Nat : m <= n => Good(m)}
<1>3. 0 \in S
  <2>1. At(0) = {}
    BY <1>1
  <2>2. ToSet(<<>>) = {} /\ Len(<<>>) = 0 /\ IsFiniteSet({}) /\ Cardinality({}) = 0
    BY FS_EmptySet, EmptySeq DEF ToSet
  <2>3. Good(0)
    BY <1>2, <2>1, <2>2
  <2> QED
    BY <2>3
<1>4. ASSUME NEW m \in S PROVE m + 1 \in S
  <2> SUFFICES ASSUME m + 1 <= n PROVE Good(m + 1)
    OBVIOUS
  <2>1. /\ m \in 0..n /\ m + 1 \in 1..n /\ (m + 1) - 1 = m /\ kept[m] \in Seq(V)
        /\ Good(m) /\ s[m + 1] \in V
    BY <1>1, <1>2
  <2>2. CASE m + 1 \in I
    <3>1. kept[m + 1] = Append(kept[m], s[m + 1])
      BY <1>2, <2>1, <2>2
    <3>2. At(m + 1) = At(m) \cup {m + 1} /\ m + 1 \notin At(m)
      BY <1>1, <2>2
    <3>3. ToSet(kept[m + 1]) = ToSet(kept[m]) \cup {s[m + 1]}
          /\ Len(kept[m + 1]) = Len(kept[m]) + 1
      BY <2>1, <3>1, ToSetAppend, AppendProperties
    <3>4. {s[i] : i \in At(m + 1)} = {s[i] : i \in At(m)} \cup {s[m + 1]}
      <4> HIDE DEF At
      <4> QED
        BY <3>2
    <3>5. IsFiniteSet(At(m + 1)) /\ Cardinality(At(m + 1)) = Cardinality(At(m)) + 1
      <4> HIDE DEF At
      <4> QED
        BY <2>1, <3>2, FS_AddElement
    <3> HIDE DEF At
    <3> QED
      BY <2>1, <3>3, <3>4, <3>5
  <2>3. CASE m + 1 \notin I
    <3>1. kept[m + 1] = kept[m]
      BY <1>2, <2>1, <2>3
    <3>2. At(m + 1) = At(m)
      BY <1>1, <2>3
    <3> QED
      BY <2>1, <3>1, <3>2
  <2> QED
    BY <2>2, <2>3
<1>5. S = Nat
  <2>1. S \subseteq Nat
    OBVIOUS
  <2> HIDE DEF S
  <2> QED
    BY <1>3, <1>4, <2>1, NatSets
<1>6. Good(n)
  <2>1. n \in S
    <3> HIDE DEF S
    <3> QED
      BY <1>1, <1>5
  <2> QED
    BY <1>1, <2>1
<1>7. At(n) = I
  BY <1>1
<1>8. kept[n] \in Seq(V)
  BY <1>1, <1>2
<1> QED
  BY <1>2, <1>6, <1>7, <1>8

ElementsAt(s, I) == {s[i] : i \in I}

\* As many positions as elements, when no element repeats.
LEMMA Positions ==
  ASSUME NEW V, NEW s \in Seq(V), NEW I \in SUBSET DOMAIN s,
         \A i, j \in DOMAIN s : s[i] = s[j] => i = j
  PROVE  /\ IsFiniteSet(ElementsAt(s, I)) /\ Cardinality(ElementsAt(s, I)) = Cardinality(I)
         /\ \A i, j \in DOMAIN SelectAt(s, I) :
              SelectAt(s, I)[i] = SelectAt(s, I)[j] => i = j
<1> DEFINE T == {s[i] : i \in I}
           q == SelectAt(s, I)
           f == [i \in I |-> s[i]]
<1>1. /\ q \in Seq(V) /\ ToSet(q) = T
      /\ IsFiniteSet(I) /\ Len(q) = Cardinality(I)
  BY Selected
<1>2. f \in Bijection(I, T)
  <2>1. f \in [I -> T] /\ \A t \in T : \E i \in I : f[i] = t
    OBVIOUS
  <2>2. \A i, j \in I : f[i] = f[j] => i = j
    OBVIOUS
  <2> HIDE DEF f, T
  <2> QED
    BY <2>1, <2>2 DEF Bijection, Injection, Surjection, IsInjective
<1>3. IsFiniteSet(T) /\ Cardinality(T) = Cardinality(I)
  <2> HIDE DEF f, T
  <2>1. ExistsBijection(I, T)
    BY <1>2 DEF ExistsBijection
  <2> QED
    BY <1>1, <2>1, FS_Bijection
<1> HIDE DEF T, q, f
<1>4. Len(q) \in Nat /\ DOMAIN q = 1..Len(q) /\ q \in [1..Len(q) -> ToSet(q)]
  BY <1>1, LenProperties DEF ToSet
<1>5. q \in Surjection(1..Len(q), T)
  BY <1>1, <1>4 DEF Surjection, ToSet
<1>6. IsFiniteSet(1..Len(q)) /\ Cardinality(1..Len(q)) = Len(q)
  <2> DEFINE one == 1
             n == Len(q)
  <2>1. one \in Int /\ n \in Int /\ n \in Nat /\ one = 1
    BY <1>4
  <2> HIDE DEF one, n
  <2>2. IsFiniteSet(one..n) /\ Cardinality(one..n) = IF one > n THEN 0 ELSE n - one + 1
    BY <2>1, FS_Interval
  <2>3. (IF one > n THEN 0 ELSE n - one + 1) = n
    BY <2>1
  <2> QED
    BY <2>1, <2>2, <2>3 DEF n
<1>7. q \in Injection(1..Len(q), T)
  BY <1>1, <1>3, <1>5, <1>6, FS_SurjSameCardinalityImpliesInj
<1>8. \A i, j \in DOMAIN q : q[i] = q[j] => i = j
  BY <1>4, <1>7 DEF Injection, IsInjective
<1> QED
  BY <1>3, <1>8 DEF T, q, ElementsAt

-----------------------------------------------------------------------------
(* Selections of events.                                                   *)

LEMMA SeqDomain ==
  ASSUME NEW V, NEW s \in Seq(V)
  PROVE  /\ Len(s) \in Nat /\ DOMAIN s = 1..Len(s) /\ DOMAIN s \subseteq Nat
         /\ \A i \in DOMAIN s : s[i] \in V
         /\ ToSet(s) \subseteq V /\ \A e \in ToSet(s) : \E i \in DOMAIN s : s[i] = e
BY LenProperties, ElementOfSeq DEF ToSet

\* ProcessBlock goes on with the events that pass the supplier filter.
LEMMA FilteredIs ==
  ASSUME NEW evs \in Seq(Universe), NEW list
  PROVE  /\ Filtered(evs, list) \in Seq(Universe)
         /\ ToSet(Filtered(evs, list)) = {e \in ToSet(evs) : Match(list, e.supplier)}
<1> DEFINE I == {i \in DOMAIN evs : Match(list, evs[i].supplier)}
<1>1. I \in SUBSET DOMAIN evs
  OBVIOUS
<1>2. {evs[i] : i \in I} = {e \in ToSet(evs) : Match(list, e.supplier)}
  BY DEF ToSet
<1>3. Filtered(evs, list) = SelectAt(evs, I)
  BY DEF Filtered
<1> HIDE DEF I
<1> QED
  BY <1>1, <1>2, <1>3, Selected

\* The events of some kinds.
LEMMA OfKindsIs ==
  ASSUME NEW evs \in Seq(Universe), NEW kinds
  PROVE  /\ OfKinds(evs, kinds) \in Seq(Universe)
         /\ ToSet(OfKinds(evs, kinds)) = {e \in ToSet(evs) : e.kind \in kinds}
         /\ Len(OfKinds(evs, kinds)) = Cardinality({i \in DOMAIN evs : evs[i].kind \in kinds})
<1> DEFINE I == {i \in DOMAIN evs : evs[i].kind \in kinds}
<1>1. I \in SUBSET DOMAIN evs
  OBVIOUS
<1>2. {evs[i] : i \in I} = {e \in ToSet(evs) : e.kind \in kinds}
  BY DEF ToSet
<1>3. OfKinds(evs, kinds) = SelectAt(evs, I)
  BY DEF OfKinds
<1>4. Len(SelectAt(evs, I)) = Cardinality(I)
  BY <1>1, Selected
<1> HIDE DEF I
<1>5. SelectAt(evs, I) \in Seq(Universe) /\ ToSet(SelectAt(evs, I)) = {evs[i] : i \in I}
  BY <1>1, Selected
<1> QED
  BY <1>2, <1>3, <1>4, <1>5 DEF I

\* o is an overservice event of the supplier and the application of claim e.
Concerns(o, e) == o.kind = "overserviced" /\ o.supplier = e.supplier /\ o.app = e.app

LEMMA OverservicesOfIs ==
  ASSUME NEW evs \in Seq(Universe), NEW e
  PROVE  /\ OverservicesOf(evs, e.supplier, e.app) \in Seq(Universe)
         /\ ToSet(OverservicesOf(evs, e.supplier, e.app)) = {o \in ToSet(evs) : Concerns(o, e)}
<1> DEFINE I == {i \in DOMAIN evs : /\ evs[i].kind = "overserviced"
                                   /\ evs[i].supplier = e.supplier /\ evs[i].app = e.app}
<1>1. I \in SUBSET DOMAIN evs
  OBVIOUS
<1>2. {evs[i] : i \in I} = {o \in ToSet(evs) : Concerns(o, e)}
  BY DEF ToSet, Concerns
<1>3. OverservicesOf(evs, e.supplier, e.app) = SelectAt(evs, I)
  BY DEF OverservicesOf
<1> HIDE DEF I
<1> QED
  BY <1>1, <1>2, <1>3, Selected

\* A settled claim is marked if an event of the block concerns it, and no other is.
LEMMA CorrelationIs ==
  ASSUME NEW evs \in Seq(Universe), NEW e
  PROVE  /\ correlateOverservice(evs, e).marked <=>
              e.kind = "settled" /\ \E o \in ToSet(evs) : Concerns(o, e)
         /\ correlateOverservice(evs, e).marked =>
              \E o \in ToSet(evs) : Concerns(o, e) /\ correlateOverservice(evs, e).diff = Diff(o)
<1> DEFINE os == OverservicesOf(evs, e.supplier, e.app)
           c == correlateOverservice(evs, e)
<1>1. os \in Seq(Universe) /\ ToSet(os) = {o \in ToSet(evs) : Concerns(o, e)}
  BY OverservicesOfIs
<1>2. /\ e.kind # "settled" \/ os = <<>> => c = [marked |-> FALSE, diff |-> 0]
      /\ ~(e.kind # "settled" \/ os = <<>>) =>
           c = [marked |-> TRUE,
                diff |-> parseCoinAmount(Last(os).expected) - parseCoinAmount(Last(os).effective)]
  BY DEF correlateOverservice
<1> HIDE DEF os, c
<1>3. CASE e.kind # "settled" \/ os = <<>>
  <2>1. os = <<>> => ToSet(os) = {}
    BY EmptySeq DEF ToSet
  <2>2. c.marked = FALSE
    BY <1>2, <1>3
  <2> QED
    BY <1>1, <1>3, <2>1, <2>2 DEF c
<1>4. CASE ~(e.kind # "settled" \/ os = <<>>)
  <2>1. Len(os) \in Nat /\ Len(os) # 0 /\ DOMAIN os = 1..Len(os)
    BY <1>1, <1>4, LenProperties, EmptySeq
  <2>2. Last(os) \in ToSet(os)
    BY <2>1 DEF Last, ToSet
  <2>3. c.marked = TRUE /\ c.diff = Diff(Last(os))
    BY <1>2, <1>4 DEF Diff
  <2> QED
    BY <1>1, <1>4, <2>2, <2>3 DEF c
<1> QED
  BY <1>3, <1>4

\* What the chain has of the block that the decoder selects.
LEMMA DecodedIs ==
  ASSUME block \in Seq(Universe)
  PROVE  decodeBlockEvents(block) \in Seq(Universe)
<1> DEFINE I == {i \in DOMAIN block : /\ block[i].kind \in targetEventTypes
                                     /\ Parses(filterEventAttrs(block[i].attrs))}
<1>1. I \in SUBSET DOMAIN block
  OBVIOUS
<1>2. decodeBlockEvents(block) = SelectAt(block, I)
  BY DEF decodeBlockEvents
<1> HIDE DEF I
<1> QED
  BY <1>1, <1>2, Selected

\* A block gathered twice has no other events.
LEMMA TwiceIs ==
  ASSUME NEW s \in Seq(Universe)
  PROVE  s \o s \in Seq(Universe) /\ ToSet(s \o s) = ToSet(s)
<1> DEFINE t == s \o s
           n == Len(s)
<1>1. /\ t \in Seq(Universe) /\ n \in Nat /\ Len(t) = n + n
      /\ DOMAIN s = 1..n /\ DOMAIN t = 1..n + n
      /\ \A i \in 1..n : t[i] = s[i]
      /\ \A i \in n + 1..n + n : t[i] = s[i - n]
  BY ConcatProperties, LenProperties
<1> HIDE DEF t, n
<1>2. ASSUME NEW e \in ToSet(t) PROVE e \in ToSet(s)
  <2>1. PICK i \in 1..n + n : t[i] = e
    BY <1>1 DEF ToSet
  <2>2. CASE i <= n
    BY <1>1, <2>1, <2>2 DEF ToSet
  <2>3. CASE i > n
    <3>1. i \in n + 1..n + n /\ i - n \in 1..n
      BY <1>1, <2>1, <2>3
    <3>2. e = s[i - n]
      BY <1>1, <2>1, <3>1
    <3> QED
      BY <1>1, <3>1, <3>2 DEF ToSet
  <2> QED
    BY <1>1, <2>2, <2>3
<1>3. ASSUME NEW e \in ToSet(s) PROVE e \in ToSet(t)
  <2>1. PICK i \in 1..n : s[i] = e
    BY <1>1 DEF ToSet
  <2>2. i \in 1..n + n /\ t[i] = e
    BY <1>1, <2>1
  <2> QED
    BY <1>1, <2>2 DEF ToSet
<1> QED
  BY <1>1, <1>2, <1>3 DEF t

-----------------------------------------------------------------------------
(* INSERT OR IGNORE.                                                       *)

OneRowPerKey(name, table) ==
  \A q, r \in table : UniqueKey(name, q) = UniqueKey(name, r) => q = r

\* Whatever rows are inserted, each has its key in the table afterwards, the table
\* has gained only rows it had no key of, and none if it had all the keys.
LEMMA InsertIs ==
  ASSUME NEW name, NEW table, NEW rows, DOMAIN rows \subseteq Nat
  PROVE  /\ table \subseteq InsertRows(name, table, rows)
         /\ Inserted(name, table, rows) \subseteq DOMAIN rows
         /\ \A r \in InsertRows(name, table, rows) :
              r \in table \/ \E i \in Inserted(name, table, rows) : r = rows[i]
         /\ \A i \in Inserted(name, table, rows) : rows[i] \in InsertRows(name, table, rows)
         /\ \A i \in DOMAIN rows : \E r \in InsertRows(name, table, rows) :
              UniqueKey(name, r) = UniqueKey(name, rows[i])
         /\ OneRowPerKey(name, table) => OneRowPerKey(name, InsertRows(name, table, rows))
         /\ (\A i \in DOMAIN rows : \E r \in table : UniqueKey(name, r) = UniqueKey(name, rows[i]))
              => Inserted(name, table, rows) = {} /\ InsertRows(name, table, rows) = table
<1> DEFINE new == Inserted(name, table, rows)
           after == InsertRows(name, table, rows)
<1>1. after = table \cup {rows[i] : i \in new}
  BY DEF InsertRows
<1>2. \A i : i \in new <=>
        /\ i \in DOMAIN rows
        /\ \A r \in table : UniqueKey(name, r) # UniqueKey(name, rows[i])
        /\ \A j \in DOMAIN rows : j < i => UniqueKey(name, rows[j]) # UniqueKey(name, rows[i])
  BY DEF Inserted
<1> HIDE DEF new, after
<1>3. ASSUME NEW i \in DOMAIN rows
      PROVE  \E r \in after : UniqueKey(name, r) = UniqueKey(name, rows[i])
  <2>1. CASE \E r \in table : UniqueKey(name, r) = UniqueKey(name, rows[i])
    BY <1>1, <2>1
  <2>2. CASE \A r \in table : UniqueKey(name, r) # UniqueKey(name, rows[i])
    <3> DEFINE J == {j \in DOMAIN rows : UniqueKey(name, rows[j]) = UniqueKey(name, rows[i])}
    <3>1. J \subseteq Nat /\ J # {}
      OBVIOUS
    <3>2. PICK m \in J : \A j \in J : m <= j
      <4> HIDE DEF J
      <4> QED
        BY <3>1, LeastOf
    <3>3. \A j \in DOMAIN rows : j < m => UniqueKey(name, rows[j]) # UniqueKey(name, rows[m])
      <4> SUFFICES ASSUME NEW j \in DOMAIN rows, j < m,
                          UniqueKey(name, rows[j]) = UniqueKey(name, rows[m])
                   PROVE  FALSE
        OBVIOUS
      <4>1. j \in J
        OBVIOUS
      <4>2. j \in Nat /\ m \in Nat /\ m <= j
        BY <3>1, <3>2, <4>1
      <4> QED
        BY <4>2
    <3>4. m \in new
      BY <1>2, <2>2, <3>3
    <3> QED
      BY <1>1, <3>4
  <2> QED
    BY <2>1, <2>2
<1>4. ASSUME OneRowPerKey(name, table), NEW q \in after, NEW r \in after,
             UniqueKey(name, q) = UniqueKey(name, r)
      PROVE  q = r
  <2>1. CASE q \in table /\ r \in table
    BY <1>4, <2>1 DEF OneRowPerKey
  <2>2. CASE q \in table /\ r \notin table
    BY <1>1, <1>2, <1>4, <2>2
  <2>3. CASE q \notin table /\ r \in table
    BY <1>1, <1>2, <1>4, <2>3
  <2>4. CASE q \notin table /\ r \notin table
    <3>1. PICK i \in new, j \in new : q = rows[i] /\ r = rows[j]
      BY <1>1, <2>4
    <3>2. i \in Nat /\ j \in Nat /\ ~(i < j) /\ ~(j < i)
      BY <1>2, <1>4, <3>1
    <3> QED
      BY <3>1, <3>2
  <2> QED
    BY <2>1, <2>2, <2>3, <2>4
<1>5. ASSUME \A i \in DOMAIN rows : \E r \in table : UniqueKey(name, r) = UniqueKey(name, rows[i])
      PROVE  new = {} /\ after = table
  BY <1>1, <1>2, <1>5
<1>6. \A q, r \in after :
        OneRowPerKey(name, table) /\ UniqueKey(name, q) = UniqueKey(name, r) => q = r
  BY <1>4
<1> QED
  BY <1>1, <1>2, <1>3, <1>5, <1>6 DEF new, after, OneRowPerKey

LEMMA UniqueKeyIs ==
  \A r : /\ UniqueKey("settlements", r) = SettlementKey(r)
        /\ UniqueKey("overservice_events", r) = OverserviceKey(r)
        /\ UniqueKey("reimbursement_events", r) = ReimbursementKey(r)
BY DEF UniqueKey

-----------------------------------------------------------------------------
(* The invariant.                                                          *)

\* A writer has the decoded events of the block, once or twice, and has stored them
\* under the supplier list of this process when its transaction has committed.
Types ==
  /\ block \in Seq(Universe)
  /\ writers \in [Writers -> [phase : {"idle", "inserting", "stored"}, evs : Seq(Universe),
                             time : Times]]
  /\ dispatched \in Nat /\ counters \in [Claims \cup {"overserviced"} -> Nat]
  /\ \A w \in Writers :
       /\ writers[w].phase # "idle" =>
            writers[w].evs \in {decodeBlockEvents(block),
                               decodeBlockEvents(block) \o decodeBlockEvents(block)}
       /\ writers[w].phase = "stored" => suppliers \in committed

\* r is the settlement row of claim e: marked as its correlation in the block says.
SettlementOf(r, e) ==
  /\ MadeFrom(r, e)
  /\ r.over.marked <=> e.kind = "settled" /\ \E o \in Decoded : Concerns(o, e)
  /\ r.over.marked => \E o \in Decoded : Concerns(o, e) /\ r.over.diff = Diff(o)

\* Each claim that is due has a row, and each row a claim that is due.
SettlementsHold ==
  /\ \A r \in settlements : \E e \in Due : e.kind \in Claims /\ SettlementOf(r, e)
  /\ \A e \in Due : e.kind \in Claims => \E r \in settlements : SettlementKey(r) = SettlementKey(e)
  /\ OneRowPerKey("settlements", settlements)

Shares(e) ==
  {[of |-> SettlementKey(e), address |-> d.address, amount |-> d.amount] : d \in e.rewards}

\* Each reward is one of the claim a settlement row was made from, and all of them
\* are there.
RewardsHold ==
  /\ \A v \in rewards : \E r \in settlements, e \in Due :
       e.kind = "settled" /\ MadeFrom(r, e) /\ v \in Shares(e)
  /\ \A r \in settlements : r.kind = "settled" =>
       \E e \in Due : e.kind = "settled" /\ MadeFrom(r, e) /\ Shares(e) \subseteq rewards

\* o is a row of overservice event e.
OverserviceOf(o, e) ==
  e.kind = "overserviced" /\ o.supplier = e.supplier /\ o.app = e.app /\ o.diff = Diff(e)

OverservicesHold ==
  /\ \A o \in overservices : \E e \in Due : OverserviceOf(o, e)
  /\ \A e \in Due : e.kind = "overserviced" =>
       \E o \in overservices : OverserviceKey(o) = OverserviceKey(e)
  /\ OneRowPerKey("overservice_events", overservices)

ReimbursementsHold ==
  /\ \A m \in reimbursements : \E e \in Due :
       e.kind = "reimbursement" /\ ReimbursementKey(m) = ReimbursementKey(e)
  /\ \A e \in Due : e.kind = "reimbursement" =>
       \E m \in reimbursements : ReimbursementKey(m) = ReimbursementKey(e)

ProcessedHolds ==
  /\ processed = {} <=> committed = {}
  /\ \A p, q \in processed : p = q

TablesHold ==
  SettlementsHold /\ RewardsHold /\ OverservicesHold /\ ReimbursementsHold /\ ProcessedHolds

Counted(events, list, k) == {e \in events : e.kind = k /\ Match(list, e.supplier)}

\* The events of a kind that pass the supplier list of this process.
Passing(k) == Counted(Decoded, suppliers, k)

\* What is counted has been committed, and counted once it is the number of events.
CountersHold ==
  /\ dispatched = 0 => \A k \in DOMAIN counters : counters[k] = 0
  /\ DistinctKeys /\ dispatched = 1 =>
       /\ suppliers \in committed
       /\ \A k \in DOMAIN counters : counters[k] = Cardinality(Passing(k))

IInv == Types /\ TablesHold /\ CountersHold

-----------------------------------------------------------------------------
(* The rows of a block.                                                    *)

\* The events a transaction under this supplier list has rows for.
Let(list) == {e \in Decoded : Match(list, e.supplier)}

LEMMA PassedIs ==
  ASSUME NEW evs \in Seq(Universe), ToSet(evs) = Decoded, NEW list, NEW kinds
  PROVE  LET q == OfKinds(Filtered(evs, list), kinds)
         IN  /\ DOMAIN q \subseteq Nat
             /\ \A i \in DOMAIN q : q[i] \in Let(list) /\ q[i].kind \in kinds
             /\ \A e \in Let(list) : e.kind \in kinds => \E i \in DOMAIN q : q[i] = e
<1> DEFINE f == Filtered(evs, list)
           q == OfKinds(f, kinds)
<1>1. f \in Seq(Universe) /\ ToSet(f) = Let(list)
  BY FilteredIs DEF Let
<1> HIDE DEF f
<1>2. q \in Seq(Universe) /\ ToSet(q) = {e \in Let(list) : e.kind \in kinds}
  BY <1>1, OfKindsIs
<1> HIDE DEF q
<1>3. /\ DOMAIN q \subseteq Nat
      /\ \A e \in ToSet(q) : \E i \in DOMAIN q : q[i] = e
  BY <1>2, SeqDomain
<1>4. \A i \in DOMAIN q : q[i] \in ToSet(q)
  BY DEF ToSet
<1>5. /\ DOMAIN q \subseteq Nat
      /\ \A i \in DOMAIN q : q[i] \in Let(list) /\ q[i].kind \in kinds
      /\ \A e \in Let(list) : e.kind \in kinds => \E i \in DOMAIN q : q[i] = e
  BY <1>2, <1>3, <1>4
<1> QED
  BY <1>5 DEF f, q

\* The settlement rows are those of the claims that pass, one for each position.
LEMMA SettlementRowsAre ==
  ASSUME NEW evs \in Seq(Universe), ToSet(evs) = Decoded, NEW list, NEW time
  PROVE  LET rows == SettlementRows(evs, list, time)
             claims == ClaimsOf(Filtered(evs, list))
         IN  /\ DOMAIN rows \subseteq Nat /\ DOMAIN rows = DOMAIN claims
             /\ \A i \in DOMAIN rows : /\ claims[i] \in Let(list) /\ claims[i].kind \in Claims
                                       /\ SettlementOf(rows[i], claims[i])
             /\ \A e \in Let(list) : e.kind \in Claims => \E i \in DOMAIN rows : claims[i] = e
<1> DEFINE rows == SettlementRows(evs, list, time)
           claims == ClaimsOf(Filtered(evs, list))
<1>1. /\ DOMAIN claims \subseteq Nat
      /\ \A i \in DOMAIN claims : claims[i] \in Let(list) /\ claims[i].kind \in Claims
      /\ \A e \in Let(list) : e.kind \in Claims => \E i \in DOMAIN claims : claims[i] = e
  BY PassedIs DEF ClaimsOf
<1>2. rows = [i \in DOMAIN claims |->
                [kind |-> claims[i].kind, supplier |-> claims[i].supplier,
                 app |-> claims[i].app, session |-> claims[i].session,
                 service |-> claims[i].service,
                 over |-> correlateOverservice(evs, claims[i]), time |-> time]]
  BY Zenon DEF SettlementRows
<1> HIDE DEF rows, claims
<1>3. ASSUME NEW i \in DOMAIN claims PROVE SettlementOf(rows[i], claims[i])
  <2> DEFINE e == claims[i]
             r == rows[i]
  <2>1. /\ r.kind = e.kind /\ r.supplier = e.supplier /\ r.app = e.app
        /\ r.session = e.session /\ r.service = e.service
        /\ r.over = correlateOverservice(evs, e)
    BY <1>2
  <2>2. /\ correlateOverservice(evs, e).marked <=>
              e.kind = "settled" /\ \E o \in Decoded : Concerns(o, e)
        /\ correlateOverservice(evs, e).marked =>
              \E o \in Decoded : Concerns(o, e) /\ correlateOverservice(evs, e).diff = Diff(o)
    BY CorrelationIs
  <2>3. MadeFrom(r, e)
    BY <2>1 DEF MadeFrom, SettlementKey
  <2> HIDE DEF e, r
  <2>4. SettlementOf(r, e)
    BY <2>1, <2>2, <2>3, Zenon DEF SettlementOf
  <2> QED
    BY <2>4 DEF e, r
<1>4. DOMAIN rows = DOMAIN claims
  BY <1>2
<1>5. /\ DOMAIN rows \subseteq Nat /\ DOMAIN rows = DOMAIN claims
      /\ \A i \in DOMAIN rows : /\ claims[i] \in Let(list) /\ claims[i].kind \in Claims
                                /\ SettlementOf(rows[i], claims[i])
      /\ \A e \in Let(list) : e.kind \in Claims => \E i \in DOMAIN rows : claims[i] = e
  BY <1>1, <1>3, <1>4, Zenon
<1> QED
  BY <1>5 DEF rows, claims

\* The reward rows written beside a settlement row are the shares of its claim.
LEMMA RewardRowsAre ==
  ASSUME NEW evs \in Seq(Universe), ToSet(evs) = Decoded, NEW list, NEW time
  PROVE  LET rows == SettlementRows(evs, list, time)
             claims == ClaimsOf(Filtered(evs, list))
             dists == RewardDists(Filtered(evs, list))
         IN  /\ DOMAIN dists = {i \in DOMAIN claims : claims[i].kind = "settled"}
             /\ \A i \in DOMAIN dists : RewardRows(rows, dists, i) = Shares(claims[i])
<1> DEFINE rows == SettlementRows(evs, list, time)
           claims == ClaimsOf(Filtered(evs, list))
           dists == RewardDists(Filtered(evs, list))
<1>1. dists = [i \in {i \in DOMAIN claims : claims[i].kind = "settled"} |-> claims[i].rewards]
  BY Zenon DEF RewardDists
<1>2. \A i \in DOMAIN claims : SettlementOf(rows[i], claims[i])
  BY SettlementRowsAre
<1> HIDE DEF rows, claims, dists
<1>3. DOMAIN dists = {i \in DOMAIN claims : claims[i].kind = "settled"}
  BY <1>1
<1>4. ASSUME NEW i \in DOMAIN dists PROVE RewardRows(rows, dists, i) = Shares(claims[i])
  <2>1. dists[i] = claims[i].rewards
    BY <1>1
  <2>2. SettlementKey(rows[i]) = SettlementKey(claims[i])
    BY <1>2, <1>3 DEF SettlementOf, MadeFrom
  <2> QED
    BY <2>1, <2>2 DEF RewardRows, Shares
<1> QED
  BY <1>3, <1>4 DEF rows, claims, dists

LEMMA OverserviceRowsAre ==
  ASSUME NEW evs \in Seq(Universe), ToSet(evs) = Decoded, NEW list, NEW time
  PROVE  LET rows == OverserviceRows(evs, list, time)
         IN  /\ DOMAIN rows \subseteq Nat
             /\ \A i \in DOMAIN rows : \E e \in Let(list) : OverserviceOf(rows[i], e)
             /\ \A e \in Let(list) : e.kind = "overserviced" =>
                  \E i \in DOMAIN rows : OverserviceKey(rows[i]) = OverserviceKey(e)
<1> DEFINE rows == OverserviceRows(evs, list, time)
           os == OfKinds(Filtered(evs, list), {"overserviced"})
<1>1. /\ DOMAIN os \subseteq Nat
      /\ \A i \in DOMAIN os : os[i] \in Let(list) /\ os[i].kind \in {"overserviced"}
      /\ \A e \in Let(list) : e.kind \in {"overserviced"} => \E i \in DOMAIN os : os[i] = e
  BY PassedIs
<1>2. rows = [i \in DOMAIN os |->
                [supplier |-> os[i].supplier, app |-> os[i].app, time |-> time,
                 diff |-> parseCoinAmount(os[i].expected) - parseCoinAmount(os[i].effective)]]
  BY Zenon DEF OverserviceRows
<1> HIDE DEF rows, os
<1>3. DOMAIN rows = DOMAIN os
  BY <1>2
<1>4. ASSUME NEW i \in DOMAIN os
      PROVE  /\ rows[i].supplier = os[i].supplier /\ rows[i].app = os[i].app
             /\ rows[i].diff = Diff(os[i])
  BY <1>2 DEF Diff
<1>5. \A i \in DOMAIN os : OverserviceOf(rows[i], os[i])
  BY <1>1, <1>4 DEF OverserviceOf
<1>6. \A i \in DOMAIN os : OverserviceKey(rows[i]) = OverserviceKey(os[i])
  BY <1>4 DEF OverserviceKey
<1>7. /\ DOMAIN rows \subseteq Nat
      /\ \A i \in DOMAIN rows : \E e \in Let(list) : OverserviceOf(rows[i], e)
      /\ \A e \in Let(list) : e.kind = "overserviced" =>
           \E i \in DOMAIN rows : OverserviceKey(rows[i]) = OverserviceKey(e)
  BY <1>1, <1>3, <1>5, <1>6
<1> QED
  BY <1>7 DEF rows

LEMMA ReimbursementRowsAre ==
  ASSUME NEW evs \in Seq(Universe), ToSet(evs) = Decoded, NEW list, NEW time
  PROVE  LET rows == ReimbursementRows(evs, list, time)
         IN  /\ DOMAIN rows \subseteq Nat
             /\ \A i \in DOMAIN rows : \E e \in Let(list) :
                  e.kind = "reimbursement" /\ ReimbursementKey(rows[i]) = ReimbursementKey(e)
             /\ \A e \in Let(list) : e.kind = "reimbursement" =>
                  \E i \in DOMAIN rows : ReimbursementKey(rows[i]) = ReimbursementKey(e)
<1> DEFINE rows == ReimbursementRows(evs, list, time)
           ms == OfKinds(Filtered(evs, list), {"reimbursement"})
<1>1. /\ DOMAIN ms \subseteq Nat
      /\ \A i \in DOMAIN ms : ms[i] \in Let(list) /\ ms[i].kind \in {"reimbursement"}
      /\ \A e \in Let(list) : e.kind \in {"reimbursement"} => \E i \in DOMAIN ms : ms[i] = e
  BY PassedIs
<1>2. rows = [i \in DOMAIN ms |->
                [supplier |-> ms[i].supplier, app |-> ms[i].app, session |-> ms[i].session,
                 time |-> time]]
  BY Zenon DEF ReimbursementRows
<1> HIDE DEF rows, ms
<1>3. DOMAIN rows = DOMAIN ms
  BY <1>2
<1>4. \A i \in DOMAIN ms : ReimbursementKey(rows[i]) = ReimbursementKey(ms[i])
  BY <1>2 DEF ReimbursementKey
<1>5. /\ DOMAIN rows \subseteq Nat
      /\ \A i \in DOMAIN rows : \E e \in Let(list) :
           e.kind = "reimbursement" /\ ReimbursementKey(rows[i]) = ReimbursementKey(e)
      /\ \A e \in Let(list) : e.kind = "reimbursement" =>
           \E i \in DOMAIN rows : ReimbursementKey(rows[i]) = ReimbursementKey(e)
  BY <1>1, <1>3, <1>4
<1> QED
  BY <1>5 DEF rows

\* The number the counter of a kind moves by, for a block no event of which repeats.
LEMMA NumberIs ==
  ASSUME NEW evs \in Seq(Universe), NEW list, NEW k,
         \A i, j \in DOMAIN evs : evs[i] = evs[j] => i = j
  PROVE  Len(OfKinds(Filtered(evs, list), {k})) = Cardinality(Counted(ToSet(evs), list, k))
<1> DEFINE f == Filtered(evs, list)
           I == {i \in DOMAIN evs : Match(list, evs[i].supplier)}
           J == {i \in DOMAIN f : f[i].kind \in {k}}
<1>1. f \in Seq(Universe) /\ ToSet(f) = {e \in ToSet(evs) : Match(list, e.supplier)}
  BY FilteredIs
<1>2. \A i, j \in DOMAIN f : f[i] = f[j] => i = j
  <2>1. I \in SUBSET DOMAIN evs /\ f = SelectAt(evs, I)
    BY DEF Filtered
  <2> HIDE DEF I, f
  <2>2. \A i, j \in DOMAIN SelectAt(evs, I) : SelectAt(evs, I)[i] = SelectAt(evs, I)[j] => i = j
    BY <2>1, Positions
  <2> QED
    BY <2>1, <2>2
<1> HIDE DEF f
<1>3. Len(OfKinds(f, {k})) = Cardinality(J)
  BY <1>1, OfKindsIs
<1>4. Cardinality(ElementsAt(f, J)) = Cardinality(J)
  <2>1. J \in SUBSET DOMAIN f
    OBVIOUS
  <2> HIDE DEF J
  <2>2. f \in Seq(Universe)
    BY <1>1
  <2> QED
    BY <1>2, <2>1, <2>2, Positions
<1>5. ElementsAt(f, J) = {e \in ToSet(f) : e.kind = k}
  BY DEF ToSet, ElementsAt
<1>6. {e \in ToSet(f) : e.kind = k} = Counted(ToSet(evs), list, k)
  BY <1>1 DEF Counted
<1> QED
  BY <1>3, <1>4, <1>5, <1>6 DEF f

-----------------------------------------------------------------------------
(* A transaction keeps what is said of the tables.                         *)

LEMMA WriterHas ==
  ASSUME Types, NEW w \in Writers, writers[w].phase # "idle"
  PROVE  writers[w].evs \in Seq(Universe) /\ ToSet(writers[w].evs) = Decoded
<1> DEFINE d == decodeBlockEvents(block)
<1>1. d \in Seq(Universe)
  BY DecodedIs DEF Types
<1>2. writers[w].evs \in {d, d \o d}
  BY DEF Types
<1>3. d \o d \in Seq(Universe) /\ ToSet(d \o d) = ToSet(d)
  <2> HIDE DEF d
  <2> QED
    BY <1>1, TwiceIs
<1>4. ToSet(d) = Decoded
  BY DEF Decoded
<1> HIDE DEF d
<1> QED
  BY <1>1, <1>2, <1>3, <1>4

LEMMA DueAfter ==
  ASSUME block' = block, committed' = committed \cup {suppliers}
  PROVE  Decoded' = Decoded /\ Due' = Due \cup Let(suppliers)
BY DEF Decoded, Due, Let

LEMMA SettlementsKept ==
  ASSUME NEW evs \in Seq(Universe), ToSet(evs) = Decoded, NEW time, SettlementsHold,
         Decoded' = Decoded, Due' = Due \cup Let(suppliers),
         settlements' = InsertRows("settlements", settlements,
                                   SettlementRows(evs, suppliers, time))
  PROVE  SettlementsHold'
<1> DEFINE rows == SettlementRows(evs, suppliers, time)
           claims == ClaimsOf(Filtered(evs, suppliers))
           name == "settlements"
           new == Inserted(name, settlements, rows)
           after == InsertRows(name, settlements, rows)
<1>1. /\ DOMAIN rows \subseteq Nat
      /\ \A i \in DOMAIN rows : /\ claims[i] \in Let(suppliers) /\ claims[i].kind \in Claims
                                /\ SettlementOf(rows[i], claims[i])
      /\ \A e \in Let(suppliers) : e.kind \in Claims => \E i \in DOMAIN rows : claims[i] = e
  BY SettlementRowsAre
<1>2. \A r : UniqueKey(name, r) = SettlementKey(r)
  BY UniqueKeyIs
<1>3. settlements' = after
  OBVIOUS
<1>4. OneRowPerKey(name, settlements)
  BY DEF SettlementsHold
<1> HIDE DEF rows, claims, name
<1>5. /\ settlements \subseteq after /\ new \subseteq DOMAIN rows
      /\ \A r \in after : r \in settlements \/ \E i \in new : r = rows[i]
      /\ \A i \in DOMAIN rows : \E r \in after : UniqueKey(name, r) = UniqueKey(name, rows[i])
      /\ OneRowPerKey(name, after)
  BY <1>1, <1>4, InsertIs
<1> HIDE DEF new, after
<1>6. \A r, e : SettlementOf(r, e)' <=> SettlementOf(r, e)
  BY DEF SettlementOf
<1>7. ASSUME NEW r \in settlements'
      PROVE  \E e \in Due' : e.kind \in Claims /\ SettlementOf(r, e)'
  <2>1. CASE r \in settlements
    <3>1. PICK e \in Due : e.kind \in Claims /\ SettlementOf(r, e)
      BY <2>1 DEF SettlementsHold
    <3> QED
      BY <1>6, <3>1
  <2>2. CASE \E i \in new : r = rows[i]
    <3>1. PICK i \in new : r = rows[i]
      BY <2>2
    <3>2. claims[i] \in Due' /\ claims[i].kind \in Claims /\ SettlementOf(r, claims[i])
      BY <1>1, <1>5, <3>1
    <3> QED
      BY <1>6, <3>2
  <2> QED
    BY <1>3, <1>5, <2>1, <2>2
<1>8. ASSUME NEW e \in Due', e.kind \in Claims
      PROVE  \E r \in settlements' : SettlementKey(r) = SettlementKey(e)
  <2>1. CASE e \in Due
    BY <1>3, <1>5, <1>8, <2>1 DEF SettlementsHold
  <2>2. CASE e \in Let(suppliers)
    <3>1. PICK i \in DOMAIN rows : claims[i] = e
      BY <1>1, <1>8, <2>2
    <3>2. SettlementKey(rows[i]) = SettlementKey(e)
      BY <1>1, <3>1 DEF SettlementOf, MadeFrom
    <3> QED
      BY <1>2, <1>3, <1>5, <3>2
  <2> QED
    BY <2>1, <2>2
<1>9. OneRowPerKey(name, settlements')
  BY <1>3, <1>5
<1> QED
  BY <1>7, <1>8, <1>9 DEF SettlementsHold, name, OneRowPerKey

LEMMA RewardsKept ==
  ASSUME NEW evs \in Seq(Universe), ToSet(evs) = Decoded, NEW time, RewardsHold,
         Due' = Due \cup Let(suppliers),
         settlements' = InsertRows("settlements", settlements,
                                   SettlementRows(evs, suppliers, time)),
         rewards' = InsertRewards(SettlementRows(evs, suppliers, time),
                                  RewardDists(Filtered(evs, suppliers)))
  PROVE  RewardsHold'
<1> DEFINE rows == SettlementRows(evs, suppliers, time)
           claims == ClaimsOf(Filtered(evs, suppliers))
           dists == RewardDists(Filtered(evs, suppliers))
           new == Inserted("settlements", settlements, rows)
           after == InsertRows("settlements", settlements, rows)
<1>1. /\ DOMAIN rows \subseteq Nat /\ DOMAIN rows = DOMAIN claims
      /\ \A i \in DOMAIN rows : /\ claims[i] \in Let(suppliers) /\ claims[i].kind \in Claims
                                /\ SettlementOf(rows[i], claims[i])
  BY SettlementRowsAre
<1>2. /\ DOMAIN dists = {i \in DOMAIN claims : claims[i].kind = "settled"}
      /\ \A i \in DOMAIN dists : RewardRows(rows, dists, i) = Shares(claims[i])
  BY RewardRowsAre
<1>3. rewards' = rewards \cup UNION {RewardRows(rows, dists, i) : i \in DOMAIN dists \cap new}
  BY Zenon DEF InsertRewards
<1>4. settlements' = after
  OBVIOUS
<1>5. /\ settlements \subseteq after /\ new \subseteq DOMAIN rows
      /\ \A r \in after : r \in settlements \/ \E i \in new : r = rows[i]
      /\ \A i \in new : rows[i] \in after
  <2> DEFINE name == "settlements"
  <2> HIDE DEF name, rows
  <2>1. /\ settlements \subseteq InsertRows(name, settlements, rows)
        /\ Inserted(name, settlements, rows) \subseteq DOMAIN rows
        /\ \A r \in InsertRows(name, settlements, rows) :
             r \in settlements \/ \E i \in Inserted(name, settlements, rows) : r = rows[i]
        /\ \A i \in Inserted(name, settlements, rows) :
             rows[i] \in InsertRows(name, settlements, rows)
    BY <1>1, InsertIs
  <2> QED
    BY <2>1 DEF name
<1> HIDE DEF rows, claims, dists, new, after
<1>6. ASSUME NEW v \in rewards'
      PROVE  \E r \in settlements', e \in Due' :
               e.kind = "settled" /\ MadeFrom(r, e) /\ v \in Shares(e)
  <2>1. CASE v \in rewards
    <3>1. PICK r \in settlements, e \in Due :
                 e.kind = "settled" /\ MadeFrom(r, e) /\ v \in Shares(e)
      BY <2>1 DEF RewardsHold
    <3>2. r \in settlements' /\ e \in Due'
      BY <1>4, <1>5
    <3> QED
      BY <3>1, <3>2
  <2>2. CASE \E i \in DOMAIN dists \cap new : v \in RewardRows(rows, dists, i)
    <3>1. PICK i \in DOMAIN dists \cap new : v \in RewardRows(rows, dists, i)
      BY <2>2
    <3>2. /\ rows[i] \in settlements' /\ claims[i] \in Due'
          /\ claims[i].kind = "settled" /\ MadeFrom(rows[i], claims[i])
          /\ v \in Shares(claims[i])
      BY <1>1, <1>2, <1>4, <1>5, <3>1 DEF SettlementOf
    <3> QED
      BY <3>2
  <2>3. v \in rewards \/ \E i \in DOMAIN dists \cap new : v \in RewardRows(rows, dists, i)
    BY <1>3, Zenon
  <2> QED
    BY <2>1, <2>2, <2>3
<1>7. ASSUME NEW r \in settlements', r.kind = "settled"
      PROVE  \E e \in Due' : e.kind = "settled" /\ MadeFrom(r, e) /\ Shares(e) \subseteq rewards'
  <2>1. CASE r \in settlements
    <3>1. PICK e \in Due : e.kind = "settled" /\ MadeFrom(r, e) /\ Shares(e) \subseteq rewards
      BY <1>7, <2>1 DEF RewardsHold
    <3>2. e \in Due' /\ Shares(e) \subseteq rewards'
      BY <1>3, <3>1
    <3> QED
      BY <3>1, <3>2
  <2>2. CASE \E i \in new : r = rows[i]
    <3>1. PICK i \in new : r = rows[i]
      BY <2>2
    <3>2. claims[i] \in Due' /\ MadeFrom(r, claims[i])
      BY <1>1, <1>5, <3>1 DEF SettlementOf
    <3>3. claims[i].kind = "settled"
      BY <1>7, <3>2 DEF MadeFrom, SettlementKey
    <3>4. i \in DOMAIN dists \cap new /\ RewardRows(rows, dists, i) = Shares(claims[i])
      BY <1>1, <1>2, <1>5, <3>1, <3>3
    <3>5. Shares(claims[i]) \subseteq rewards'
      BY <1>3, <3>4, Zenon
    <3> QED
      BY <3>2, <3>3, <3>5
  <2> QED
    BY <1>4, <1>5, <2>1, <2>2
<1> QED
  BY <1>6, <1>7 DEF RewardsHold

LEMMA OverservicesKept ==
  ASSUME NEW evs \in Seq(Universe), ToSet(evs) = Decoded, NEW time, OverservicesHold,
         Due' = Due \cup Let(suppliers),
         overservices' = InsertRows("overservice_events", overservices,
                                    OverserviceRows(evs, suppliers, time))
  PROVE  OverservicesHold'
<1> DEFINE rows == OverserviceRows(evs, suppliers, time)
           name == "overservice_events"
           after == InsertRows(name, overservices, rows)
<1>1. /\ DOMAIN rows \subseteq Nat
      /\ \A i \in DOMAIN rows : \E e \in Let(suppliers) : OverserviceOf(rows[i], e)
      /\ \A e \in Let(suppliers) : e.kind = "overserviced" =>
           \E i \in DOMAIN rows : OverserviceKey(rows[i]) = OverserviceKey(e)
  BY OverserviceRowsAre
<1>2. \A r : UniqueKey(name, r) = OverserviceKey(r)
  BY UniqueKeyIs
<1>3. overservices' = after
  OBVIOUS
<1>4. OneRowPerKey(name, overservices)
  BY DEF OverservicesHold
<1> HIDE DEF rows, name
<1>5. /\ overservices \subseteq after
      /\ \A r \in after : r \in overservices \/ \E i \in DOMAIN rows : r = rows[i]
      /\ \A i \in DOMAIN rows : \E r \in after : UniqueKey(name, r) = UniqueKey(name, rows[i])
      /\ OneRowPerKey(name, after)
  BY <1>1, <1>4, InsertIs
<1> HIDE DEF after
<1>6. \A r \in overservices' : \E e \in Due' : OverserviceOf(r, e)
  BY <1>1, <1>3, <1>5 DEF OverservicesHold
<1>7. \A e \in Due' : e.kind = "overserviced" =>
        \E r \in overservices' : OverserviceKey(r) = OverserviceKey(e)
  BY <1>1, <1>2, <1>3, <1>5 DEF OverservicesHold
<1> QED
  BY <1>3, <1>5, <1>6, <1>7 DEF OverservicesHold, name, OneRowPerKey

LEMMA ReimbursementsKept ==
  ASSUME NEW evs \in Seq(Universe), ToSet(evs) = Decoded, NEW time, ReimbursementsHold,
         Due' = Due \cup Let(suppliers),
         reimbursements' = InsertRows("reimbursement_events", reimbursements,
                                      ReimbursementRows(evs, suppliers, time))
  PROVE  ReimbursementsHold'
<1> DEFINE rows == ReimbursementRows(evs, suppliers, time)
           name == "reimbursement_events"
           after == InsertRows(name, reimbursements, rows)
<1>1. /\ DOMAIN rows \subseteq Nat
      /\ \A i \in DOMAIN rows : \E e \in Let(suppliers) :
           e.kind = "reimbursement" /\ ReimbursementKey(rows[i]) = ReimbursementKey(e)
      /\ \A e \in Let(suppliers) : e.kind = "reimbursement" =>
           \E i \in DOMAIN rows : ReimbursementKey(rows[i]) = ReimbursementKey(e)
  BY ReimbursementRowsAre
<1>2. \A r : UniqueKey(name, r) = ReimbursementKey(r)
  BY UniqueKeyIs
<1>3. reimbursements' = after
  OBVIOUS
<1> HIDE DEF rows, name
<1>4. /\ reimbursements \subseteq after
      /\ \A r \in after : r \in reimbursements \/ \E i \in DOMAIN rows : r = rows[i]
      /\ \A i \in DOMAIN rows : \E r \in after : UniqueKey(name, r) = UniqueKey(name, rows[i])
  BY <1>1, InsertIs
<1> HIDE DEF after
<1>5. ASSUME NEW r \in reimbursements'
      PROVE  \E e \in Due' : e.kind = "reimbursement" /\ ReimbursementKey(r) = ReimbursementKey(e)
  <2>1. CASE r \in reimbursements
    BY <2>1 DEF ReimbursementsHold
  <2>2. CASE \E i \in DOMAIN rows : r = rows[i]
    BY <1>1, <2>2
  <2> QED
    BY <1>3, <1>4, <2>1, <2>2
<1>6. ASSUME NEW e \in Due', e.kind = "reimbursement"
      PROVE  \E r \in reimbursements' : ReimbursementKey(r) = ReimbursementKey(e)
  <2>1. CASE e \in Due
    BY <1>3, <1>4, <1>6, <2>1 DEF ReimbursementsHold
  <2>2. CASE e \in Let(suppliers)
    BY <1>1, <1>2, <1>3, <1>4, <1>6, <2>2
  <2> QED
    BY <2>1, <2>2
<1> QED
  BY <1>5, <1>6 DEF ReimbursementsHold

-----------------------------------------------------------------------------
(* The invariant holds.                                                    *)

LEMMA InitIInv == Init => IInv
<1> SUFFICES ASSUME Init PROVE IInv
  OBVIOUS
<1>1. block \in Seq(Universe)
  BY DEF Init, SeqOf
<1>2. Types
  BY <1>1 DEF Init, Types, Idle, Times
<1>3. Due = {}
  BY DEF Init, Due
<1>4. TablesHold
  BY <1>3 DEF Init, TablesHold, SettlementsHold, RewardsHold, OverservicesHold,
     ReimbursementsHold, ProcessedHolds, OneRowPerKey
<1>5. CountersHold
  BY DEF Init, CountersHold
<1> QED
  BY <1>2, <1>4, <1>5 DEF IInv

LEMMA TablesSame ==
  ASSUME TablesHold, block' = block, committed' = committed, UNCHANGED tables
  PROVE  TablesHold'
<1>1. Decoded' = Decoded /\ Due' = Due
  BY DEF Decoded, Due
<1>2. /\ settlements' = settlements /\ rewards' = rewards /\ overservices' = overservices
      /\ reimbursements' = reimbursements /\ processed' = processed
  BY DEF tables
<1>3. \A r, e : SettlementOf(r, e)' <=> SettlementOf(r, e)
  BY <1>1 DEF SettlementOf
<1>4. SettlementsHold'
  BY <1>1, <1>2, <1>3 DEF TablesHold, SettlementsHold, OneRowPerKey
<1>5. RewardsHold'
  BY <1>1, <1>2 DEF TablesHold, RewardsHold
<1>6. OverservicesHold' /\ ReimbursementsHold'
  BY <1>1, <1>2 DEF TablesHold, OverservicesHold, ReimbursementsHold, OneRowPerKey
<1>7. ProcessedHolds'
  BY <1>2 DEF TablesHold, ProcessedHolds
<1> QED
  BY <1>4, <1>5, <1>6, <1>7 DEF TablesHold

LEMMA CountersSame ==
  ASSUME CountersHold, block' = block, suppliers' = suppliers, counters' = counters,
         dispatched' = dispatched, committed \subseteq committed'
  PROVE  CountersHold'
<1>1. (DistinctKeys' <=> DistinctKeys) /\ \A k : Passing(k)' = Passing(k)
  BY DEF DistinctKeys, Passing, Decoded
<1> QED
  BY <1>1 DEF CountersHold

LEMMA CallKeeps ==
  ASSUME IInv, NEW w \in Writers, CallProcessBlock(w)
  PROVE  IInv'
<1> DEFINE d == decodeBlockEvents(block)
<1>1. block \in Seq(Universe) /\ d \in Seq(Universe)
  BY DecodedIs DEF IInv, Types
<1>2. d \o d \in Seq(Universe)
  <2> HIDE DEF d
  <2> QED
    BY <1>1, TwiceIs
<1>3. PICK es \in {d, d \o d}, time \in Times :
        writers' = [writers EXCEPT ![w] = [phase |-> "inserting", evs |-> es, time |-> time]]
  BY DEF CallProcessBlock, Times
<1>4. /\ block' = block /\ suppliers' = suppliers /\ counters' = counters
      /\ dispatched' = dispatched /\ committed' = committed /\ UNCHANGED tables
  BY DEF CallProcessBlock
<1>5. decodeBlockEvents(block)' = d
  BY <1>4
<1>6. es \in Seq(Universe)
  <2> HIDE DEF d
  <2> QED
    BY <1>1, <1>2
<1>7. Types'
  <2>1. /\ writers' \in [Writers -> [phase : {"idle", "inserting", "stored"},
                                    evs : Seq(Universe), time : Times]]
        /\ \A v \in Writers \ {w} : writers'[v] = writers[v]
        /\ writers'[w].phase = "inserting" /\ writers'[w].evs = es
    BY <1>3, <1>6 DEF IInv, Types
  <2> QED
    BY <1>1, <1>3, <1>4, <1>5, <2>1 DEF IInv, Types
<1>8. TablesHold' /\ CountersHold'
  BY <1>4, TablesSame, CountersSame DEF IInv
<1> QED
  BY <1>7, <1>8 DEF IInv

LEMMA InsertKeeps ==
  ASSUME IInv, NEW w \in Writers, InsertBlockEvents(w)
  PROVE  IInv'
<1> DEFINE evs == writers[w].evs
           time == writers[w].time
           row == [count |-> Len(Filtered(evs, suppliers)), time |-> time,
                   source |-> IF IsLive(w) THEN "live" ELSE "backfill"]
<1>1. /\ writers[w].phase = "inserting"
      /\ block' = block /\ suppliers' = suppliers /\ counters' = counters
      /\ dispatched' = dispatched /\ committed' = committed \cup {suppliers}
      /\ writers' = [writers EXCEPT ![w].phase = "stored"]
  BY DEF InsertBlockEvents
<1>2. evs \in Seq(Universe) /\ ToSet(evs) = Decoded
  BY <1>1, WriterHas DEF IInv
<1>3. Decoded' = Decoded /\ Due' = Due \cup Let(suppliers)
  BY <1>1, DueAfter
<1>4. /\ settlements' = InsertRows("settlements", settlements,
                                   SettlementRows(evs, suppliers, time))
      /\ rewards' = InsertRewards(SettlementRows(evs, suppliers, time),
                                  RewardDists(Filtered(evs, suppliers)))
      /\ overservices' = InsertRows("overservice_events", overservices,
                                    OverserviceRows(evs, suppliers, time))
      /\ reimbursements' = InsertRows("reimbursement_events", reimbursements,
                                      ReimbursementRows(evs, suppliers, time))
      /\ processed' = InsertProcessedBlock(row)
  BY Zenon DEF InsertBlockEvents
<1>5. Types'
  <2>1. /\ writers' \in [Writers -> [phase : {"idle", "inserting", "stored"},
                                    evs : Seq(Universe), time : Times]]
        /\ \A v \in Writers \ {w} : writers'[v] = writers[v]
        /\ writers'[w].phase = "stored" /\ writers'[w].evs = evs
    BY <1>1 DEF IInv, Types
  <2>2. decodeBlockEvents(block)' = decodeBlockEvents(block)
    BY <1>1
  <2> HIDE DEF evs
  <2>3. evs \in {decodeBlockEvents(block), decodeBlockEvents(block) \o decodeBlockEvents(block)}
    BY <1>1 DEF IInv, Types, evs
  <2> QED
    BY <1>1, <2>1, <2>2, <2>3 DEF IInv, Types
<1> HIDE DEF evs, time, row
<1>6. SettlementsHold /\ RewardsHold /\ OverservicesHold /\ ReimbursementsHold /\ ProcessedHolds
  BY DEF IInv, TablesHold
<1>7. SettlementsHold'
  BY <1>2, <1>3, <1>4, <1>6, SettlementsKept
<1>8. RewardsHold'
  BY <1>2, <1>3, <1>4, <1>6, RewardsKept
<1>9. OverservicesHold'
  BY <1>2, <1>3, <1>4, <1>6, OverservicesKept
<1>10. ReimbursementsHold'
  BY <1>2, <1>3, <1>4, <1>6, ReimbursementsKept
<1>11. ProcessedHolds'
  BY <1>1, <1>4, <1>6 DEF ProcessedHolds, InsertProcessedBlock
<1>12. CountersHold'
  BY <1>1, CountersSame DEF IInv
<1> QED
  BY <1>5, <1>7, <1>8, <1>9, <1>10, <1>11, <1>12 DEF IInv, TablesHold

LEMMA FailKeeps ==
  ASSUME IInv, NEW w \in Writers, InsertFails(w)
  PROVE  IInv'
<1>1. /\ block' = block /\ suppliers' = suppliers /\ counters' = counters
      /\ dispatched' = dispatched /\ committed' = committed /\ UNCHANGED tables
      /\ writers' = [writers EXCEPT ![w] = Idle]
  BY DEF InsertFails
<1>2. <<>> \in Seq(Universe)
  BY EmptySeq
<1>3. Types'
  <2>1. Idle \in [phase : {"idle", "inserting", "stored"}, evs : Seq(Universe), time : Times]
        /\ Idle.phase = "idle"
    BY <1>2 DEF Idle, Times
  <2>2. /\ writers' \in [Writers -> [phase : {"idle", "inserting", "stored"},
                                    evs : Seq(Universe), time : Times]]
        /\ \A v \in Writers \ {w} : writers'[v] = writers[v]
        /\ writers'[w].phase = "idle"
    BY <1>1, <2>1 DEF IInv, Types
  <2>3. decodeBlockEvents(block)' = decodeBlockEvents(block)
    BY <1>1
  <2> QED
    BY <1>1, <2>2, <2>3 DEF IInv, Types
<1>4. TablesHold' /\ CountersHold'
  BY <1>1, TablesSame, CountersSame DEF IInv
<1> QED
  BY <1>3, <1>4 DEF IInv

\* No event of the block repeats when the keys tell its events apart.
LEMMA NoneRepeats ==
  ASSUME DistinctKeys
  PROVE  LET d == decodeBlockEvents(block) IN \A i, j \in DOMAIN d : d[i] = d[j] => i = j
BY DEF DistinctKeys

LEMMA DispatchKeeps ==
  ASSUME IInv, NEW w \in Writers, dispatchMetrics(w)
  PROVE  IInv'
<1> DEFINE evs == writers[w].evs
           d == decodeBlockEvents(block)
           Number(k) == Len(OfKinds(Filtered(evs, suppliers), {k}))
<1>1. /\ writers[w].phase = "stored"
      /\ block' = block /\ suppliers' = suppliers /\ committed' = committed
      /\ UNCHANGED tables /\ writers' = [writers EXCEPT ![w] = Idle]
  BY DEF dispatchMetrics
<1>2. /\ counters' = IF IsLive(w) THEN [k \in DOMAIN counters |-> counters[k] + Number(k)]
                     ELSE counters
      /\ dispatched' = IF ~IsLive(w) THEN dispatched
                       ELSE IF evs = d THEN dispatched + 1 ELSE dispatched + 2
  BY Zenon DEF dispatchMetrics
<1>3. evs \in Seq(Universe) /\ ToSet(evs) = Decoded
  BY <1>1, WriterHas DEF IInv
<1>4. ASSUME NEW k PROVE Number(k) \in Nat
  <2>1. Filtered(evs, suppliers) \in Seq(Universe)
    BY <1>3, FilteredIs
  <2>2. OfKinds(Filtered(evs, suppliers), {k}) \in Seq(Universe)
    BY <2>1, OfKindsIs
  <2> QED
    BY <2>2, LenProperties
<1>5. suppliers \in committed
  BY <1>1 DEF IInv, Types
<1>6. DistinctKeys /\ evs = d => \A k : Number(k) = Cardinality(Passing(k))
  <2> SUFFICES ASSUME DistinctKeys, evs = d, NEW k
               PROVE  Number(k) = Cardinality(Passing(k))
    OBVIOUS
  <2>1. \A i, j \in DOMAIN evs : evs[i] = evs[j] => i = j
    <3> HIDE DEF evs
    <3> QED
      BY NoneRepeats
  <2>2. Passing(k) = Counted(ToSet(evs), suppliers, k)
    BY <1>3 DEF Passing
  <2> HIDE DEF evs, d
  <2>3. Len(OfKinds(Filtered(evs, suppliers), {k})) =
          Cardinality(Counted(ToSet(evs), suppliers, k))
    BY <1>3, <2>1, NumberIs
  <2> QED
    BY <2>2, <2>3
<1> HIDE DEF Number
<1>7. Types'
  <2>1. <<>> \in Seq(Universe)
    BY EmptySeq
  <2>2. Idle \in [phase : {"idle", "inserting", "stored"}, evs : Seq(Universe), time : Times]
        /\ Idle.phase = "idle"
    BY <2>1 DEF Idle, Times
  <2>3. /\ writers' \in [Writers -> [phase : {"idle", "inserting", "stored"},
                                    evs : Seq(Universe), time : Times]]
        /\ \A v \in Writers \ {w} : writers'[v] = writers[v]
        /\ writers'[w].phase = "idle"
    BY <1>1, <2>2 DEF IInv, Types
  <2>4. decodeBlockEvents(block)' = decodeBlockEvents(block)
    BY <1>1
  <2>5. dispatched' \in Nat /\ counters' \in [Claims \cup {"overserviced"} -> Nat]
    BY <1>2, <1>4 DEF IInv, Types
  <2> QED
    BY <1>1, <2>3, <2>4, <2>5 DEF IInv, Types
<1>8. TablesHold'
  BY <1>1, TablesSame DEF IInv
<1>9. CountersHold'
  <2>1. CASE ~IsLive(w)
    BY <1>1, <1>2, <2>1, CountersSame DEF IInv
  <2>2. CASE IsLive(w)
    <3>1. dispatched \in Nat /\ counters \in [Claims \cup {"overserviced"} -> Nat]
      BY DEF IInv, Types
    <3>2. /\ DOMAIN counters' = DOMAIN counters
          /\ \A k \in DOMAIN counters : counters'[k] = counters[k] + Number(k)
      BY <1>2, <2>2
    <3>3. dispatched' # 0 /\ (dispatched' = 1 => dispatched = 0 /\ evs = d)
      BY <1>2, <2>2, <3>1
    <3>4. (DistinctKeys' <=> DistinctKeys) /\ \A k : Passing(k)' = Passing(k)
      BY <1>1 DEF DistinctKeys, Passing, Decoded
    <3>5. ASSUME DistinctKeys, dispatched' = 1, NEW k \in DOMAIN counters
          PROVE  counters'[k] = Cardinality(Passing(k))
      <4>1. counters[k] = 0
        BY <3>3, <3>5 DEF IInv, CountersHold
      <4>2. Number(k) = Cardinality(Passing(k)) /\ Number(k) \in Nat
        BY <1>4, <1>6, <3>3, <3>5
      <4> QED
        BY <3>2, <4>1, <4>2
    <3> QED
      BY <1>1, <1>5, <3>2, <3>3, <3>4, <3>5 DEF CountersHold
  <2> QED
    BY <2>1, <2>2
<1> QED
  BY <1>7, <1>8, <1>9 DEF IInv

LEMMA RestartKeeps ==
  ASSUME IInv, Restart
  PROVE  IInv'
<1>1. /\ block' = block /\ committed' = committed /\ UNCHANGED tables
      /\ writers' = [v \in Writers |-> Idle]
      /\ counters' = [k \in DOMAIN counters |-> 0] /\ dispatched' = 0
  BY DEF Restart
<1>2. <<>> \in Seq(Universe)
  BY EmptySeq
<1>3. Types'
  <2>1. Idle \in [phase : {"idle", "inserting", "stored"}, evs : Seq(Universe), time : Times]
        /\ Idle.phase = "idle"
    BY <1>2 DEF Idle, Times
  <2>2. /\ writers' \in [Writers -> [phase : {"idle", "inserting", "stored"},
                                    evs : Seq(Universe), time : Times]]
        /\ \A v \in Writers : writers'[v].phase = "idle"
    BY <1>1, <2>1 DEF IInv, Types
  <2> QED
    BY <1>1, <2>2 DEF IInv, Types
<1>4. TablesHold'
  BY <1>1, TablesSame DEF IInv
<1>5. CountersHold'
  BY <1>1 DEF CountersHold
<1> QED
  BY <1>3, <1>4, <1>5 DEF IInv

LEMMA StutterKeeps ==
  ASSUME IInv, UNCHANGED vars
  PROVE  IInv'
<1>1. /\ block' = block /\ suppliers' = suppliers /\ counters' = counters /\ writers' = writers
      /\ dispatched' = dispatched /\ committed' = committed /\ UNCHANGED tables
  BY DEF vars
<1>2. decodeBlockEvents(block)' = decodeBlockEvents(block)
  BY <1>1
<1>3. Types'
  BY <1>1, <1>2 DEF IInv, Types
<1> QED
  BY <1>1, <1>3, TablesSame, CountersSame DEF IInv

LEMMA NextIInv == IInv /\ [Next]_vars => IInv'
<1> SUFFICES ASSUME IInv, [Next]_vars PROVE IInv'
  OBVIOUS
<1>1. CASE \E w \in Writers : CallProcessBlock(w)
  BY <1>1, CallKeeps
<1>2. CASE \E w \in Writers : InsertBlockEvents(w)
  BY <1>2, InsertKeeps
<1>3. CASE \E w \in Writers : InsertFails(w)
  BY <1>3, FailKeeps
<1>4. CASE \E w \in Writers : dispatchMetrics(w)
  BY <1>4, DispatchKeeps
<1>5. CASE Restart
  BY <1>5, RestartKeeps
<1>6. CASE Finished \/ UNCHANGED vars
  BY <1>6, StutterKeeps DEF Finished
<1> QED
  BY <1>1, <1>2, <1>3, <1>4, <1>5, <1>6 DEF Next

LEMMA Invariance == Spec => []IInv
BY InitIInv, NextIInv, PTL DEF Spec

-----------------------------------------------------------------------------
(* What follows from it.                                                   *)

LEMMA DecodedFinite ==
  ASSUME Types
  PROVE  Decoded \subseteq Universe /\ IsFiniteSet(Decoded) /\ Due \subseteq Decoded
<1>1. decodeBlockEvents(block) \in Seq(Universe)
  BY DecodedIs DEF Types
<1>2. Decoded \subseteq Universe
  BY <1>1, SeqDomain DEF Decoded
<1> QED
  BY <1>2, FS_Subset, BlockEventsAssumption DEF Due

LEMMA KeysApart ==
  ASSUME DistinctKeys, NEW d \in Decoded, NEW e \in Decoded,
         d.kind = e.kind, d.supplier = e.supplier, d.app = e.app,
         d.kind # "overserviced" => d.session = e.session
  PROVE  d = e
<1> DEFINE evs == decodeBlockEvents(block)
<1>1. PICK i \in DOMAIN evs, j \in DOMAIN evs : evs[i] = d /\ evs[j] = e
  BY DEF Decoded, ToSet
<1> QED
  BY <1>1 DEF DistinctKeys

\* Sets in a one-to-one relation have as many elements.
LEMMA SameNumber ==
  ASSUME NEW E, NEW R, NEW G, IsFiniteSet(E),
         \A e \in E : \E r \in R : <<e, r>> \in G,
         \A r \in R : \E e \in E : <<e, r>> \in G,
         \A e \in E, q, r \in R : <<e, q>> \in G /\ <<e, r>> \in G => q = r,
         \A d, e \in E, r \in R : <<d, r>> \in G /\ <<e, r>> \in G => d = e
  PROVE  Cardinality(R) = Cardinality(E)
<1> DEFINE f == [e \in E |-> CHOOSE r \in R : <<e, r>> \in G]
<1>1. \A e \in E : f[e] \in R /\ <<e, f[e]>> \in G
  OBVIOUS
<1>2. f \in [E -> R]
  BY <1>1
<1> HIDE DEF f
<1>3. \A r \in R : \E e \in E : f[e] = r
  BY <1>1
<1>4. \A d, e \in E : f[d] = f[e] => d = e
  BY <1>1
<1>5. f \in Bijection(E, R)
  BY <1>2, <1>3, <1>4 DEF Bijection, Injection, Surjection, IsInjective
<1>6. ExistsBijection(E, R)
  BY <1>5 DEF ExistsBijection
<1> QED
  BY <1>6, FS_Bijection

\* The row of an event that is due is made from that very event.
LEMMA OwnRow ==
  ASSUME IInv, DistinctKeys, NEW e \in Due, e.kind \in Claims, NEW r \in settlements,
         SettlementKey(r) = SettlementKey(e)
  PROVE  MadeFrom(r, e)
<1>1. PICK d \in Due : d.kind \in Claims /\ MadeFrom(r, d)
  BY DEF IInv, TablesHold, SettlementsHold, SettlementOf
<1>2. d \in Decoded /\ e \in Decoded
  BY DecodedFinite DEF IInv
<1>3. d.kind = e.kind /\ d.supplier = e.supplier /\ d.app = e.app /\ d.session = e.session
  BY <1>1 DEF MadeFrom, SettlementKey
<1>4. d = e
  BY <1>2, <1>3, KeysApart
<1> QED
  BY <1>1, <1>4

LEMMA StoredExactlyFollows == IInv => StoredExactly
<1> SUFFICES ASSUME IInv PROVE StoredExactly
  OBVIOUS
<1>1. Cardinality(processed) = IF committed = {} THEN 0 ELSE 1
  <2>1. CASE processed = {}
    BY <2>1, FS_EmptySet DEF IInv, TablesHold, ProcessedHolds
  <2>2. CASE processed # {}
    <3>1. PICK p : p \in processed
      BY <2>2
    <3>2. processed = {p} /\ committed # {}
      BY <3>1 DEF IInv, TablesHold, ProcessedHolds
    <3> QED
      BY <3>2, FS_Singleton
  <2> QED
    BY <2>1, <2>2
<1>2. Decoded \subseteq Universe /\ IsFiniteSet(Decoded) /\ Due \subseteq Decoded
  BY DecodedFinite DEF IInv
<1>3. /\ \A r \in settlements : \E e \in Due : e.kind \in Claims /\ MadeFrom(r, e)
      /\ \A e \in Due : e.kind \in Claims =>
           \E r \in settlements : SettlementKey(r) = SettlementKey(e)
      /\ \A q, r \in settlements : SettlementKey(q) = SettlementKey(r) => q = r
  BY UniqueKeyIs DEF IInv, TablesHold, SettlementsHold, SettlementOf, OneRowPerKey
<1> SUFFICES ASSUME DistinctKeys
             PROVE
       /\ \A e \in Due : e.kind \in Claims => \E r \in settlements : MadeFrom(r, e)
       /\ Cardinality(settlements) = Cardinality({e \in Due : e.kind \in Claims})
       /\ {[of |-> r.of, address |-> r.address, amount |-> r.amount] : r \in rewards} =
            UNION {Shares(e) : e \in {e \in Due : e.kind = "settled"}}
       /\ {<<r.supplier, r.app, r.diff>> : r \in overservices} =
            {<<e.supplier, e.app, Diff(e)>> : e \in {e \in Due : e.kind = "overserviced"}}
       /\ {ReimbursementKey(r) : r \in reimbursements} =
            {ReimbursementKey(e) : e \in {e \in Due : e.kind = "reimbursement"}}
  BY <1>1 DEF StoredExactly, Shares
<1>4. \A e \in Due : e.kind \in Claims => \E r \in settlements : MadeFrom(r, e)
  BY <1>3, OwnRow
<1>5. Cardinality(settlements) = Cardinality({e \in Due : e.kind \in Claims})
  <2> DEFINE E == {e \in Due : e.kind \in Claims}
             G == {p \in E \X settlements : SettlementKey(p[2]) = SettlementKey(p[1])}
  <2>1. IsFiniteSet(E)
    BY <1>2, FS_Subset
  <2>2. \A e \in E, r \in settlements :
          <<e, r>> \in G <=> SettlementKey(r) = SettlementKey(e)
    OBVIOUS
  <2>3. \A e \in E : e \in Due /\ e.kind \in Claims
    OBVIOUS
  <2>4. \A r \in settlements : \E e \in E : SettlementKey(r) = SettlementKey(e)
    BY <1>3 DEF MadeFrom
  <2> HIDE DEF E, G
  <2>5. \A d, e \in E : SettlementKey(d) = SettlementKey(e) => d = e
    <3> SUFFICES ASSUME NEW d \in E, NEW e \in E, SettlementKey(d) = SettlementKey(e)
                 PROVE  d = e
      OBVIOUS
    <3>1. d.kind = e.kind /\ d.supplier = e.supplier /\ d.app = e.app /\ d.session = e.session
      BY DEF SettlementKey
    <3> QED
      BY <1>2, <2>3, <3>1, KeysApart
  <2>6. /\ \A e \in E : \E r \in settlements : <<e, r>> \in G
        /\ \A r \in settlements : \E e \in E : <<e, r>> \in G
    BY <1>3, <2>2, <2>3, <2>4
  <2>7. \A e \in E, q, r \in settlements : <<e, q>> \in G /\ <<e, r>> \in G => q = r
    BY <1>3, <2>2
  <2>8. \A d, e \in E, r \in settlements : <<d, r>> \in G /\ <<e, r>> \in G => d = e
    BY <2>2, <2>5
  <2>9. Cardinality(settlements) = Cardinality(E)
    BY <2>1, <2>6, <2>7, <2>8, SameNumber
  <2> QED
    BY <2>9 DEF E
<1>6. {[of |-> r.of, address |-> r.address, amount |-> r.amount] : r \in rewards} =
        UNION {Shares(e) : e \in {e \in Due : e.kind = "settled"}}
  <2> DEFINE E == {e \in Due : e.kind = "settled"}
             Row(r) == [of |-> r.of, address |-> r.address, amount |-> r.amount]
  <2>1. ASSUME NEW v \in rewards
        PROVE  Row(v) = v /\ \E e \in E : v \in Shares(e)
    <3>1. PICK e \in Due : e.kind = "settled" /\ v \in Shares(e)
      BY DEF IInv, TablesHold, RewardsHold
    <3>2. PICK d \in e.rewards :
            v = [of |-> SettlementKey(e), address |-> d.address, amount |-> d.amount]
      BY <3>1 DEF Shares
    <3>3. Row(v) = v
      BY <3>2
    <3> QED
      BY <3>1, <3>3
  <2>2. ASSUME NEW e \in E PROVE Shares(e) \subseteq rewards
    <3>1. e \in Due /\ e.kind = "settled" /\ e.kind \in Claims
      BY DEF Claims
    <3>2. PICK r \in settlements : SettlementKey(r) = SettlementKey(e)
      BY <1>3, <3>1
    <3>3. r.kind = "settled"
      BY <3>1, <3>2 DEF SettlementKey
    <3>4. PICK d \in Due : d.kind = "settled" /\ MadeFrom(r, d) /\ Shares(d) \subseteq rewards
      BY <3>3 DEF IInv, TablesHold, RewardsHold
    <3>5. d.kind = e.kind /\ d.supplier = e.supplier /\ d.app = e.app /\ d.session = e.session
      BY <3>2, <3>4 DEF MadeFrom, SettlementKey
    <3>6. d = e
      BY <1>2, <3>1, <3>4, <3>5, KeysApart
    <3> QED
      BY <3>4, <3>6
  <2>3. {Row(r) : r \in rewards} = rewards
    BY <2>1
  <2>4. UNION {Shares(e) : e \in E} = rewards
    <3> HIDE DEF E, Row
    <3>1. \A v \in rewards : \E e \in E : v \in Shares(e)
      BY <2>1
    <3> QED
      BY <2>2, <3>1, Zenon
  <2> QED
    BY <2>3, <2>4
<1>7. {<<r.supplier, r.app, r.diff>> : r \in overservices} =
        {<<e.supplier, e.app, Diff(e)>> : e \in {e \in Due : e.kind = "overserviced"}}
  <2>1. ASSUME NEW r \in overservices
        PROVE  \E e \in Due : OverserviceOf(r, e)
    BY DEF IInv, TablesHold, OverservicesHold
  <2>2. ASSUME NEW e \in Due, e.kind = "overserviced"
        PROVE  \E r \in overservices : OverserviceOf(r, e)
    <3>1. PICK r \in overservices : OverserviceKey(r) = OverserviceKey(e)
      BY <2>2 DEF IInv, TablesHold, OverservicesHold
    <3>2. PICK d \in Due : OverserviceOf(r, d)
      BY <2>1
    <3>3. d.kind = e.kind /\ d.supplier = e.supplier /\ d.app = e.app
      BY <2>2, <3>1, <3>2 DEF OverserviceOf, OverserviceKey
    <3>4. d.kind = "overserviced" /\ d \in Decoded /\ e \in Decoded
      BY <1>2, <3>2 DEF OverserviceOf
    <3>5. d = e
      BY <3>3, <3>4, KeysApart
    <3> QED
      BY <3>2, <3>5
  <2>3. \A r, e : OverserviceOf(r, e) =>
          e.kind = "overserviced"
          /\ <<r.supplier, r.app, r.diff>> = <<e.supplier, e.app, Diff(e)>>
    BY DEF OverserviceOf
  <2> QED
    BY <2>1, <2>2, <2>3
<1>8. {ReimbursementKey(r) : r \in reimbursements} =
        {ReimbursementKey(e) : e \in {e \in Due : e.kind = "reimbursement"}}
  BY DEF IInv, TablesHold, ReimbursementsHold
<1> QED
  BY <1>4, <1>5, <1>6, <1>7, <1>8

LEMMA RewardsBelongFollows == IInv => RewardsBelong
<1> SUFFICES ASSUME IInv, NEW v \in rewards
             PROVE  \E r \in settlements, e \in Decoded :
                      /\ SettlementKey(r) = v.of /\ MadeFrom(r, e)
                      /\ [address |-> v.address, amount |-> v.amount] \in e.rewards
  BY DEF RewardsBelong
<1>1. PICK r \in settlements, e \in Due : MadeFrom(r, e) /\ v \in Shares(e)
  BY DEF IInv, TablesHold, RewardsHold
<1>2. PICK d \in e.rewards :
        v = [of |-> SettlementKey(e), address |-> d.address, amount |-> d.amount]
  BY <1>1 DEF Shares
<1>3. e \in Decoded /\ e \in Universe
  BY DecodedFinite DEF IInv
<1>4. d = [address |-> d.address, amount |-> d.amount]
  BY <1>3, BlockEventsAssumption
<1>5. v.of = SettlementKey(e) /\ v.address = d.address /\ v.amount = d.amount
  BY <1>2
<1>6. SettlementKey(r) = v.of
  BY <1>1, <1>5 DEF MadeFrom
<1>7. [address |-> v.address, amount |-> v.amount] \in e.rewards
  BY <1>4, <1>5
<1> QED
  BY <1>1, <1>3, <1>6, <1>7

LEMMA OverserviceAgreesFollows == IInv => OverserviceAgrees
<1> SUFFICES ASSUME IInv, NEW r \in settlements
             PROVE  LET os == {o \in overservices : o.supplier = r.supplier /\ o.app = r.app}
                    IN  /\ r.over.marked <=> r.kind = "settled" /\ os # {}
                        /\ DistinctKeys /\ r.over.marked => \A o \in os : o.diff = r.over.diff
  BY Zenon DEF OverserviceAgrees
<1>1. PICK e \in Due : e.kind \in Claims /\ SettlementOf(r, e)
  BY DEF IInv, TablesHold, SettlementsHold
<1>2. r.kind = e.kind /\ r.supplier = e.supplier /\ r.app = e.app
  BY <1>1 DEF SettlementOf, MadeFrom, SettlementKey
<1>3. /\ r.over.marked <=> e.kind = "settled" /\ \E o \in Decoded : Concerns(o, e)
      /\ r.over.marked => \E o \in Decoded : Concerns(o, e) /\ r.over.diff = Diff(o)
  BY <1>1, Zenon DEF SettlementOf
<1>4. \A o \in overservices : \E d \in Due : OverserviceOf(o, d)
  BY DEF IInv, TablesHold, OverservicesHold
<1>5. Due \subseteq Decoded
  BY DecodedFinite DEF IInv
<1>6. ASSUME NEW o \in Decoded, Concerns(o, e)
      PROVE  \E q \in overservices : q.supplier = r.supplier /\ q.app = r.app
  <2>1. o \in Due /\ o.kind = "overserviced"
    BY <1>6 DEF Due, Concerns
  <2>2. PICK q \in overservices : OverserviceKey(q) = OverserviceKey(o)
    BY <2>1 DEF IInv, TablesHold, OverservicesHold
  <2>3. q.supplier = r.supplier /\ q.app = r.app
    BY <1>2, <1>6, <2>2 DEF Concerns, OverserviceKey
  <2> QED
    BY <2>3
<1>7. ASSUME NEW q \in overservices, q.supplier = r.supplier, q.app = r.app
      PROVE  \E o \in Decoded : Concerns(o, e) /\ q.diff = Diff(o)
  <2>1. PICK d \in Due : OverserviceOf(q, d)
    BY <1>4
  <2>2. d \in Decoded /\ Concerns(d, e) /\ q.diff = Diff(d)
    BY <1>2, <1>5, <1>7, <2>1 DEF OverserviceOf, Concerns
  <2> QED
    BY <2>2
<1>8. (\E o \in Decoded : Concerns(o, e)) <=>
        \E q \in overservices : q.supplier = r.supplier /\ q.app = r.app
  BY <1>6, <1>7
<1>9. ASSUME DistinctKeys, r.over.marked, NEW q \in overservices,
             q.supplier = r.supplier, q.app = r.app
      PROVE  q.diff = r.over.diff
  <2>1. PICK o \in Decoded : Concerns(o, e) /\ q.diff = Diff(o)
    BY <1>7, <1>9
  <2>2. PICK d \in Decoded : Concerns(d, e) /\ r.over.diff = Diff(d)
    BY <1>3, <1>9
  <2>3. o.kind = d.kind /\ o.supplier = d.supplier /\ o.app = d.app /\ o.kind = "overserviced"
    BY <2>1, <2>2 DEF Concerns
  <2>4. o = d
    BY <1>9, <2>3, KeysApart
  <2> QED
    BY <2>1, <2>2, <2>4
<1> DEFINE os == {o \in overservices : o.supplier = r.supplier /\ o.app = r.app}
<1>10. os # {} <=> \E q \in overservices : q.supplier = r.supplier /\ q.app = r.app
  OBVIOUS
<1>11. DistinctKeys /\ r.over.marked => \A o \in os : o.diff = r.over.diff
  BY <1>9
<1> HIDE DEF os
<1>12. r.over.marked <=> r.kind = "settled" /\ os # {}
  BY <1>2, <1>3, <1>8, <1>10, Zenon
<1> QED
  BY <1>11, <1>12, Zenon DEF os

LEMMA CountersMatchFollows == IInv => CountersMatchRows
<1> SUFFICES ASSUME IInv, DistinctKeys, dispatched = 1
             PROVE  /\ \A k \in Claims :
                         counters[k] = Cardinality({r \in settlements :
                                                    r.kind = k /\ Match(suppliers, r.supplier)})
                    /\ counters["overserviced"] =
                         Cardinality({r \in overservices : Match(suppliers, r.supplier)})
  BY DEF CountersMatchRows
<1>1. /\ suppliers \in committed
      /\ \A k \in Claims \cup {"overserviced"} : counters[k] = Cardinality(Passing(k))
  BY DEF IInv, CountersHold, Types
<1>2. IsFiniteSet(Decoded) /\ Due \subseteq Decoded
  BY DecodedFinite DEF IInv
<1>3. ASSUME NEW k
      PROVE  /\ IsFiniteSet(Passing(k)) /\ Passing(k) \subseteq Decoded
             /\ \A e : e \in Passing(k) <=> e \in Due /\ e.kind = k /\ Match(suppliers, e.supplier)
  <2>1. Passing(k) \subseteq Decoded
    BY DEF Passing, Counted
  <2> QED
    BY <1>1, <1>2, <2>1, FS_Subset DEF Passing, Counted, Due
<1>4. ASSUME NEW k \in Claims
      PROVE  counters[k] =
               Cardinality({r \in settlements : r.kind = k /\ Match(suppliers, r.supplier)})
  <2> DEFINE E == Passing(k)
             R == {r \in settlements : r.kind = k /\ Match(suppliers, r.supplier)}
             G == {p \in E \X R : SettlementKey(p[2]) = SettlementKey(p[1])}
  <2>1. \A e \in E, r \in R : <<e, r>> \in G <=> SettlementKey(r) = SettlementKey(e)
    OBVIOUS
  <2>2. \A r : r \in R <=> r \in settlements /\ r.kind = k /\ Match(suppliers, r.supplier)
    OBVIOUS
  <2>3. k \in Claims /\ \A e \in E : e \in Due /\ e \in Decoded /\ e.kind = k
    BY <1>3
  <2> HIDE DEF E, R, G
  <2>4. ASSUME NEW e \in E PROVE \E r \in R : <<e, r>> \in G
    <3>1. PICK r \in settlements : SettlementKey(r) = SettlementKey(e)
      BY <2>3 DEF IInv, TablesHold, SettlementsHold
    <3>2. r.kind = e.kind /\ r.supplier = e.supplier
      BY <3>1 DEF SettlementKey
    <3>3. r \in R
      BY <1>3, <2>2, <3>2 DEF E
    <3> QED
      BY <2>1, <3>1, <3>3
  <2>5. ASSUME NEW r \in R PROVE \E e \in E : <<e, r>> \in G
    <3>1. PICK e \in Due : e.kind \in Claims /\ SettlementOf(r, e)
      BY <2>2 DEF IInv, TablesHold, SettlementsHold
    <3>2. SettlementKey(r) = SettlementKey(e)
      BY <3>1 DEF SettlementOf, MadeFrom
    <3>3. r.kind = e.kind /\ r.supplier = e.supplier
      BY <3>2 DEF SettlementKey
    <3>4. e \in E
      BY <1>3, <2>2, <3>3 DEF E
    <3> QED
      BY <2>1, <3>2, <3>4
  <2>6. \A e \in E, q, r \in R : <<e, q>> \in G /\ <<e, r>> \in G => q = r
    BY <2>1, <2>2, UniqueKeyIs DEF IInv, TablesHold, SettlementsHold, OneRowPerKey
  <2>7. \A d, e \in E, r \in R : <<d, r>> \in G /\ <<e, r>> \in G => d = e
    <3> SUFFICES ASSUME NEW d \in E, NEW e \in E, SettlementKey(d) = SettlementKey(e)
                 PROVE  d = e
      BY <2>1
    <3>1. d.kind = e.kind /\ d.supplier = e.supplier /\ d.app = e.app /\ d.session = e.session
      BY DEF SettlementKey
    <3> QED
      BY <2>3, <3>1, KeysApart
  <2>8. IsFiniteSet(E)
    BY <1>3 DEF E
  <2>9. Cardinality(R) = Cardinality(E)
    BY <2>4, <2>5, <2>6, <2>7, <2>8, SameNumber
  <2>10. counters[k] = Cardinality(E)
    BY <1>1 DEF E
  <2> QED
    BY <2>9, <2>10 DEF R
<1>5. counters["overserviced"] =
        Cardinality({r \in overservices : Match(suppliers, r.supplier)})
  <2> DEFINE E == Passing("overserviced")
             R == {r \in overservices : Match(suppliers, r.supplier)}
             G == {p \in E \X R : OverserviceKey(p[2]) = OverserviceKey(p[1])}
  <2>1. \A e \in E, r \in R : <<e, r>> \in G <=> OverserviceKey(r) = OverserviceKey(e)
    OBVIOUS
  <2>2. \A r : r \in R <=> r \in overservices /\ Match(suppliers, r.supplier)
    OBVIOUS
  <2>3. \A e \in E : e \in Due /\ e \in Decoded /\ e.kind = "overserviced"
    BY <1>3
  <2> HIDE DEF E, R, G
  <2>4. ASSUME NEW e \in E PROVE \E r \in R : <<e, r>> \in G
    <3>1. PICK r \in overservices : OverserviceKey(r) = OverserviceKey(e)
      BY <2>3 DEF IInv, TablesHold, OverservicesHold
    <3>2. r.supplier = e.supplier
      BY <3>1 DEF OverserviceKey
    <3>3. r \in R
      BY <1>3, <2>2, <3>2 DEF E
    <3> QED
      BY <2>1, <3>1, <3>3
  <2>5. ASSUME NEW r \in R PROVE \E e \in E : <<e, r>> \in G
    <3>1. PICK e \in Due : OverserviceOf(r, e)
      BY <2>2 DEF IInv, TablesHold, OverservicesHold
    <3>2. OverserviceKey(r) = OverserviceKey(e) /\ r.supplier = e.supplier
          /\ e.kind = "overserviced"
      BY <3>1 DEF OverserviceOf, OverserviceKey
    <3>3. e \in E
      BY <1>3, <2>2, <3>2 DEF E
    <3> QED
      BY <2>1, <3>2, <3>3
  <2>6. \A e \in E, q, r \in R : <<e, q>> \in G /\ <<e, r>> \in G => q = r
    BY <2>1, <2>2, UniqueKeyIs DEF IInv, TablesHold, OverservicesHold, OneRowPerKey
  <2>7. \A d, e \in E, r \in R : <<d, r>> \in G /\ <<e, r>> \in G => d = e
    <3> SUFFICES ASSUME NEW d \in E, NEW e \in E, OverserviceKey(d) = OverserviceKey(e)
                 PROVE  d = e
      BY <2>1
    <3>1. /\ d.kind = e.kind /\ d.supplier = e.supplier /\ d.app = e.app
          /\ d.kind = "overserviced"
      BY <2>3 DEF OverserviceKey
    <3> QED
      BY <2>3, <3>1, KeysApart
  <2>8. IsFiniteSet(E)
    BY <1>3 DEF E
  <2>9. Cardinality(R) = Cardinality(E)
    BY <2>4, <2>5, <2>6, <2>7, <2>8, SameNumber
  <2>10. counters["overserviced"] = Cardinality(E)
    BY <1>1 DEF E
  <2> QED
    BY <2>9, <2>10 DEF R
<1> QED
  BY <1>4, <1>5

LEMMA ReplayFollows ==
  ASSUME IInv, [Next]_vars,
         \E list \in committed :
           \A e \in Decoded : Match(suppliers, e.supplier) => Match(list, e.supplier)
  PROVE  UNCHANGED tables
<1>1. Let(suppliers) \subseteq Due
  BY DEF Let, Due
<1>2. ASSUME NEW w \in Writers, InsertBlockEvents(w) PROVE UNCHANGED tables
  <2> DEFINE evs == writers[w].evs
             time == writers[w].time
             rows == SettlementRows(evs, suppliers, time)
             dists == RewardDists(Filtered(evs, suppliers))
             orows == OverserviceRows(evs, suppliers, time)
             mrows == ReimbursementRows(evs, suppliers, time)
             row == [count |-> Len(Filtered(evs, suppliers)), time |-> time,
                     source |-> IF IsLive(w) THEN "live" ELSE "backfill"]
             sname == "settlements"
             oname == "overservice_events"
             mname == "reimbursement_events"
  <2>1. /\ settlements' = InsertRows(sname, settlements, rows)
        /\ rewards' = InsertRewards(rows, dists)
        /\ overservices' = InsertRows(oname, overservices, orows)
        /\ reimbursements' = InsertRows(mname, reimbursements, mrows)
        /\ processed' = InsertProcessedBlock(row)
    BY <1>2, Zenon DEF InsertBlockEvents
  <2>2. evs \in Seq(Universe) /\ ToSet(evs) = Decoded
    BY <1>2, WriterHas DEF IInv, InsertBlockEvents
  <2>3. /\ \A r : UniqueKey(sname, r) = SettlementKey(r)
        /\ \A r : UniqueKey(oname, r) = OverserviceKey(r)
        /\ \A r : UniqueKey(mname, r) = ReimbursementKey(r)
    BY UniqueKeyIs
  <2> HIDE DEF sname, oname, mname
  <2>4. /\ DOMAIN rows \subseteq Nat
        /\ \A i \in DOMAIN rows : \E r \in settlements :
             UniqueKey(sname, r) = UniqueKey(sname, rows[i])
    <3> DEFINE claims == ClaimsOf(Filtered(evs, suppliers))
    <3> HIDE DEF evs, time
    <3>1. /\ DOMAIN rows \subseteq Nat
          /\ \A i \in DOMAIN rows : /\ claims[i] \in Let(suppliers) /\ claims[i].kind \in Claims
                                    /\ SettlementOf(rows[i], claims[i])
      BY <2>2, SettlementRowsAre
    <3> HIDE DEF claims, rows
    <3>2. ASSUME NEW i \in DOMAIN rows
          PROVE  \E r \in settlements : SettlementKey(r) = SettlementKey(rows[i])
      BY <1>1, <3>1 DEF IInv, TablesHold, SettlementsHold, SettlementOf, MadeFrom
    <3> QED
      BY <2>3, <3>1, <3>2
  <2>5. /\ DOMAIN orows \subseteq Nat
        /\ \A i \in DOMAIN orows : \E r \in overservices :
             UniqueKey(oname, r) = UniqueKey(oname, orows[i])
    <3> HIDE DEF evs, time
    <3>1. /\ DOMAIN orows \subseteq Nat
          /\ \A i \in DOMAIN orows : \E e \in Let(suppliers) : OverserviceOf(orows[i], e)
      BY <2>2, OverserviceRowsAre
    <3> HIDE DEF orows
    <3>2. ASSUME NEW i \in DOMAIN orows
          PROVE  \E r \in overservices : OverserviceKey(r) = OverserviceKey(orows[i])
      <4>1. PICK e \in Due : OverserviceOf(orows[i], e)
        BY <1>1, <3>1
      <4>2. OverserviceKey(orows[i]) = OverserviceKey(e) /\ e.kind = "overserviced"
        BY <4>1 DEF OverserviceOf, OverserviceKey
      <4> QED
        BY <4>2 DEF IInv, TablesHold, OverservicesHold
    <3> QED
      BY <2>3, <3>1, <3>2
  <2>6. /\ DOMAIN mrows \subseteq Nat
        /\ \A i \in DOMAIN mrows : \E r \in reimbursements :
             UniqueKey(mname, r) = UniqueKey(mname, mrows[i])
    <3> HIDE DEF evs, time
    <3>1. /\ DOMAIN mrows \subseteq Nat
          /\ \A i \in DOMAIN mrows : \E e \in Let(suppliers) :
               e.kind = "reimbursement" /\ ReimbursementKey(mrows[i]) = ReimbursementKey(e)
      BY <2>2, ReimbursementRowsAre
    <3> HIDE DEF mrows
    <3>2. ASSUME NEW i \in DOMAIN mrows
          PROVE  \E r \in reimbursements : ReimbursementKey(r) = ReimbursementKey(mrows[i])
      BY <1>1, <3>1 DEF IInv, TablesHold, ReimbursementsHold
    <3> QED
      BY <2>3, <3>1, <3>2
  <2>7. processed # {}
    BY DEF IInv, TablesHold, ProcessedHolds
  <2> HIDE DEF rows, orows, mrows, dists, row, evs, time
  <2>8. Inserted(sname, settlements, rows) = {} /\ settlements' = settlements
    BY <2>1, <2>4, InsertIs
  <2>9. overservices' = overservices
    BY <2>1, <2>5, InsertIs
  <2>10. reimbursements' = reimbursements
    BY <2>1, <2>6, InsertIs
  <2>11. rewards' = rewards
    BY <2>1, <2>8 DEF InsertRewards, sname
  <2>12. processed' = processed
    BY <2>1, <2>7 DEF InsertProcessedBlock
  <2> QED
    BY <2>8, <2>9, <2>10, <2>11, <2>12 DEF tables
<1>3. ASSUME NEW w \in Writers, CallProcessBlock(w) \/ InsertFails(w) \/ dispatchMetrics(w)
      PROVE  UNCHANGED tables
  BY <1>3 DEF CallProcessBlock, InsertFails, dispatchMetrics
<1>4. CASE Restart \/ Finished \/ UNCHANGED vars
  BY <1>4 DEF Restart, Finished, vars
<1> QED
  BY <1>2, <1>3, <1>4 DEF Next

\* The tables hold the rows of exactly the events that passed the filter of a
\* transaction that committed, whatever the writers, failures, restarts and lists.
THEOREM StoredExactlyHolds == Spec => []StoredExactly
BY Invariance, StoredExactlyFollows, PTL

\* A reward is only ever attached to the claim that was stored (InsertBlockEvents
\* skips the rewards of a settlement the OR IGNORE dropped).
THEOREM RewardsBelongHolds == Spec => []RewardsBelong
BY Invariance, RewardsBelongFollows, PTL

\* The marks of the settlements, computed before the supplier filter, agree with the
\* overservice rows, which are written after it.
THEOREM OverserviceAgreesHolds == Spec => []OverserviceAgrees
BY Invariance, OverserviceAgreesFollows, PTL

\* The counters of a process that counted the block once are numbers of rows.
THEOREM CountersMatchRowsHolds == Spec => []CountersMatchRows
BY Invariance, CountersMatchFollows, PTL

\* No later transaction under a list that lets through no more changes a row.
THEOREM ReplayChangesNothingHolds == Spec => ReplayChangesNothing
<1>1. IInv /\ [Next]_vars =>
        [(\E list \in committed :
            \A e \in Decoded : Match(suppliers, e.supplier) => Match(list, e.supplier))
         => UNCHANGED tables]_vars
  BY ReplayFollows
<1> QED
  BY <1>1, Invariance, PTL DEF Spec, ReplayChangesNothing

=============================================================================
