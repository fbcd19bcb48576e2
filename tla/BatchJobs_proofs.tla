-------------------------- MODULE BatchJobs_proofs --------------------------
(***************************************************************************)
(* Proofs about the JCL lane.  As the parser reads one statement more, its *)
(* jobs stay the jobs as written up to that statement (Faithful): a JOB, an *)
(* EXEC or a DD adds to the last job or to the last step of the last job,  *)
(* and what is before them is settled.  What the parser skips or files     *)
(* away, the second reading notices.                                       *)
(***************************************************************************)
EXTENDS BatchJobs, FiniteSetTheorems, SequenceTheorems, WellFoundedInduction, TLAPS

-----------------------------------------------------------------------------
(* Positions in order.                                                     *)

(* A nonempty set of numbers has a least one. *)
LEMMA LeastNumber ==
  ASSUME NEW S \in SUBSET Nat, S # {}
  PROVE  \E n \in S : \A m \in S : n <= m
<1>1. PICK n \in S : \A m \in S : <<m, n>> \notin OpToRel(<, Nat)
  BY NatLessThanWellFounded, WFMin
<1>2. \A m \in S : ~(m < n) BY <1>1 DEF OpToRel
<1> QED BY <1>2

(* The positions up to k in S, whose number is the rank of k. *)
UpTo(S, k) == {j \in S : j <= k}
OfRank(S, n) == {i \in S : Cardinality(UpTo(S, i)) = n}

(* The n-th position is one of that rank. *)
LEMMA NthIsOfRank == ASSUME NEW S, NEW n PROVE Nth(S, n) = CHOOSE k \in OfRank(S, n) : TRUE
BY DEF Nth, OfRank, UpTo

(* Positions of a member are finitely many. *)
LEMMA PositionsAreFinite ==
  ASSUME NEW n \in Nat, NEW S \in SUBSET (1..n)
  PROVE  /\ IsFiniteSet(S) /\ Cardinality(S) \in Nat /\ n + 1 \notin S
         /\ S \cup {n + 1} \in SUBSET (1..(n + 1))
         /\ Cardinality(S \cup {n + 1}) = Cardinality(S) + 1
         /\ \A k : /\ UpTo(S, k) \in SUBSET (1..n)
                   /\ IsFiniteSet(UpTo(S, k))
                   /\ Cardinality(UpTo(S, k)) \in Nat
                   /\ Cardinality(UpTo(S, k)) <= Cardinality(S)
<1>1. IsFiniteSet(1..n) BY FS_Interval
<1>2. IsFiniteSet(S) BY <1>1, FS_Subset
<1>3. n + 1 \notin S OBVIOUS
<1>4. ASSUME NEW k
      PROVE  /\ UpTo(S, k) \in SUBSET (1..n) /\ IsFiniteSet(UpTo(S, k))
             /\ Cardinality(UpTo(S, k)) \in Nat
             /\ Cardinality(UpTo(S, k)) <= Cardinality(S)
  <2>1. UpTo(S, k) \in SUBSET S BY DEF UpTo
  <2> QED BY <1>2, <2>1, FS_Subset, FS_CardinalityType
<1>5. Cardinality(S) \in Nat BY <1>2, FS_CardinalityType
<1>6. Cardinality(S \cup {n + 1}) = Cardinality(S) + 1 BY <1>2, <1>3, FS_AddElement
<1> QED BY <1>2, <1>3, <1>4, <1>5, <1>6

(* A position after all others is the last of them. *)
LEMMA RankOfTheNext ==
  ASSUME NEW n \in Nat, NEW S \in SUBSET (1..n)
  PROVE  /\ OfRank(S \cup {n + 1}, Cardinality(S) + 1) = {n + 1}
         /\ \A k \in 1..Cardinality(S) : OfRank(S \cup {n + 1}, k) = OfRank(S, k)
<1> DEFINE T == S \cup {n + 1}
<1>0. \A i \in S : i \in Nat /\ i <= n /\ i # n + 1 OBVIOUS
<1>1. UpTo(T, n + 1) = T
  <2>1. \A i \in T : i <= n + 1 BY <1>0
  <2> HIDE DEF T
  <2> QED BY <2>1 DEF UpTo
<1>2. \A i \in S : UpTo(T, i) = UpTo(S, i) BY <1>0 DEF UpTo
<1>3. Cardinality(UpTo(T, n + 1)) = Cardinality(S) + 1 BY <1>1, PositionsAreFinite
<1>4. \A i \in S : /\ Cardinality(UpTo(T, i)) = Cardinality(UpTo(S, i))
                   /\ Cardinality(UpTo(S, i)) \in Nat
                   /\ Cardinality(UpTo(S, i)) <= Cardinality(S)
  BY <1>2, PositionsAreFinite
<1>5. Cardinality(S) \in Nat BY PositionsAreFinite
<1>6. \A i \in T : i \in OfRank(T, Cardinality(S) + 1) <=> i = n + 1
  BY <1>0, <1>3, <1>4, <1>5 DEF OfRank
<1>7. ASSUME NEW k \in 1..Cardinality(S)
      PROVE  \A i \in T : i \in OfRank(T, k) <=> i \in OfRank(S, k)
  <2>1. k # Cardinality(S) + 1 BY <1>5
  <2> QED BY <1>0, <1>3, <1>4, <2>1 DEF OfRank
<1>8. ASSUME NEW k \in 1..Cardinality(S) PROVE OfRank(T, k) = OfRank(S, k)
  <2>1. OfRank(T, k) \subseteq T /\ OfRank(S, k) \subseteq T BY DEF OfRank
  <2> QED BY <1>7, <2>1
<1>9. OfRank(T, Cardinality(S) + 1) \subseteq T BY DEF OfRank
<1>10. OfRank(T, Cardinality(S) + 1) = {n + 1} BY <1>6, <1>9
<1> QED BY <1>8, <1>10

(* Every rank has a position, by the least bound for which it might not.   *)
LEMMA EveryRankIsTaken ==
  ASSUME NEW n \in Nat, NEW S \in SUBSET (1..n), NEW k \in 1..Cardinality(S)
  PROVE  OfRank(S, k) # {}
<1> DEFINE Taken(b) == \A T \in SUBSET (1..b) : \A r \in 1..Cardinality(T) : OfRank(T, r) # {}
           open == {b \in Nat : ~Taken(b)}
<1>1. open = {}
  <2> SUFFICES ASSUME open # {} PROVE FALSE OBVIOUS
  <2>1. PICK b \in open : \A a \in open : b <= a
    <3>1. open \in SUBSET Nat OBVIOUS
    <3> HIDE DEF open
    <3> QED BY <3>1, LeastNumber
  <2>2. b \in Nat /\ ~Taken(b) OBVIOUS
  <2>3a. PICK T \in SUBSET (1..b) : \E r \in 1..Cardinality(T) : OfRank(T, r) = {}
    BY <2>2
  <2>3. PICK r \in 1..Cardinality(T) : OfRank(T, r) = {} BY <2>3a
  <2>4. b # 0
    <3> SUFFICES ASSUME b = 0 PROVE FALSE OBVIOUS
    <3>1. T = {} OBVIOUS
    <3>2. Cardinality(T) = 0 BY <3>1, FS_EmptySet
    <3> QED BY <3>2
  <2>5. PICK a \in Nat : b = a + 1
    <3>1. b - 1 \in Nat /\ b = (b - 1) + 1 BY <2>2, <2>4
    <3> QED BY <3>1
  <2>6. Taken(a)
    <3>1. ~(b <= a) BY <2>5
    <3>2. a \notin open BY <2>1, <3>1
    <3> QED BY <3>2
  <2>7. CASE b \notin T
    <3>1. T \in SUBSET (1..a) BY <2>5, <2>7
    <3> QED BY <2>3, <2>6, <3>1
  <2>8. CASE b \in T
    <3> DEFINE U == T \ {b}
    <3>1. U \in SUBSET (1..a) /\ T = U \cup {a + 1} BY <2>5, <2>8
    <3>2. Cardinality(U) \in Nat /\ Cardinality(T) = Cardinality(U) + 1
      <4> HIDE DEF U
      <4> QED BY <3>1, PositionsAreFinite
    <3>3. /\ OfRank(T, Cardinality(U) + 1) = {a + 1}
          /\ \A q \in 1..Cardinality(U) : OfRank(T, q) = OfRank(U, q)
      <4> HIDE DEF U
      <4> QED BY <3>1, RankOfTheNext
    <3>4. CASE r = Cardinality(U) + 1 BY <2>3, <3>3, <3>4
    <3>5. CASE r \in 1..Cardinality(U)
      <4>1. OfRank(U, r) # {} BY <2>6, <3>1, <3>5
      <4> QED BY <2>3, <3>3, <3>5, <4>1
    <3> QED BY <2>3, <3>2, <3>4, <3>5
  <2> QED BY <2>7, <2>8
<1>2. Taken(n) BY <1>1
<1> QED BY <1>2

(* The n-th position is one of the positions, and of rank n. *)
LEMMA NthIsListed ==
  ASSUME NEW n \in Nat, NEW S \in SUBSET (1..n), NEW k \in 1..Cardinality(S)
  PROVE  Nth(S, k) \in S /\ Cardinality(UpTo(S, Nth(S, k))) = k
<1>1. Nth(S, k) \in OfRank(S, k) BY EveryRankIsTaken, NthIsOfRank
<1> QED BY <1>1 DEF OfRank

(* The last is after all others. *)
LEMMA TheLast ==
  ASSUME NEW n \in Nat, NEW S \in SUBSET (1..n), S # {}
  PROVE  /\ Cardinality(S) \in Nat \ {0}
         /\ Nth(S, Cardinality(S)) \in S
         /\ \A k \in S : k <= Nth(S, Cardinality(S))
         /\ \A k \in 1..(Cardinality(S) - 1) :
              Nth(S, k) \in S /\ Nth(S, k) < Nth(S, Cardinality(S))
<1> DEFINE z == Nth(S, Cardinality(S))
<1>1. Cardinality(S) \in Nat \ {0} BY PositionsAreFinite, FS_EmptySet
<1>2. z \in S /\ Cardinality(UpTo(S, z)) = Cardinality(S) BY <1>1, NthIsListed
<1>3. UpTo(S, z) = S
  <2>1. UpTo(S, z) \in SUBSET S BY DEF UpTo
  <2> QED BY <1>2, <2>1, PositionsAreFinite, FS_Subset
<1>4. \A k \in S : k <= z BY <1>3 DEF UpTo
<1>5. ASSUME NEW k \in 1..(Cardinality(S) - 1)
      PROVE  Nth(S, k) \in S /\ Nth(S, k) < z
  <2>1. k \in 1..Cardinality(S) /\ k # Cardinality(S) BY <1>1
  <2>2. Nth(S, k) \in S /\ Cardinality(UpTo(S, Nth(S, k))) = k BY <2>1, NthIsListed
  <2>3. Nth(S, k) # z BY <1>2, <2>1, <2>2
  <2>4. \A i \in S : i \in Nat OBVIOUS
  <2>5. Nth(S, k) \in Nat /\ z \in Nat /\ Nth(S, k) <= z BY <1>2, <1>4, <2>2, <2>4
  <2> QED BY <2>2, <2>3, <2>5
<1> QED BY <1>1, <1>2, <1>4, <1>5

(* Each position has its place. *)
LEMMA EachHasItsPlace ==
  ASSUME NEW n \in Nat, NEW S \in SUBSET (1..n), NEW k \in S
  PROVE  \E r \in 1..Cardinality(S) : Nth(S, r) = k
<1> DEFINE r == Cardinality(UpTo(S, k))
<1>0. \A i \in S : i \in Nat OBVIOUS
<1>1. k \in UpTo(S, k) /\ IsFiniteSet(UpTo(S, k)) /\ r \in Nat /\ r <= Cardinality(S)
      /\ Cardinality(S) \in Nat
  <2>1. k \in UpTo(S, k) BY <1>0 DEF UpTo
  <2> QED BY <2>1, PositionsAreFinite
<1>2. r # 0 BY <1>1, FS_EmptySet
<1>3. r \in 1..Cardinality(S) BY <1>1, <1>2
<1>4. ASSUME NEW i \in OfRank(S, r) PROVE i = k
  <2>1. i \in S /\ Cardinality(UpTo(S, i)) = r BY DEF OfRank
  <2>2. CASE i < k
    <3>0. i \in Nat /\ k \in Nat /\ \A j \in S : j \in Nat /\ (j <= i => j <= k)
      BY <1>0, <2>1, <2>2
    <3>1. UpTo(S, i) \in SUBSET UpTo(S, k) /\ k \notin UpTo(S, i)
      <4>1. ~(k <= i) BY <2>2, <3>0
      <4> QED BY <3>0, <4>1 DEF UpTo
    <3>2. UpTo(S, i) = UpTo(S, k) BY <1>1, <2>1, <3>1, FS_Subset
    <3> QED BY <1>1, <3>1, <3>2
  <2>3. CASE k < i
    <3>1. UpTo(S, k) \in SUBSET UpTo(S, i) /\ i \notin UpTo(S, k) /\ i \in UpTo(S, i)
      <4>0. i \in Nat /\ k \in Nat /\ \A j \in S : j \in Nat /\ (j <= k => j <= i)
        BY <1>0, <2>1, <2>3
      <4>1. ~(i <= k) /\ i <= i BY <2>3, <4>0
      <4> QED BY <2>1, <4>0, <4>1 DEF UpTo
    <3>2. IsFiniteSet(UpTo(S, i)) BY PositionsAreFinite
    <3>3. UpTo(S, i) = UpTo(S, k) BY <2>1, <3>1, <3>2, FS_Subset
    <3> QED BY <3>1, <3>3
  <2> QED BY <1>0, <2>1, <2>2, <2>3
<1>5. k \in OfRank(S, r) BY DEF OfRank
<1>6. Nth(S, r) \in OfRank(S, r) BY <1>5, NthIsOfRank
<1> QED BY <1>3, <1>4, <1>6

(* What E says of the positions of S, in their order. *)
Mapped(S, E) == [k \in 1..Cardinality(S) |-> E[Nth(S, k)]]

(* It says nothing of no positions. *)
LEMMA MappedOfNone == ASSUME NEW E PROVE Mapped({}, E) = <<>>
BY FS_EmptySet DEF Mapped

(* It depends on what E says of them only ... *)
LEMMA MappedIsLocal ==
  ASSUME NEW n \in Nat, NEW S \in SUBSET (1..n), NEW E, NEW F, \A k \in S : F[k] = E[k]
  PROVE  Mapped(S, F) = Mapped(S, E)
<1>1. \A k \in 1..Cardinality(S) : F[Nth(S, k)] = E[Nth(S, k)] BY NthIsListed
<1> QED BY <1>1 DEF Mapped

(* ... and a position after them adds one entry at the end. *)
LEMMA MappedAppends ==
  ASSUME NEW n \in Nat, NEW S \in SUBSET (1..n), NEW E, NEW F, \A k \in S : F[k] = E[k]
  PROVE  Mapped(S \cup {n + 1}, F) = Append(Mapped(S, E), F[n + 1])
<1>0. PICK V : (\A k \in S : E[k] \in V) /\ F[n + 1] \in V
  <2>1. PICK V : V = {E[k] : k \in S} \cup {F[n + 1]} OBVIOUS
  <2> QED BY <2>1
<1> DEFINE T == S \cup {n + 1}
           old == Mapped(S, E)
           new == Mapped(T, F)
<1>1. Cardinality(S) \in Nat /\ Cardinality(T) = Cardinality(S) + 1 BY PositionsAreFinite
<1>2. ASSUME NEW k \in 1..Cardinality(S)
      PROVE  Nth(T, k) = Nth(S, k) /\ Nth(S, k) \in S
  <2>1. OfRank(T, k) = OfRank(S, k) BY RankOfTheNext
  <2>2. Nth(T, k) = CHOOSE i \in OfRank(T, k) : TRUE BY NthIsOfRank
  <2>3. Nth(S, k) = CHOOSE i \in OfRank(S, k) : TRUE BY NthIsOfRank
  <2>4. Nth(T, k) = Nth(S, k) BY <2>1, <2>2, <2>3
  <2> QED BY <2>4, NthIsListed
<1>3. Nth(T, Cardinality(S) + 1) = n + 1
  <2>1. OfRank(T, Cardinality(S) + 1) = {n + 1} BY RankOfTheNext
  <2> QED BY <2>1, NthIsOfRank
<1>4. old = [k \in 1..Cardinality(S) |-> E[Nth(S, k)]]
      /\ new = [k \in 1..(Cardinality(S) + 1) |-> F[Nth(T, k)]]
  BY <1>1 DEF Mapped
<1>5. old \in Seq(V) /\ Len(old) = Cardinality(S)
  <2>1. \A k \in 1..Cardinality(S) : E[Nth(S, k)] \in V BY <1>0, <1>2
  <2> HIDE DEF old
  <2> QED BY <1>1, <1>4, <2>1
<1>6. ASSUME NEW k \in 1..Cardinality(S) PROVE new[k] = old[k]
  <2>1. k \in 1..(Cardinality(S) + 1) BY <1>1
  <2>2. new[k] = F[Nth(T, k)] /\ old[k] = E[Nth(S, k)]
    <3> HIDE DEF new, old
    <3> QED BY <1>4, <2>1
  <2> QED BY <1>2, <2>2
<1>7. new[Cardinality(S) + 1] = F[n + 1]
  <2>1. Cardinality(S) + 1 \in 1..(Cardinality(S) + 1) BY <1>1
  <2>2. new[Cardinality(S) + 1] = F[Nth(T, Cardinality(S) + 1)]
    <3> HIDE DEF new
    <3> QED BY <1>4, <2>1
  <2> QED BY <1>3, <2>2
<1>8. DOMAIN new = 1..(Cardinality(S) + 1) BY <1>4
<1>9. new = Append(old, F[n + 1])
  <2> HIDE DEF old, new
  <2>1. /\ Append(old, F[n + 1]) \in Seq(V)
        /\ Len(Append(old, F[n + 1])) = Cardinality(S) + 1
        /\ \A k \in 1..Cardinality(S) : Append(old, F[n + 1])[k] = old[k]
        /\ Append(old, F[n + 1])[Cardinality(S) + 1] = F[n + 1]
    BY <1>0, <1>5, AppendProperties
  <2>2. new = [k \in 1..(Cardinality(S) + 1) |-> new[k]] BY <1>4 DEF new
  <2>3. Append(old, F[n + 1])
          = [k \in 1..(Cardinality(S) + 1) |-> Append(old, F[n + 1])[k]]
    BY <1>1, <2>1
  <2>4. \A k \in 1..(Cardinality(S) + 1) : new[k] = Append(old, F[n + 1])[k]
    BY <1>1, <1>6, <1>7, <2>1
  <2> QED BY <2>2, <2>3, <2>4
<1> QED BY <1>9

-----------------------------------------------------------------------------
(* A statement more.                                                       *)

(* The statements of a member stay; the new one is the last. *)
LEMMA OneMore ==
  ASSUME NEW m \in Seq(Cards), NEW c \in Cards
  PROVE  /\ Append(m, c) \in Seq(Cards) /\ Len(m) \in Nat
         /\ DOMAIN m = 1..Len(m) /\ DOMAIN Append(m, c) = 1..(Len(m) + 1)
         /\ DOMAIN Append(m, c) = DOMAIN m \cup {Len(m) + 1}
         /\ \A k \in DOMAIN m : Append(m, c)[k] = m[k]
         /\ Append(m, c)[Len(m) + 1] = c
<1>1. /\ Append(m, c) \in Seq(Cards) /\ Len(m) \in Nat
      /\ Len(Append(m, c)) = Len(m) + 1
      /\ \A k \in 1..Len(m) : Append(m, c)[k] = m[k]
      /\ Append(m, c)[Len(m) + 1] = c
  BY AppendProperties
<1>2. DOMAIN m = 1..Len(m) /\ DOMAIN Append(m, c) = 1..(Len(m) + 1)
  BY <1>1, LenProperties
<1>3. 1..(Len(m) + 1) = (1..Len(m)) \cup {Len(m) + 1} BY <1>1
<1> QED BY <1>1, <1>2, <1>3

(* Positions of a member. *)
LEMMA AreaOfPositions ==
  ASSUME NEW m \in Seq(Cards), NEW i, NEW owners, NEW stmt
  PROVE  Under(m, i, owners, stmt) \in SUBSET (1..Len(m)) /\ At(m, stmt) \in SUBSET (1..Len(m))
<1>1. DOMAIN m = 1..Len(m) BY LenProperties
<1> QED BY <1>1 DEF Under, At

(* i is still the owner when the next statement comes. *)
Open(m, i, owners) == \A j \in (i + 1)..Len(m) : m[j].stmt \notin owners

(* A statement goes to the owner that is open, if it is not one itself; what *)
(* the others have is settled.                                             *)
LEMMA UnderGrows ==
  ASSUME NEW m \in Seq(Cards), NEW c \in Cards, NEW i \in 1..Len(m),
         NEW owners, NEW stmt
  PROVE  Under(Append(m, c), i, owners, stmt)
           = IF c.stmt = stmt /\ stmt \notin owners /\ Open(m, i, owners)
             THEN Under(m, i, owners, stmt) \cup {Len(m) + 1}
             ELSE Under(m, i, owners, stmt)
<1> DEFINE n == Append(m, c)
           z == Len(m) + 1
<1>1. /\ Len(m) \in Nat /\ DOMAIN m = 1..Len(m) /\ DOMAIN n = DOMAIN m \cup {z}
      /\ \A k \in DOMAIN m : n[k] = m[k]
      /\ n[z] = c /\ z \notin DOMAIN m
  BY OneMore
<1>2. ASSUME NEW k \in DOMAIN m
      PROVE  k \in Under(n, i, owners, stmt) <=> k \in Under(m, i, owners, stmt)
  <2>1. k \in Nat /\ k <= Len(m) /\ i \in Nat /\ i >= 1 BY <1>1
  <2>2. \A j \in (i + 1)..k : j \in DOMAIN m BY <1>1, <2>1
  <2>3. \A j \in (i + 1)..k : n[j] = m[j] BY <1>1, <2>2
  <2>4. n[k] = m[k] /\ k \in DOMAIN n BY <1>1
  <2> HIDE DEF n, z
  <2> QED BY <2>3, <2>4 DEF Under
<1>3. z \in Under(n, i, owners, stmt)
        <=> c.stmt = stmt /\ stmt \notin owners /\ Open(m, i, owners)
  <2>1. i < z /\ z \in DOMAIN n BY <1>1
  <2>2. (i + 1)..z = ((i + 1)..Len(m)) \cup {z} BY <1>1
  <2>3. \A j \in (i + 1)..Len(m) : j \in DOMAIN m BY <1>1
  <2>4. \A j \in (i + 1)..Len(m) : n[j] = m[j] BY <1>1, <2>3
  <2>5. (\A j \in (i + 1)..z : n[j].stmt \notin owners)
          <=> Open(m, i, owners) /\ c.stmt \notin owners
    <3>1. n[z] = c BY <1>1
    <3> HIDE DEF n, z
    <3> QED BY <2>2, <2>4, <3>1 DEF Open
  <2>6. n[z] = c BY <1>1
  <2> HIDE DEF n, z
  <2> QED BY <2>1, <2>5, <2>6 DEF Under
<1>4. /\ Under(n, i, owners, stmt) \subseteq DOMAIN m \cup {z}
      /\ Under(m, i, owners, stmt) \subseteq DOMAIN m
  BY <1>1 DEF Under
<1> HIDE DEF n, z
<1>5. CASE c.stmt = stmt /\ stmt \notin owners /\ Open(m, i, owners)
  <2>1. Under(n, i, owners, stmt) = Under(m, i, owners, stmt) \cup {z}
    BY <1>2, <1>3, <1>4, <1>5
  <2> QED BY <1>5, <2>1 DEF n, z
<1>6. CASE ~(c.stmt = stmt /\ stmt \notin owners /\ Open(m, i, owners))
  <2>1. Under(n, i, owners, stmt) = Under(m, i, owners, stmt)
    BY <1>2, <1>3, <1>4, <1>6
  <2> QED BY <1>6, <2>1 DEF n, z
<1> QED BY <1>5, <1>6

(* Nothing is under the newest statement yet. *)
LEMMA NothingUnderTheNewest ==
  ASSUME NEW m \in Seq(Cards), NEW c \in Cards, NEW owners, NEW stmt
  PROVE  Under(Append(m, c), Len(m) + 1, owners, stmt) = {}
<1>1. Len(m) \in Nat /\ DOMAIN Append(m, c) = 1..(Len(m) + 1) BY OneMore
<1> QED BY <1>1 DEF Under

(* The statements of one kind. *)
LEMMA KindGrows ==
  ASSUME NEW m \in Seq(Cards), NEW c \in Cards, NEW stmt
  PROVE  At(Append(m, c), stmt)
           = IF c.stmt = stmt THEN At(m, stmt) \cup {Len(m) + 1} ELSE At(m, stmt)
<1>1. /\ DOMAIN Append(m, c) = DOMAIN m \cup {Len(m) + 1}
      /\ \A k \in DOMAIN m : Append(m, c)[k] = m[k]
      /\ Append(m, c)[Len(m) + 1] = c
  BY OneMore
<1> QED BY <1>1 DEF At
-----------------------------------------------------------------------------
(* The parser's jobs.                                                      *)

NamesRead == {c.name : c \in Cards} \cup {"UNKNOWN", ""}
OfRead == {c.of : c \in Cards} \cup {""}
AsRead == {c.as : c \in Cards} \cup {"none"}
DDRecords == [name : NamesRead, of : OfRead, as : AsRead]
StepRecords == [name : NamesRead, program : OfRead, cond : AsRead, dds : Seq(DDRecords)]
JobRecords == [name : NamesRead, steps : Seq(StepRecords), dds : Seq(DDRecords)]
ParserStates == [jobs : Seq(JobRecords), job : JobRecords, seen : BOOLEAN]

(* What a statement becomes. *)
LEMMA CardTypes ==
  ASSUME NEW c \in Cards
  PROVE  /\ c.name \in NamesRead /\ c.of \in OfRead /\ c.as \in AsRead
         /\ parse_dd(c) \in DDRecords /\ parse_exec(c) \in StepRecords
<1>1. c.name \in NamesRead /\ c.of \in OfRead /\ c.as \in AsRead
  BY DEF NamesRead, OfRead, AsRead
<1>2. "UNKNOWN" \in NamesRead /\ "" \in OfRead /\ "none" \in AsRead
  BY DEF NamesRead, OfRead, AsRead
<1>3. Operand(c) \in AsRead BY <1>1, <1>2 DEF Operand
<1>4. parse_dd(c) \in DDRecords BY <1>1, <1>2, <1>3 DEF parse_dd, DDRecords
<1>5. <<>> \in Seq(DDRecords) OBVIOUS
<1>6. parse_exec(c) \in StepRecords BY <1>1, <1>2, <1>3, <1>5 DEF parse_exec, StepRecords
<1> QED BY <1>1, <1>4, <1>6

(* A DD joins the last step of a job or the job. *)
LEMMA AddDDTypes ==
  ASSUME NEW j \in JobRecords, NEW dd \in DDRecords
  PROVE  /\ add_dd(j, dd) \in JobRecords
         /\ add_dd(j, dd).name = j.name
         /\ j.steps = <<>> =>
              add_dd(j, dd).steps = j.steps /\ add_dd(j, dd).dds # <<>>
         /\ j.steps # <<>> =>
              /\ add_dd(j, dd).dds = j.dds
              /\ Len(j.steps) \in Nat \ {0}
              /\ Len(add_dd(j, dd).steps) = Len(j.steps)
              /\ \A k \in 1..(Len(j.steps) - 1) : add_dd(j, dd).steps[k] = j.steps[k]
              /\ add_dd(j, dd).steps[Len(j.steps)]
                   = [name |-> j.steps[Len(j.steps)].name,
                      program |-> j.steps[Len(j.steps)].program,
                      cond |-> j.steps[Len(j.steps)].cond,
                      dds |-> Append(j.steps[Len(j.steps)].dds, dd)]
<1>1. j.name \in NamesRead /\ j.steps \in Seq(StepRecords) /\ j.dds \in Seq(DDRecords)
      /\ j = [name |-> j.name, steps |-> j.steps, dds |-> j.dds]
  BY DEF JobRecords
<1>2. CASE j.steps = <<>>
  <2>1. add_dd(j, dd) = [name |-> j.name, steps |-> j.steps, dds |-> Append(j.dds, dd)]
    BY <1>1, <1>2 DEF add_dd
  <2>2. Append(j.dds, dd) \in Seq(DDRecords) /\ Append(j.dds, dd) # <<>>
    BY <1>1, AppendProperties
  <2> QED BY <1>1, <1>2, <2>1, <2>2 DEF JobRecords
<1>3. CASE j.steps # <<>>
  <2> DEFINE l == Len(j.steps)
             s == [j.steps[l] EXCEPT !.dds = Append(@, dd)]
  <2>1. l \in Nat \ {0} /\ DOMAIN j.steps = 1..l BY <1>1, <1>3, EmptySeq, LenProperties
  <2>2. add_dd(j, dd) = [name |-> j.name, steps |-> [j.steps EXCEPT ![l] = s], dds |-> j.dds]
    BY <1>1, <1>3 DEF add_dd
  <2>3. j.steps[l] \in StepRecords BY <1>1, <2>1, ElementOfSeq
  <2>4. Append(j.steps[l].dds, dd) \in Seq(DDRecords)
    BY <2>3, AppendProperties DEF StepRecords
  <2>5. s \in StepRecords BY <2>3, <2>4 DEF StepRecords
  <2>6. [j.steps EXCEPT ![l] = s] \in Seq(StepRecords) BY <1>1, <2>1, <2>5, ExceptSeq
  <2>7. add_dd(j, dd) \in JobRecords
    <3> HIDE DEF s, l
    <3> QED BY <1>1, <2>2, <2>6 DEF JobRecords
  <2>8. /\ add_dd(j, dd).name = j.name /\ add_dd(j, dd).dds = j.dds
        /\ add_dd(j, dd).steps = [j.steps EXCEPT ![l] = s]
    <3> HIDE DEF s, l
    <3> QED BY <2>2
  <2>9. s = [name |-> j.steps[l].name, program |-> j.steps[l].program,
             cond |-> j.steps[l].cond, dds |-> Append(j.steps[l].dds, dd)]
    <3>1. PICK e : e = j.steps[l] OBVIOUS
    <3>2. PICK x : x = Append(e.dds, dd) OBVIOUS
    <3>3. e = [name |-> e.name, program |-> e.program, cond |-> e.cond, dds |-> e.dds]
      BY <2>3, <3>1 DEF StepRecords
    <3>4. [e EXCEPT !.dds = x]
            = [name |-> e.name, program |-> e.program, cond |-> e.cond, dds |-> x]
      BY <3>3
    <3>5. s = [e EXCEPT !.dds = x] BY <3>1, <3>2
    <3> QED BY <3>1, <3>2, <3>4, <3>5
  <2>10. /\ Len([j.steps EXCEPT ![l] = s]) = l
         /\ \A k \in 1..l : [j.steps EXCEPT ![l] = s][k] = IF k = l THEN s ELSE j.steps[k]
    <3> HIDE DEF s
    <3> QED BY <1>1, <2>1, <2>5, ExceptSeq
  <2>11. \A k \in 1..(l - 1) : k \in 1..l /\ k # l BY <2>1
  <2>12. l \in 1..l BY <2>1
  <2> QED
    <3> HIDE DEF s
    <3> QED BY <1>3, <2>1, <2>7, <2>8, <2>9, <2>10, <2>11, <2>12
<1> QED BY <1>2, <1>3

(* What a line is, it is for every line of the parser. *)
LEMMA LineRead ==
  ASSUME NEW p \in ParserStates, NEW c \in Cards
  PROVE  /\ Says(c, "JOB") => parse_line(p, c) = begin_job(p, c)
         /\ Says(c, "EXEC") => parse_line(p, c) = add_exec(p, c)
         /\ Says(c, "DD") =>
              parse_line(p, c) = [jobs |-> p.jobs, job |-> add_dd(p.job, parse_dd(c)),
                                  seen |-> p.seen]
         /\ ~(Says(c, "JOB") \/ Says(c, "EXEC") \/ Says(c, "DD")) => parse_line(p, c) = p
<1>1. p = [jobs |-> p.jobs, job |-> p.job, seen |-> p.seen] BY DEF ParserStates
<1>2. CASE Says(c, "JOB")
  <2>1. ~Says(c, "EXEC") /\ ~Says(c, "DD") BY <1>2 DEF Says
  <2> QED BY <1>2, <2>1 DEF parse_line
<1>3. CASE Says(c, "EXEC")
  <2>1. ~Says(c, "JOB") /\ ~Says(c, "DD") BY <1>3 DEF Says
  <2> QED BY <1>3, <2>1 DEF parse_line
<1>4. CASE Says(c, "DD")
  <2>1. ~Says(c, "JOB") /\ ~Says(c, "EXEC") BY <1>4 DEF Says
  <2>2. parse_line(p, c) = [p EXCEPT !.job = add_dd(@, parse_dd(c))]
    BY <1>4, <2>1 DEF parse_line
  <2>3. parse_line(p, c) = [p EXCEPT !.job = add_dd(p.job, parse_dd(c))] BY <2>2
  <2>4. [p EXCEPT !.job = add_dd(p.job, parse_dd(c))]
          = [jobs |-> p.jobs, job |-> add_dd(p.job, parse_dd(c)), seen |-> p.seen]
    BY <1>1
  <2> QED BY <1>4, <2>1, <2>3, <2>4
<1>5. CASE ~(Says(c, "JOB") \/ Says(c, "EXEC") \/ Says(c, "DD"))
  BY <1>5 DEF parse_line
<1> QED BY <1>2, <1>3, <1>4, <1>5

(* An EXEC is one step more of the last job. *)
LEMMA AddExec ==
  ASSUME NEW p \in ParserStates, NEW c \in Cards
  PROVE  add_exec(p, c)
           = [jobs |-> p.jobs, seen |-> p.seen,
              job |-> [name |-> p.job.name, dds |-> p.job.dds,
                       steps |-> Append(p.job.steps, parse_exec(c))]]
<1>1. p = [jobs |-> p.jobs, job |-> p.job, seen |-> p.seen]
      /\ p.job = [name |-> p.job.name, steps |-> p.job.steps, dds |-> p.job.dds]
  BY DEF ParserStates, JobRecords
<1>2. PICK j : j = p.job OBVIOUS
<1>3. PICK x : x = Append(j.steps, parse_exec(c)) OBVIOUS
<1>4. PICK k : k = [j EXCEPT !.steps = x] OBVIOUS
<1>5. k = [name |-> j.name, dds |-> j.dds, steps |-> x] BY <1>1, <1>2, <1>4
<1>6. add_exec(p, c) = [p EXCEPT !.job = k] BY <1>2, <1>3, <1>4 DEF add_exec
<1>7. [p EXCEPT !.job = k] = [jobs |-> p.jobs, seen |-> p.seen, job |-> k] BY <1>1
<1> QED BY <1>2, <1>3, <1>5, <1>6, <1>7

(* The parser keeps its type. *)
LEMMA ParserKeepsItsType ==
  ASSUME NEW p \in ParserStates, NEW c \in Cards
  PROVE  parse_line(p, c) \in ParserStates
<1>1. /\ p.jobs \in Seq(JobRecords) /\ p.job \in JobRecords /\ p.seen \in BOOLEAN
  BY DEF ParserStates
<1>2. /\ p.job.name \in NamesRead /\ p.job.steps \in Seq(StepRecords)
      /\ p.job.dds \in Seq(DDRecords)
  BY <1>1 DEF JobRecords
<1>3. c.name \in NamesRead /\ parse_dd(c) \in DDRecords /\ parse_exec(c) \in StepRecords
  BY CardTypes
<1>4. CASE Says(c, "JOB")
  <2> DEFINE job == IF p.seen THEN NoJob ELSE p.job
  <2>1. Append(p.jobs, p.job) \in Seq(JobRecords) BY <1>1, AppendProperties
  <2>2. job.steps \in Seq(StepRecords) /\ job.dds \in Seq(DDRecords)
    <3>1. NoJob.steps \in Seq(StepRecords) /\ NoJob.dds \in Seq(DDRecords)
      BY EmptySeq DEF NoJob
    <3> QED BY <1>2, <3>1
  <2>3. begin_job(p, c)
          = [jobs |-> IF p.seen THEN Append(p.jobs, p.job) ELSE p.jobs, seen |-> TRUE,
             job |-> [name |-> c.name, steps |-> job.steps, dds |-> job.dds]]
    BY DEF begin_job
  <2> HIDE DEF job
  <2>4. [name |-> c.name, steps |-> job.steps, dds |-> job.dds] \in JobRecords
    BY <1>3, <2>2 DEF JobRecords
  <2>5. begin_job(p, c) \in ParserStates BY <1>1, <2>1, <2>3, <2>4 DEF ParserStates
  <2> QED BY <1>4, <2>5, LineRead
<1>5. CASE Says(c, "EXEC")
  <2>1. Append(p.job.steps, parse_exec(c)) \in Seq(StepRecords)
    BY <1>2, <1>3, AppendProperties
  <2>2. [name |-> p.job.name, dds |-> p.job.dds,
         steps |-> Append(p.job.steps, parse_exec(c))] \in JobRecords
    BY <1>2, <2>1 DEF JobRecords
  <2>3. parse_line(p, c)
          = [jobs |-> p.jobs, seen |-> p.seen,
             job |-> [name |-> p.job.name, dds |-> p.job.dds,
                      steps |-> Append(p.job.steps, parse_exec(c))]]
    BY <1>5, LineRead, AddExec
  <2> QED BY <1>1, <2>2, <2>3 DEF ParserStates
<1>6. CASE Says(c, "DD")
  <2>1. parse_line(p, c) = [jobs |-> p.jobs, job |-> add_dd(p.job, parse_dd(c)),
                            seen |-> p.seen]
    BY <1>6, LineRead
  <2>2. add_dd(p.job, parse_dd(c)) \in JobRecords BY <1>1, <1>3, AddDDTypes
  <2> QED BY <1>1, <2>1, <2>2 DEF ParserStates
<1>7. CASE ~(Says(c, "JOB") \/ Says(c, "EXEC") \/ Says(c, "DD"))
  BY <1>7, LineRead
<1> QED BY <1>4, <1>5, <1>6, <1>7

-----------------------------------------------------------------------------
(* The jobs as written, in the parser's terms.                             *)
RawDDs(m, i) == Mapped(DDsAt(m, i), [k \in DOMAIN m |-> parse_dd(m[k])])
StepFrom(m, k) ==
  [name |-> parse_exec(m[k]).name, program |-> parse_exec(m[k]).program,
   cond |-> parse_exec(m[k]).cond, dds |-> RawDDs(m, k)]
RawSteps(m, i) == Mapped(StepsAt(m, i), [k \in DOMAIN m |-> StepFrom(m, k)])

(* What E says of the positions is a sequence. *)
LEMMA MappedIsSeq ==
  ASSUME NEW n \in Nat, NEW S \in SUBSET (1..n), NEW E, NEW V, \A k \in S : E[k] \in V
  PROVE  /\ Mapped(S, E) \in Seq(V) /\ Len(Mapped(S, E)) = Cardinality(S)
         /\ DOMAIN Mapped(S, E) = 1..Cardinality(S)
         /\ \A k \in 1..Cardinality(S) : Mapped(S, E)[k] = E[Nth(S, k)]
<1>1. Cardinality(S) \in Nat BY PositionsAreFinite
<1>2. \A k \in 1..Cardinality(S) : E[Nth(S, k)] \in V BY NthIsListed
<1> QED BY <1>1, <1>2 DEF Mapped

(* They are sequences of the parser's records. *)
LEMMA RawTypes ==
  ASSUME NEW m \in Seq(Cards), NEW i
  PROVE  /\ RawDDs(m, i) \in Seq(DDRecords)
         /\ \A k \in DOMAIN m : StepFrom(m, k) \in StepRecords
         /\ RawSteps(m, i) \in Seq(StepRecords)
         /\ Len(RawSteps(m, i)) = Cardinality(StepsAt(m, i))
         /\ \A k \in 1..Cardinality(StepsAt(m, i)) :
              RawSteps(m, i)[k] = StepFrom(m, Nth(StepsAt(m, i), k))
<1>1. Len(m) \in Nat /\ DOMAIN m = 1..Len(m) /\ \A k \in DOMAIN m : m[k] \in Cards
  BY LenProperties, ElementOfSeq
<1>2. ASSUME NEW k PROVE RawDDs(m, k) \in Seq(DDRecords)
  <2>1. DDsAt(m, k) \in SUBSET (1..Len(m)) BY AreaOfPositions DEF DDsAt
  <2>2. \A j \in DDsAt(m, k) : [l \in DOMAIN m |-> parse_dd(m[l])][j] \in DDRecords
    BY <1>1, <2>1, CardTypes
  <2> QED BY <1>1, <2>1, <2>2, MappedIsSeq DEF RawDDs
<1>3. ASSUME NEW k \in DOMAIN m PROVE StepFrom(m, k) \in StepRecords
  <2>1. parse_exec(m[k]) \in StepRecords BY <1>1, CardTypes
  <2> QED BY <1>2, <2>1 DEF StepFrom, StepRecords
<1>4. StepsAt(m, i) \in SUBSET (1..Len(m)) BY AreaOfPositions DEF StepsAt
<1>5. \A j \in StepsAt(m, i) :
        /\ [l \in DOMAIN m |-> StepFrom(m, l)][j] = StepFrom(m, j)
        /\ StepFrom(m, j) \in StepRecords
  BY <1>1, <1>3, <1>4
<1>6. /\ RawSteps(m, i) \in Seq(StepRecords)
      /\ Len(RawSteps(m, i)) = Cardinality(StepsAt(m, i))
      /\ \A k \in 1..Cardinality(StepsAt(m, i)) :
           RawSteps(m, i)[k] = [l \in DOMAIN m |-> StepFrom(m, l)][Nth(StepsAt(m, i), k)]
  <2> DEFINE E == [l \in DOMAIN m |-> StepFrom(m, l)]
  <2>1. \A j \in StepsAt(m, i) : E[j] \in StepRecords BY <1>5
  <2> HIDE DEF E
  <2>2. /\ Mapped(StepsAt(m, i), E) \in Seq(StepRecords)
        /\ Len(Mapped(StepsAt(m, i), E)) = Cardinality(StepsAt(m, i))
        /\ \A k \in 1..Cardinality(StepsAt(m, i)) :
             Mapped(StepsAt(m, i), E)[k] = E[Nth(StepsAt(m, i), k)]
    BY <1>1, <1>4, <2>1, MappedIsSeq
  <2> QED BY <2>2 DEF RawSteps, E
<1>7. \A k \in 1..Cardinality(StepsAt(m, i)) : Nth(StepsAt(m, i), k) \in StepsAt(m, i)
  BY <1>1, <1>4, NthIsListed
<1> QED BY <1>2, <1>3, <1>5, <1>6, <1>7
-----------------------------------------------------------------------------
(* What is settled and what is still open when the next statement comes.   *)

(* A DD is one more of the owner that is open. *)
LEMMA DDsGrow ==
  ASSUME NEW m \in Seq(Cards), NEW c \in Cards, NEW i \in 1..Len(m)
  PROVE  RawDDs(Append(m, c), i)
           = IF c.stmt = "DD" /\ Open(m, i, {"JOB", "EXEC"})
             THEN Append(RawDDs(m, i), parse_dd(c)) ELSE RawDDs(m, i)
<1> DEFINE n == Append(m, c)
           S == DDsAt(m, i)
           E == [k \in DOMAIN m |-> parse_dd(m[k])]
           F == [k \in DOMAIN n |-> parse_dd(n[k])]
<1>1. /\ Len(m) \in Nat /\ DOMAIN m = 1..Len(m) /\ DOMAIN n = DOMAIN m \cup {Len(m) + 1}
      /\ \A k \in DOMAIN m : n[k] = m[k] /\ m[k] \in Cards
      /\ n[Len(m) + 1] = c
  BY OneMore, ElementOfSeq
<1>2. S \in SUBSET (1..Len(m)) BY AreaOfPositions DEF DDsAt
<1>3. \A k \in S : F[k] = E[k] /\ E[k] \in DDRecords BY <1>1, <1>2, CardTypes
<1>4. F[Len(m) + 1] = parse_dd(c) /\ parse_dd(c) \in DDRecords BY <1>1, CardTypes
<1>5. DDsAt(n, i) = IF c.stmt = "DD" /\ Open(m, i, {"JOB", "EXEC"})
                    THEN S \cup {Len(m) + 1} ELSE S
  <2>1. PICK owners : owners = {"JOB", "EXEC"} OBVIOUS
  <2>2. Under(n, i, owners, "DD")
          = IF c.stmt = "DD" /\ "DD" \notin owners /\ Open(m, i, owners)
            THEN Under(m, i, owners, "DD") \cup {Len(m) + 1} ELSE Under(m, i, owners, "DD")
    BY UnderGrows
  <2> QED BY <2>1, <2>2 DEF DDsAt
<1>6. RawDDs(n, i) = Mapped(DDsAt(n, i), F) /\ RawDDs(m, i) = Mapped(S, E) BY DEF RawDDs
<1> HIDE DEF n, S, E, F
<1>7. Mapped(S, F) = Mapped(S, E) BY <1>1, <1>2, <1>3, MappedIsLocal
<1>8. Mapped(S \cup {Len(m) + 1}, F) = Append(Mapped(S, E), F[Len(m) + 1])
  <2>1. \A k \in S : F[k] = E[k] BY <1>3
  <2> QED BY <1>1, <1>2, <2>1, MappedAppends
<1> QED BY <1>4, <1>5, <1>6, <1>7, <1>8 DEF n

(* The newest statement is read as one without DDs. *)
LEMMA NewStep ==
  ASSUME NEW m \in Seq(Cards), NEW c \in Cards
  PROVE  StepFrom(Append(m, c), Len(m) + 1) = parse_exec(c)
<1>1. Append(m, c)[Len(m) + 1] = c BY OneMore
<1>2. RawDDs(Append(m, c), Len(m) + 1) = <<>>
  <2>1. DDsAt(Append(m, c), Len(m) + 1) = {} BY NothingUnderTheNewest DEF DDsAt
  <2> QED BY <2>1, FS_EmptySet DEF RawDDs, Mapped
<1>3. parse_exec(c) = [name |-> parse_exec(c).name, program |-> parse_exec(c).program,
                       cond |-> parse_exec(c).cond, dds |-> <<>>]
  BY DEF parse_exec
<1> QED BY <1>1, <1>2, <1>3 DEF StepFrom

(* A step stays what it is unless a DD comes while it is open. *)
LEMMA StepGrows ==
  ASSUME NEW m \in Seq(Cards), NEW c \in Cards, NEW i \in 1..Len(m)
  PROVE  StepFrom(Append(m, c), i)
           = IF c.stmt = "DD" /\ Open(m, i, {"JOB", "EXEC"})
             THEN [name |-> StepFrom(m, i).name, program |-> StepFrom(m, i).program,
                   cond |-> StepFrom(m, i).cond,
                   dds |-> Append(StepFrom(m, i).dds, parse_dd(c))]
             ELSE StepFrom(m, i)
<1>1. Append(m, c)[i] = m[i] BY OneMore
<1>2. RawDDs(Append(m, c), i)
        = IF c.stmt = "DD" /\ Open(m, i, {"JOB", "EXEC"})
          THEN Append(RawDDs(m, i), parse_dd(c)) ELSE RawDDs(m, i)
  BY DDsGrow
<1> QED BY <1>1, <1>2 DEF StepFrom

(* A job whose steps get no statement more keeps them. *)
LEMMA StepsSettled ==
  ASSUME NEW m \in Seq(Cards), NEW c \in Cards, NEW i \in 1..Len(m),
         ~(c.stmt = "EXEC" /\ Open(m, i, {"JOB"})),
         \A k \in StepsAt(m, i) : ~(c.stmt = "DD" /\ Open(m, k, {"JOB", "EXEC"}))
  PROVE  /\ StepsAt(Append(m, c), i) = StepsAt(m, i)
         /\ RawSteps(Append(m, c), i) = RawSteps(m, i)
<1> DEFINE n == Append(m, c)
           S == StepsAt(m, i)
           E == [k \in DOMAIN m |-> StepFrom(m, k)]
           F == [k \in DOMAIN n |-> StepFrom(n, k)]
<1>1. /\ Len(m) \in Nat /\ DOMAIN m = 1..Len(m) /\ DOMAIN n = DOMAIN m \cup {Len(m) + 1}
  BY OneMore
<1>2. S \in SUBSET (1..Len(m)) BY AreaOfPositions DEF StepsAt
<1>3. ASSUME NEW k \in S PROVE F[k] = E[k]
  <2>1. k \in 1..Len(m) /\ k \in DOMAIN n BY <1>1, <1>2
  <2>2. StepFrom(n, k) = StepFrom(m, k) BY <2>1, StepGrows
  <2> QED BY <1>1, <2>1, <2>2
<1>4. StepsAt(n, i) = S BY UnderGrows DEF StepsAt
<1>5. RawSteps(n, i) = Mapped(StepsAt(n, i), F) /\ RawSteps(m, i) = Mapped(S, E)
  BY DEF RawSteps
<1> HIDE DEF n, S, E, F
<1>6. Mapped(S, F) = Mapped(S, E) BY <1>1, <1>2, <1>3, MappedIsLocal
<1> QED BY <1>4, <1>5, <1>6 DEF n, S

(* An EXEC is one step more of the job that is open. *)
LEMMA StepAdded ==
  ASSUME NEW m \in Seq(Cards), NEW c \in Cards, NEW i \in 1..Len(m),
         c.stmt = "EXEC", Open(m, i, {"JOB"})
  PROVE  RawSteps(Append(m, c), i) = Append(RawSteps(m, i), parse_exec(c))
<1> DEFINE n == Append(m, c)
           S == StepsAt(m, i)
           E == [k \in DOMAIN m |-> StepFrom(m, k)]
           F == [k \in DOMAIN n |-> StepFrom(n, k)]
<1>1. /\ Len(m) \in Nat /\ DOMAIN m = 1..Len(m) /\ DOMAIN n = DOMAIN m \cup {Len(m) + 1}
  BY OneMore
<1>2. S \in SUBSET (1..Len(m)) BY AreaOfPositions DEF StepsAt
<1>3. ASSUME NEW k \in S PROVE F[k] = E[k] /\ E[k] \in StepRecords
  <2>1. k \in 1..Len(m) /\ k \in DOMAIN n /\ k \in DOMAIN m BY <1>1, <1>2
  <2>2. StepFrom(n, k) = StepFrom(m, k) BY <2>1, StepGrows
  <2>3. StepFrom(m, k) \in StepRecords BY <2>1, RawTypes
  <2> QED BY <2>1, <2>2, <2>3
<1>4. F[Len(m) + 1] = parse_exec(c) /\ parse_exec(c) \in StepRecords
  BY <1>1, NewStep, CardTypes
<1>5. StepsAt(n, i) = S \cup {Len(m) + 1} BY UnderGrows DEF StepsAt
<1>6. RawSteps(n, i) = Mapped(StepsAt(n, i), F) /\ RawSteps(m, i) = Mapped(S, E)
  BY DEF RawSteps
<1> HIDE DEF n, S, E, F
<1>7. Mapped(S \cup {Len(m) + 1}, F) = Append(Mapped(S, E), F[Len(m) + 1])
  <2>1. \A k \in S : F[k] = E[k] BY <1>3
  <2> QED BY <1>1, <1>2, <2>1, MappedAppends
<1> QED BY <1>4, <1>5, <1>6, <1>7 DEF n
(* The steps of a job that has ended are closed with it. *)
LEMMA StepsOfAnEndedJob ==
  ASSUME NEW m \in Seq(Cards), NEW i \in 1..Len(m), ~Open(m, i, {"JOB"}),
         NEW k \in StepsAt(m, i)
  PROVE  ~Open(m, k, {"JOB", "EXEC"})
<1>1. PICK j \in (i + 1)..Len(m) : m[j].stmt = "JOB" BY DEF Open
<1>2. Len(m) \in Nat /\ k \in 1..Len(m) /\ i < k
  BY AreaOfPositions, LenProperties DEF StepsAt, Under
<1>3. \A l \in (i + 1)..k : m[l].stmt # "JOB" BY DEF StepsAt, Under
<1>4. j \in Nat /\ i \in Nat /\ k \in Nat /\ i < j /\ j <= Len(m) BY <1>1, <1>2
<1>5. ~(j <= k)
  <2> SUFFICES ASSUME j <= k PROVE FALSE OBVIOUS
  <2>1. j \in (i + 1)..k BY <1>4
  <2> QED BY <1>1, <1>3, <2>1
<1>6. j \in (k + 1)..Len(m) BY <1>4, <1>5
<1> QED BY <1>1, <1>6 DEF Open

(* Of the steps of the job that is open the last is, and no other. *)
LEMMA LastStepIsOpen ==
  ASSUME NEW m \in Seq(Cards), NEW i \in 1..Len(m), Open(m, i, {"JOB"}),
         StepsAt(m, i) # {}
  PROVE  LET z == Nth(StepsAt(m, i), Cardinality(StepsAt(m, i)))
         IN /\ Cardinality(StepsAt(m, i)) \in Nat \ {0}
            /\ z \in StepsAt(m, i) /\ Open(m, z, {"JOB", "EXEC"})
            /\ \A k \in StepsAt(m, i) : k # z => ~Open(m, k, {"JOB", "EXEC"})
<1> DEFINE S == StepsAt(m, i)
           z == Nth(S, Cardinality(S))
<1>1. Len(m) \in Nat /\ DOMAIN m = 1..Len(m) /\ S \in SUBSET (1..Len(m))
  BY AreaOfPositions, LenProperties DEF StepsAt
<1>2. Cardinality(S) \in Nat \ {0} /\ z \in S /\ \A k \in S : k <= z
  <2>1. S # {} OBVIOUS
  <2> HIDE DEF S
  <2> QED BY <1>1, <2>1, TheLast
<1>3. \A k \in S : m[k].stmt = "EXEC" /\ i < k /\ k \in Nat /\ k <= Len(m)
  BY <1>1 DEF StepsAt, Under
<1>4. ASSUME NEW j \in (z + 1)..Len(m) PROVE m[j].stmt \notin {"JOB", "EXEC"}
  <2>1. z \in Nat /\ i < z BY <1>2, <1>3
  <2>2. j \in (i + 1)..Len(m) /\ j \in Nat /\ z < j /\ j \in 1..Len(m) /\ i < j BY <1>1, <2>1
  <2>3. m[j].stmt # "JOB" BY <2>2 DEF Open
  <2>4. SUFFICES ASSUME m[j].stmt = "EXEC" PROVE FALSE BY <2>3
  <2>5. \A l \in (i + 1)..j : l \in (i + 1)..Len(m) BY <1>1, <2>2
  <2>6. \A l \in (i + 1)..j : m[l].stmt \notin {"JOB"} BY <2>5 DEF Open
  <2>7. j \in S BY <1>1, <2>2, <2>4, <2>6 DEF StepsAt, Under
  <2>8. j <= z BY <1>2, <2>7
  <2> QED BY <2>1, <2>2, <2>8
<1>5. ASSUME NEW k \in S, k # z PROVE ~Open(m, k, {"JOB", "EXEC"})
  <2>1. k \in Nat /\ z \in Nat /\ k <= z /\ z <= Len(m) /\ m[z].stmt = "EXEC"
    BY <1>2, <1>3
  <2>2. z \in (k + 1)..Len(m) BY <1>1, <1>5, <2>1
  <2> QED BY <2>1, <2>2 DEF Open
<1>6. Open(m, z, {"JOB", "EXEC"}) BY <1>4 DEF Open
<1> QED BY <1>2, <1>5, <1>6

(* It is the one a DD goes to. *)
LEMMA StepGetsDD ==
  ASSUME NEW m \in Seq(Cards), NEW c \in Cards, NEW i \in 1..Len(m),
         c.stmt = "DD", Open(m, i, {"JOB"}), StepsAt(m, i) # {}
  PROVE  LET old == RawSteps(m, i)
             new == RawSteps(Append(m, c), i)
         IN /\ Len(old) \in Nat \ {0} /\ Len(new) = Len(old)
            /\ \A k \in 1..(Len(old) - 1) : new[k] = old[k]
            /\ new[Len(old)] = [name |-> old[Len(old)].name,
                                program |-> old[Len(old)].program,
                                cond |-> old[Len(old)].cond,
                                dds |-> Append(old[Len(old)].dds, parse_dd(c))]
<1> DEFINE n == Append(m, c)
           S == StepsAt(m, i)
           z == Nth(S, Cardinality(S))
<1>1. /\ Len(m) \in Nat /\ DOMAIN m = 1..Len(m) /\ n \in Seq(Cards)
      /\ S \in SUBSET (1..Len(m))
  BY OneMore, AreaOfPositions DEF StepsAt
<1>2. /\ Cardinality(S) \in Nat \ {0} /\ z \in S /\ Open(m, z, {"JOB", "EXEC"})
      /\ \A k \in S : k # z => ~Open(m, k, {"JOB", "EXEC"})
  BY LastStepIsOpen
<1>3. \A k \in 1..(Cardinality(S) - 1) : Nth(S, k) \in S /\ Nth(S, k) # z
  <2>1. \A k \in 1..(Cardinality(S) - 1) : Nth(S, k) \in S /\ Nth(S, k) < z
    <3>1. S # {} OBVIOUS
    <3> HIDE DEF S
    <3> QED BY <1>1, <3>1, TheLast
  <2>2. \A k \in S : k \in Nat BY <1>1
  <2>3. \A k \in S : ~(k < k) BY <2>2
  <2> QED BY <1>2, <2>1, <2>3
<1>4. StepsAt(n, i) = S
  <2>1. "DD" # "EXEC" OBVIOUS
  <2> QED BY <2>1, UnderGrows DEF StepsAt
<1>5. /\ Len(RawSteps(m, i)) = Cardinality(S) /\ Len(RawSteps(n, i)) = Cardinality(S)
      /\ \A k \in 1..Cardinality(S) : RawSteps(m, i)[k] = StepFrom(m, Nth(S, k))
      /\ \A k \in 1..Cardinality(S) : RawSteps(n, i)[k] = StepFrom(n, Nth(S, k))
  BY <1>1, <1>4, RawTypes
<1>6. ASSUME NEW k \in 1..(Cardinality(S) - 1)
      PROVE  RawSteps(n, i)[k] = RawSteps(m, i)[k]
  <2>1. k \in 1..Cardinality(S) BY <1>2
  <2>2. Nth(S, k) \in 1..Len(m) /\ ~Open(m, Nth(S, k), {"JOB", "EXEC"}) BY <1>1, <1>2, <1>3
  <2>3. StepFrom(n, Nth(S, k)) = StepFrom(m, Nth(S, k)) BY <2>2, StepGrows
  <2> QED BY <1>5, <2>1, <2>3
<1>7. StepFrom(n, z) = [name |-> StepFrom(m, z).name, program |-> StepFrom(m, z).program,
                        cond |-> StepFrom(m, z).cond,
                        dds |-> Append(StepFrom(m, z).dds, parse_dd(c))]
  BY <1>1, <1>2, StepGrows
<1>8. Cardinality(S) \in 1..Cardinality(S) BY <1>2
<1>9. RawSteps(m, i)[Cardinality(S)] = StepFrom(m, z)
      /\ RawSteps(n, i)[Cardinality(S)] = StepFrom(n, z)
  BY <1>5, <1>8
<1> HIDE DEF n, S, z
<1> QED BY <1>2, <1>5, <1>6, <1>7, <1>9 DEF n
(* The last JOB is open, the others have ended. *)
Current(m) == Nth(At(m, "JOB"), Cardinality(At(m, "JOB")))

LEMMA CurrentJob ==
  ASSUME NEW m \in Seq(Cards), At(m, "JOB") # {}
  PROVE  /\ Cardinality(At(m, "JOB")) \in Nat \ {0}
         /\ Current(m) \in 1..Len(m) /\ m[Current(m)].stmt = "JOB"
         /\ Open(m, Current(m), {"JOB"})
         /\ \A j \in At(m, "JOB") : j <= Current(m)
         /\ \A r \in 1..(Cardinality(At(m, "JOB")) - 1) :
              LET j == Nth(At(m, "JOB"), r)
              IN j \in 1..Len(m) /\ m[j].stmt = "JOB" /\ ~Open(m, j, {"JOB"})
<1> DEFINE S == At(m, "JOB")
           h == Nth(S, Cardinality(S))
<1>1. Len(m) \in Nat /\ DOMAIN m = 1..Len(m) /\ S \in SUBSET (1..Len(m))
  BY AreaOfPositions, LenProperties
<1>2. /\ Cardinality(S) \in Nat \ {0} /\ h \in S /\ \A k \in S : k <= h
      /\ \A r \in 1..(Cardinality(S) - 1) : Nth(S, r) \in S /\ Nth(S, r) < h
  <2>1. S # {} OBVIOUS
  <2> HIDE DEF S
  <2> QED BY <1>1, <2>1, TheLast
<1>3. \A k \in S : m[k].stmt = "JOB" /\ k \in 1..Len(m) /\ k \in Nat BY <1>1 DEF At
<1>4. ASSUME NEW j \in (h + 1)..Len(m) PROVE m[j].stmt \notin {"JOB"}
  <2>1. h \in Nat BY <1>2, <1>3
  <2>2. j \in 1..Len(m) /\ ~(j <= h) BY <1>1, <2>1
  <2> QED BY <1>1, <1>2, <2>2 DEF At
<1>5. Open(m, h, {"JOB"}) BY <1>4 DEF Open
<1>6. ASSUME NEW r \in 1..(Cardinality(S) - 1)
      PROVE  Nth(S, r) \in S /\ ~Open(m, Nth(S, r), {"JOB"})
  <2>1. Nth(S, r) \in S /\ Nth(S, r) < h BY <1>2
  <2>2. Nth(S, r) \in Nat /\ h \in Nat /\ h <= Len(m) /\ m[h].stmt = "JOB"
    BY <1>1, <1>2, <1>3, <2>1
  <2>3. h \in (Nth(S, r) + 1)..Len(m) BY <1>1, <2>1, <2>2
  <2> QED BY <2>1, <2>2, <2>3 DEF Open
<1> HIDE DEF S, h
<1>7. Current(m) = h BY DEF Current, S, h
<1> QED BY <1>2, <1>3, <1>5, <1>6, <1>7 DEF S

(* The parser's jobs are the jobs as written. *)
JobsKept(p, m) ==
  /\ Cardinality(At(m, "JOB")) = Len(p.jobs) + 1
  /\ \A r \in 1..Len(p.jobs) :
       /\ p.jobs[r].name = m[Nth(At(m, "JOB"), r)].name
       /\ p.jobs[r].steps = RawSteps(m, Nth(At(m, "JOB"), r))
  /\ p.job.name = m[Current(m)].name
  /\ p.job.steps = RawSteps(m, Current(m))

(* A DD before the first EXEC of its job is filed with the job. *)
Stranded(p) == p.job.dds # <<>> \/ \E r \in 1..Len(p.jobs) : p.jobs[r].dds # <<>>
Loose(m) == \E k \in At(m, "DD") : \A e \in At(m, "EXEC") : k \notin DDsAt(m, e)

Faithful(p, m) ==
  /\ At(m, "JOB") # {}
  /\ p.seen
  /\ JobsKept(p, m)
  /\ Stranded(p) <=> Loose(m)

(* No JOB more: the jobs are the same positions. *)
LEMMA SameJobs ==
  ASSUME NEW m \in Seq(Cards), NEW c \in Cards, c.stmt # "JOB", At(m, "JOB") # {}
  PROVE  /\ At(Append(m, c), "JOB") = At(m, "JOB")
         /\ Current(Append(m, c)) = Current(m)
         /\ Append(m, c)[Current(m)] = m[Current(m)]
         /\ \A r \in 1..(Cardinality(At(m, "JOB")) - 1) :
              LET j == Nth(At(m, "JOB"), r)
              IN Append(m, c)[j] = m[j] /\ RawSteps(Append(m, c), j) = RawSteps(m, j)
<1>1. At(Append(m, c), "JOB") = At(m, "JOB") BY KindGrows
<1>2. Current(Append(m, c)) = Current(m) BY <1>1 DEF Current
<1>3. \A k \in 1..Len(m) : Append(m, c)[k] = m[k] BY OneMore
<1>4. Append(m, c)[Current(m)] = m[Current(m)] BY <1>3, CurrentJob
<1>5. ASSUME NEW r \in 1..(Cardinality(At(m, "JOB")) - 1)
      PROVE  LET j == Nth(At(m, "JOB"), r)
             IN Append(m, c)[j] = m[j] /\ RawSteps(Append(m, c), j) = RawSteps(m, j)
  <2>1. PICK j : j = Nth(At(m, "JOB"), r) OBVIOUS
  <2>2. j \in 1..Len(m) /\ ~Open(m, j, {"JOB"}) BY <2>1, CurrentJob
  <2>3. \A k \in StepsAt(m, j) : ~Open(m, k, {"JOB", "EXEC"}) BY <2>2, StepsOfAnEndedJob
  <2>4. RawSteps(Append(m, c), j) = RawSteps(m, j) BY <2>2, <2>3, StepsSettled
  <2> QED BY <1>3, <2>1, <2>2, <2>4
<1> QED BY <1>1, <1>2, <1>4, <1>5
(* An EXEC is open exactly when the last job has a step. *)
LEMMA AnOpenStep ==
  ASSUME NEW m \in Seq(Cards), At(m, "JOB") # {}
  PROVE  (\E e \in At(m, "EXEC") : Open(m, e, {"JOB", "EXEC"}))
           <=> StepsAt(m, Current(m)) # {}
<1>0. PICK h : h = Current(m) OBVIOUS
<1>1. Len(m) \in Nat /\ DOMAIN m = 1..Len(m) BY LenProperties
<1>2. h \in 1..Len(m) /\ m[h].stmt = "JOB" /\ Open(m, h, {"JOB"}) BY <1>0, CurrentJob
<1>3. ASSUME StepsAt(m, h) # {}
      PROVE  \E e \in At(m, "EXEC") : Open(m, e, {"JOB", "EXEC"})
  <2>1. PICK e : e \in StepsAt(m, h) /\ Open(m, e, {"JOB", "EXEC"})
    BY <1>2, <1>3, LastStepIsOpen
  <2>2. e \in At(m, "EXEC") BY <2>1 DEF StepsAt, Under, At
  <2> QED BY <2>1, <2>2
<1>4. ASSUME NEW e \in At(m, "EXEC"), Open(m, e, {"JOB", "EXEC"})
      PROVE  e \in StepsAt(m, h)
  <2>1. e \in 1..Len(m) /\ m[e].stmt = "EXEC" /\ e \in Nat BY <1>1 DEF At
  <2>2. h \in Nat /\ h <= Len(m) /\ h # e BY <1>1, <1>2, <2>1
  <2>3. ~(e < h)
    <3> SUFFICES ASSUME e < h PROVE FALSE OBVIOUS
    <3>1. h \in (e + 1)..Len(m) BY <1>1, <2>1, <2>2
    <3>2. m[h].stmt \notin {"JOB", "EXEC"} BY <1>4, <3>1 DEF Open
    <3> QED BY <1>2, <3>2
  <2>4. h < e BY <2>1, <2>2, <2>3
  <2>5. \A l \in (h + 1)..e : l \in (h + 1)..Len(m) BY <1>1, <2>1, <2>2
  <2>6. \A l \in (h + 1)..e : m[l].stmt \notin {"JOB"} BY <1>2, <2>5 DEF Open
  <2> QED BY <1>1, <2>1, <2>4, <2>6 DEF StepsAt, Under
<1> QED BY <1>0, <1>3, <1>4

(* A DD is loose when it comes while no step is open. *)
LEMMA LooseGrows ==
  ASSUME NEW m \in Seq(Cards), NEW c \in Cards, At(m, "JOB") # {}
  PROVE  Loose(Append(m, c))
           <=> Loose(m) \/ (c.stmt = "DD" /\ StepsAt(m, Current(m)) = {})
<1> DEFINE n == Append(m, c)
           z == Len(m) + 1
<1>1. /\ Len(m) \in Nat /\ DOMAIN m = 1..Len(m) /\ \A s : At(m, s) \in SUBSET (1..Len(m))
  BY LenProperties, AreaOfPositions
<1>2. \A e \in 1..Len(m) : DDsAt(n, e) = IF c.stmt = "DD" /\ Open(m, e, {"JOB", "EXEC"})
                                         THEN DDsAt(m, e) \cup {z} ELSE DDsAt(m, e)
  <2> SUFFICES ASSUME NEW e \in 1..Len(m)
               PROVE  DDsAt(n, e) = IF c.stmt = "DD" /\ Open(m, e, {"JOB", "EXEC"})
                                    THEN DDsAt(m, e) \cup {z} ELSE DDsAt(m, e)
    OBVIOUS
  <2>1. PICK owners : owners = {"JOB", "EXEC"} OBVIOUS
  <2>2. Under(n, e, owners, "DD")
          = IF c.stmt = "DD" /\ "DD" \notin owners /\ Open(m, e, owners)
            THEN Under(m, e, owners, "DD") \cup {z} ELSE Under(m, e, owners, "DD")
    BY UnderGrows
  <2> QED BY <2>1, <2>2 DEF DDsAt
<1>3. DDsAt(n, z) = {} BY NothingUnderTheNewest DEF DDsAt
<1>4. \A k \in 1..Len(m) : k # z BY <1>1
<1>5. \A e : DDsAt(m, e) \in SUBSET (1..Len(m)) BY AreaOfPositions DEF DDsAt
<1>6. \A k \in At(m, "DD") : \A e \in At(m, "EXEC") : k \in DDsAt(n, e) <=> k \in DDsAt(m, e)
  BY <1>1, <1>2, <1>4
<1>7. CASE c.stmt = "DD"
  <2>1. At(n, "DD") = At(m, "DD") \cup {z} /\ At(n, "EXEC") = At(m, "EXEC")
    BY <1>7, KindGrows
  <2>2. \A e \in At(m, "EXEC") : z \in DDsAt(n, e) <=> Open(m, e, {"JOB", "EXEC"})
    BY <1>1, <1>2, <1>4, <1>5, <1>7
  <2>3. (\A e \in At(n, "EXEC") : z \notin DDsAt(n, e)) <=> StepsAt(m, Current(m)) = {}
    BY <2>1, <2>2, AnOpenStep
  <2> HIDE DEF n, z
  <2>4. Loose(n) <=> Loose(m) \/ (\A e \in At(n, "EXEC") : z \notin DDsAt(n, e))
    BY <1>6, <2>1 DEF Loose
  <2> QED BY <1>7, <2>3, <2>4 DEF n
<1>8. CASE c.stmt # "DD"
  <2>1. At(n, "DD") = At(m, "DD") BY <1>8, KindGrows
  <2>2. At(n, "EXEC") = At(m, "EXEC") \/ At(n, "EXEC") = At(m, "EXEC") \cup {z}
    BY KindGrows
  <2> HIDE DEF n, z
  <2>3. Loose(n) <=> Loose(m) BY <1>3, <1>6, <2>1, <2>2 DEF Loose
  <2> QED BY <1>8, <2>3 DEF n
<1> QED BY <1>7, <1>8
-----------------------------------------------------------------------------
(* The parser reads one statement more.                                    *)

(* A position after the others is the last, the others keep their places. *)
LEMMA NthOfTheNext ==
  ASSUME NEW n \in Nat, NEW S \in SUBSET (1..n)
  PROVE  /\ Nth(S \cup {n + 1}, Cardinality(S) + 1) = n + 1
         /\ \A r \in 1..Cardinality(S) : Nth(S \cup {n + 1}, r) = Nth(S, r)
<1> DEFINE T == S \cup {n + 1}
<1>1. OfRank(T, Cardinality(S) + 1) = {n + 1}
      /\ \A r \in 1..Cardinality(S) : OfRank(T, r) = OfRank(S, r)
  BY RankOfTheNext
<1> HIDE DEF T
<1>2. Nth(T, Cardinality(S) + 1) = n + 1 BY <1>1, NthIsOfRank
<1>3. ASSUME NEW r \in 1..Cardinality(S) PROVE Nth(T, r) = Nth(S, r)
  <2>1. Nth(T, r) = CHOOSE k \in OfRank(T, r) : TRUE BY NthIsOfRank
  <2>2. Nth(S, r) = CHOOSE k \in OfRank(S, r) : TRUE BY NthIsOfRank
  <2> QED BY <1>1, <2>1, <2>2
<1> QED BY <1>2, <1>3 DEF T

(* A JOB begins a job and ends the one before. *)
LEMMA JobRead ==
  ASSUME NEW p \in ParserStates, NEW m \in Seq(Cards), NEW c \in Cards,
         Faithful(p, m), ~Misread(c), c.stmt = "JOB"
  PROVE  Faithful(parse_line(p, c), Append(m, c))
<1> DEFINE n == Append(m, c)
           z == Len(m) + 1
           S == At(m, "JOB")
<1>1. /\ Len(m) \in Nat /\ n[z] = c /\ \A k \in 1..Len(m) : n[k] = m[k]
  BY OneMore
<1>2. /\ p.jobs \in Seq(JobRecords) /\ p.job \in JobRecords /\ Len(p.jobs) \in Nat
  BY LenProperties DEF ParserStates
<1>3. /\ parse_line(p, c) = begin_job(p, c) /\ p.seen
  <2>1. Says(c, "JOB") BY DEF Misread, Says, Seen
  <2> QED BY <2>1, LineRead DEF Faithful
<1>4. begin_job(p, c) = [jobs |-> Append(p.jobs, p.job), seen |-> TRUE,
                         job |-> [name |-> c.name, steps |-> <<>>, dds |-> <<>>]]
  BY <1>3 DEF begin_job, NoJob
<1>5. PICK q : q = parse_line(p, c) OBVIOUS
<1>6. /\ q.seen /\ q.job.name = c.name /\ q.job.steps = <<>> /\ q.job.dds = <<>>
      /\ q.jobs = Append(p.jobs, p.job)
  BY <1>3, <1>4, <1>5
<1>7. /\ Len(q.jobs) = Len(p.jobs) + 1
      /\ \A r \in 1..Len(p.jobs) : q.jobs[r] = p.jobs[r]
      /\ q.jobs[Len(p.jobs) + 1] = p.job
  BY <1>2, <1>6, AppendProperties
<1>8. S \in SUBSET (1..Len(m)) /\ S # {} BY AreaOfPositions DEF Faithful
<1>9. At(n, "JOB") = S \cup {z} BY KindGrows
<1>10. /\ Cardinality(S) = Len(p.jobs) + 1
       /\ \A r \in 1..Len(p.jobs) : /\ p.jobs[r].name = m[Nth(S, r)].name
                                    /\ p.jobs[r].steps = RawSteps(m, Nth(S, r))
       /\ p.job.name = m[Nth(S, Cardinality(S))].name
       /\ p.job.steps = RawSteps(m, Nth(S, Cardinality(S)))
  BY DEF Faithful, JobsKept, Current
<1>11. /\ Cardinality(At(n, "JOB")) = Cardinality(S) + 1
       /\ Nth(At(n, "JOB"), Cardinality(S) + 1) = z
       /\ \A r \in 1..Cardinality(S) : Nth(At(n, "JOB"), r) = Nth(S, r) /\ Nth(S, r) \in 1..Len(m)
  <2> HIDE DEF S, n
  <2>1. Cardinality(S \cup {z}) = Cardinality(S) + 1 BY <1>1, <1>8, PositionsAreFinite
  <2>2. /\ Nth(S \cup {z}, Cardinality(S) + 1) = z
        /\ \A r \in 1..Cardinality(S) : Nth(S \cup {z}, r) = Nth(S, r)
    BY <1>1, <1>8, NthOfTheNext
  <2>3. \A r \in 1..Cardinality(S) : Nth(S, r) \in S BY <1>1, <1>8, NthIsListed
  <2> HIDE DEF z
  <2> QED BY <1>8, <1>9, <2>1, <2>2, <2>3
<1>12. \A k \in 1..Len(m) : RawSteps(n, k) = RawSteps(m, k)
  <2>1. c.stmt # "EXEC" /\ c.stmt # "DD" OBVIOUS
  <2> QED BY <2>1, StepsSettled
<1>13. RawSteps(n, z) = <<>>
  <2>1. StepsAt(n, z) = {} BY NothingUnderTheNewest DEF StepsAt
  <2> QED BY <2>1, MappedOfNone DEF RawSteps
<1>14. Stranded(q) <=> Stranded(p)
  <2>1. 1..(Len(p.jobs) + 1) = (1..Len(p.jobs)) \cup {Len(p.jobs) + 1} BY <1>2
  <2> QED BY <1>6, <1>7, <2>1 DEF Stranded
<1>15. Loose(n) <=> Loose(m)
  <2>1. c.stmt # "DD" OBVIOUS
  <2> QED BY <1>8, <2>1, LooseGrows
<1> HIDE DEF n, z, S
<1>16. ASSUME NEW r \in 1..Len(q.jobs)
       PROVE  /\ q.jobs[r].name = n[Nth(At(n, "JOB"), r)].name
              /\ q.jobs[r].steps = RawSteps(n, Nth(At(n, "JOB"), r))
  <2>0. r \in 1..Cardinality(S) BY <1>7, <1>10
  <2>1. PICK k \in 1..Len(m) : k = Nth(S, r) BY <1>11, <2>0
  <2>2. Nth(At(n, "JOB"), r) = k BY <1>11, <2>0, <2>1
  <2>3. n[k] = m[k] /\ RawSteps(n, k) = RawSteps(m, k) BY <1>1, <1>12
  <2>4. q.jobs[r].name = m[k].name /\ q.jobs[r].steps = RawSteps(m, k)
    <3>1. CASE r \in 1..Len(p.jobs) BY <1>7, <1>10, <2>1, <3>1
    <3>2. CASE r = Len(p.jobs) + 1 BY <1>7, <1>10, <2>1, <3>2
    <3> QED BY <1>2, <1>7, <3>1, <3>2
  <2> QED BY <2>2, <2>3, <2>4
<1>17. Current(n) = z BY <1>11 DEF Current
<1>18. JobsKept(q, n)
  <2>1. Cardinality(At(n, "JOB")) = Len(q.jobs) + 1 BY <1>7, <1>10, <1>11
  <2>2. q.job.name = n[Current(n)].name BY <1>1, <1>6, <1>17
  <2>3. q.job.steps = RawSteps(n, Current(n)) BY <1>6, <1>13, <1>17
  <2> QED BY <1>16, <2>1, <2>2, <2>3 DEF JobsKept
<1>19. Stranded(p) <=> Loose(m) BY DEF Faithful
<1>20. Faithful(q, n) BY <1>6, <1>9, <1>14, <1>15, <1>18, <1>19 DEF Faithful
<1> QED BY <1>5, <1>20 DEF n
(* The jobs that have ended stay as they are, whatever the last one does. *)
LEMMA EndedJobsKept ==
  ASSUME NEW p \in ParserStates, NEW q, NEW m \in Seq(Cards), NEW c \in Cards,
         Faithful(p, m), c.stmt # "JOB",
         q.jobs = p.jobs, q.job.name = p.job.name,
         q.job.steps = RawSteps(Append(m, c), Current(m))
  PROVE  JobsKept(q, Append(m, c)) /\ At(Append(m, c), "JOB") # {}
<1>1. /\ At(m, "JOB") # {} /\ Cardinality(At(m, "JOB")) = Len(p.jobs) + 1
      /\ p.job.name = m[Current(m)].name
      /\ \A r \in 1..Len(p.jobs) :
           /\ p.jobs[r].name = m[Nth(At(m, "JOB"), r)].name
           /\ p.jobs[r].steps = RawSteps(m, Nth(At(m, "JOB"), r))
  BY DEF Faithful, JobsKept
<1>2. /\ At(Append(m, c), "JOB") = At(m, "JOB") /\ Current(Append(m, c)) = Current(m)
      /\ Append(m, c)[Current(m)] = m[Current(m)]
      /\ \A r \in 1..(Cardinality(At(m, "JOB")) - 1) :
           /\ Append(m, c)[Nth(At(m, "JOB"), r)] = m[Nth(At(m, "JOB"), r)]
           /\ RawSteps(Append(m, c), Nth(At(m, "JOB"), r))
                = RawSteps(m, Nth(At(m, "JOB"), r))
  BY <1>1, SameJobs
<1>3. Len(p.jobs) \in Nat /\ (Len(p.jobs) + 1) - 1 = Len(p.jobs)
  BY LenProperties DEF ParserStates
<1> QED BY <1>1, <1>2, <1>3 DEF JobsKept

(* An EXEC is the next step of the last job. *)
LEMMA ExecRead ==
  ASSUME NEW p \in ParserStates, NEW m \in Seq(Cards), NEW c \in Cards,
         Faithful(p, m), ~Misread(c), c.stmt = "EXEC"
  PROVE  Faithful(parse_line(p, c), Append(m, c))
<1>1. parse_line(p, c) = [jobs |-> p.jobs, seen |-> p.seen,
                          job |-> [name |-> p.job.name, dds |-> p.job.dds,
                                   steps |-> Append(p.job.steps, parse_exec(c))]]
  <2>1. Says(c, "EXEC") BY DEF Misread, Says, Seen
  <2> QED BY <2>1, LineRead, AddExec
<1>2. PICK q : q = parse_line(p, c) OBVIOUS
<1>3. /\ q.jobs = p.jobs /\ q.seen = p.seen /\ q.job.name = p.job.name
      /\ q.job.dds = p.job.dds /\ q.job.steps = Append(p.job.steps, parse_exec(c))
  BY <1>1, <1>2
<1>4. /\ At(m, "JOB") # {} /\ p.seen /\ p.job.steps = RawSteps(m, Current(m))
      /\ (Stranded(p) <=> Loose(m))
  BY DEF Faithful, JobsKept
<1>5. Current(m) \in 1..Len(m) /\ Open(m, Current(m), {"JOB"}) BY <1>4, CurrentJob
<1>6. q.job.steps = RawSteps(Append(m, c), Current(m)) BY <1>3, <1>4, <1>5, StepAdded
<1>7. JobsKept(q, Append(m, c)) /\ At(Append(m, c), "JOB") # {}
  <2>1. c.stmt # "JOB" OBVIOUS
  <2> QED BY <1>3, <1>6, <2>1, EndedJobsKept
<1>8. Stranded(q) <=> Stranded(p) BY <1>3 DEF Stranded
<1>9. Loose(Append(m, c)) <=> Loose(m)
  <2>1. c.stmt # "DD" OBVIOUS
  <2> QED BY <1>4, <2>1, LooseGrows
<1>10. Faithful(q, Append(m, c)) BY <1>3, <1>4, <1>7, <1>8, <1>9 DEF Faithful
<1> QED BY <1>2, <1>10

(* A DD joins the last step of the last job, or is filed with the job. *)
LEMMA DDRead ==
  ASSUME NEW p \in ParserStates, NEW m \in Seq(Cards), NEW c \in Cards,
         Faithful(p, m), ~Misread(c), c.stmt = "DD"
  PROVE  Faithful(parse_line(p, c), Append(m, c))
<1>1. parse_line(p, c) = [jobs |-> p.jobs, job |-> add_dd(p.job, parse_dd(c)),
                          seen |-> p.seen]
  <2>1. Says(c, "DD") BY DEF Misread, Says, Seen
  <2> QED BY <2>1, LineRead
<1>2. PICK q : q = parse_line(p, c) OBVIOUS
<1>3. PICK dd \in DDRecords : dd = parse_dd(c) BY CardTypes
<1>4. q.jobs = p.jobs /\ q.seen = p.seen /\ q.job = add_dd(p.job, dd) BY <1>1, <1>2, <1>3
<1>5. /\ At(m, "JOB") # {} /\ p.seen /\ p.job.steps = RawSteps(m, Current(m))
      /\ (Stranded(p) <=> Loose(m))
  BY DEF Faithful, JobsKept
<1>6. PICK h \in 1..Len(m) : h = Current(m) /\ Open(m, h, {"JOB"}) BY <1>5, CurrentJob
<1>7. p.job \in JobRecords /\ p.job.steps \in Seq(StepRecords) BY DEF ParserStates, JobRecords
<1>8. PICK steps \in Seq(StepRecords) : steps = RawSteps(Append(m, c), h) BY OneMore, RawTypes
<1>9. Len(p.job.steps) = Cardinality(StepsAt(m, h)) BY <1>5, <1>6, RawTypes
<1>10. q.job.name = p.job.name BY <1>4, <1>7, AddDDTypes
<1>11. CASE StepsAt(m, h) = {}
  <2>1. p.job.steps = <<>>
    <3>1. Len(p.job.steps) = 0 BY <1>9, <1>11, FS_EmptySet
    <3> QED BY <1>7, <3>1, EmptySeq
  <2>2. q.job.steps = <<>> /\ q.job.dds # <<>>
    <3>1. PICK j \in JobRecords : j = p.job BY <1>7
    <3>2. add_dd(j, dd).steps = j.steps /\ add_dd(j, dd).dds # <<>>
      BY <2>1, <3>1, AddDDTypes
    <3> QED BY <1>4, <2>1, <3>1, <3>2
  <2>3. RawSteps(Append(m, c), h) = RawSteps(m, h)
    <3>1. c.stmt # "EXEC" OBVIOUS
    <3> QED BY <1>11, <3>1, StepsSettled
  <2>4. q.job.steps = RawSteps(Append(m, c), Current(m)) BY <1>5, <1>6, <2>1, <2>2, <2>3
  <2>5. Stranded(q) BY <2>2 DEF Stranded
  <2>6. Loose(Append(m, c)) BY <1>5, <1>6, <1>11, LooseGrows
  <2>7. JobsKept(q, Append(m, c)) /\ At(Append(m, c), "JOB") # {}
    <3>1. c.stmt # "JOB" OBVIOUS
    <3> QED BY <1>4, <1>10, <2>4, <3>1, EndedJobsKept
  <2>8. Faithful(q, Append(m, c)) BY <1>4, <1>5, <2>5, <2>6, <2>7 DEF Faithful
  <2> QED BY <1>2, <2>8
<1>12. CASE StepsAt(m, h) # {}
  <2> DEFINE l == Len(p.job.steps)
             old == p.job.steps
  <2>1. l \in Nat /\ l # 0
    <3>1. StepsAt(m, h) \in SUBSET (1..Len(m)) /\ Len(m) \in Nat
      BY AreaOfPositions, LenProperties DEF StepsAt
    <3>2. IsFiniteSet(StepsAt(m, h)) BY <3>1, PositionsAreFinite
    <3> QED BY <1>9, <1>12, <3>2, FS_CardinalityType, FS_EmptySet
  <2>2. old # <<>> BY <2>1, EmptySeq
  <2>3. /\ q.job.dds = p.job.dds
        /\ Len(q.job.steps) = l
        /\ \A k \in 1..(l - 1) : q.job.steps[k] = old[k]
        /\ q.job.steps[l] = [name |-> old[l].name, program |-> old[l].program,
                             cond |-> old[l].cond, dds |-> Append(old[l].dds, dd)]
        /\ q.job \in JobRecords
    <3>1. PICK j \in JobRecords : j = p.job BY <1>7
    <3>2. PICK k : k = Len(j.steps) OBVIOUS
    <3>3. /\ add_dd(j, dd) \in JobRecords
          /\ add_dd(j, dd).dds = j.dds
          /\ Len(add_dd(j, dd).steps) = k
          /\ \A r \in 1..(k - 1) : add_dd(j, dd).steps[r] = j.steps[r]
          /\ add_dd(j, dd).steps[k]
               = [name |-> j.steps[k].name, program |-> j.steps[k].program,
                  cond |-> j.steps[k].cond, dds |-> Append(j.steps[k].dds, dd)]
      BY <2>2, <3>1, <3>2, AddDDTypes
    <3> QED BY <1>4, <3>1, <3>2, <3>3
  <2>4. /\ Len(steps) = l
        /\ \A k \in 1..(l - 1) : steps[k] = old[k]
        /\ steps[l] = [name |-> old[l].name, program |-> old[l].program,
                       cond |-> old[l].cond, dds |-> Append(old[l].dds, dd)]
    BY <1>3, <1>5, <1>6, <1>8, <1>12, StepGetsDD
  <2>5. q.job.steps = steps
    <3>1. q.job.steps \in Seq(StepRecords) BY <2>3 DEF JobRecords
    <3>2. \A k \in 1..l : k \in 1..(l - 1) \/ k = l BY <2>1
    <3>3. \A k \in 1..l : q.job.steps[k] = steps[k] BY <2>3, <2>4, <3>2
    <3> QED BY <1>8, <2>3, <2>4, <3>1, <3>3, SeqEqual
  <2>6. q.job.steps = RawSteps(Append(m, c), Current(m)) BY <1>6, <1>8, <2>5
  <2>7. JobsKept(q, Append(m, c)) /\ At(Append(m, c), "JOB") # {}
    <3>1. c.stmt # "JOB" OBVIOUS
    <3> QED BY <1>4, <1>10, <2>6, <3>1, EndedJobsKept
  <2>8. Stranded(q) <=> Stranded(p) BY <1>4, <2>3 DEF Stranded
  <2>9. Loose(Append(m, c)) <=> Loose(m) BY <1>5, <1>6, <1>12, LooseGrows
  <2>10. Faithful(q, Append(m, c)) BY <1>4, <1>5, <2>7, <2>8, <2>9 DEF Faithful
  <2> QED BY <1>2, <2>10
<1> QED BY <1>11, <1>12

(* Of what is none of these the parser takes no notice. *)
LEMMA OtherRead ==
  ASSUME NEW p \in ParserStates, NEW m \in Seq(Cards), NEW c \in Cards,
         Faithful(p, m), ~Misread(c), c.stmt \notin {"JOB", "EXEC", "DD"}
  PROVE  Faithful(parse_line(p, c), Append(m, c))
<1>1. parse_line(p, c) = p
  <2>1. ~(Says(c, "JOB") \/ Says(c, "EXEC") \/ Says(c, "DD")) BY DEF Says, Seen, Misread
  <2> QED BY <2>1, LineRead
<1>2. /\ At(m, "JOB") # {} /\ p.seen /\ p.job.steps = RawSteps(m, Current(m))
      /\ (Stranded(p) <=> Loose(m))
  BY DEF Faithful, JobsKept
<1>3. Current(m) \in 1..Len(m) BY <1>2, CurrentJob
<1>4. RawSteps(Append(m, c), Current(m)) = RawSteps(m, Current(m))
  <2>1. c.stmt # "EXEC" /\ c.stmt # "DD" OBVIOUS
  <2> QED BY <1>3, <2>1, StepsSettled
<1>5. JobsKept(p, Append(m, c)) /\ At(Append(m, c), "JOB") # {}
  <2>1. c.stmt # "JOB" OBVIOUS
  <2> QED BY <1>2, <1>4, <2>1, EndedJobsKept
<1>6. Loose(Append(m, c)) <=> Loose(m)
  <2>1. c.stmt # "DD" OBVIOUS
  <2> QED BY <1>2, <2>1, LooseGrows
<1> QED BY <1>1, <1>2, <1>5, <1>6 DEF Faithful
(* The parser's jobs are the jobs as written after every statement that is *)
(* not misread.                                                            *)
LEMMA LineKeepsFaith ==
  ASSUME NEW p \in ParserStates, NEW m \in Seq(Cards), NEW c \in Cards,
         Faithful(p, m), ~Misread(c)
  PROVE  Faithful(parse_line(p, c), Append(m, c))
BY JobRead, ExecRead, DDRead, OtherRead

(* They are, of a member of one JOB statement. *)
LEMMA FirstLine ==
  ASSUME NEW c \in Cards, c.stmt = "JOB"
  PROVE  /\ parse_line(Parsing, c) \in ParserStates
         /\ ~Misread(c) => Faithful(parse_line(Parsing, c), <<c>>)
<1> DEFINE m == <<c>>
<1>1. Parsing \in ParserStates
  <2>1. /\ <<>> \in Seq(StepRecords) /\ <<>> \in Seq(DDRecords) /\ <<>> \in Seq(JobRecords)
        /\ "" \in NamesRead
    BY DEF NamesRead
  <2>2. NoJob \in JobRecords BY <2>1 DEF NoJob, JobRecords
  <2> QED BY <2>1, <2>2 DEF Parsing, ParserStates
<1>2. parse_line(Parsing, c) \in ParserStates BY <1>1, ParserKeepsItsType
<1>3. ASSUME ~Misread(c) PROVE Faithful(parse_line(Parsing, c), m)
  <2>1. Says(c, "JOB") BY <1>3 DEF Misread, Says, Seen
  <2>2. parse_line(Parsing, c)
          = [jobs |-> <<>>, seen |-> TRUE,
             job |-> [name |-> c.name, steps |-> <<>>, dds |-> <<>>]]
    <3>1. parse_line(Parsing, c) = begin_job(Parsing, c) BY <1>1, <2>1, LineRead
    <3> QED BY <3>1 DEF begin_job, Parsing, NoJob
  <2>3. PICK q : q = parse_line(Parsing, c) OBVIOUS
  <2>4. q.jobs = <<>> /\ q.seen /\ q.job.name = c.name /\ q.job.steps = <<>> /\ q.job.dds = <<>>
    BY <2>2, <2>3
  <2>5. DOMAIN m = {1} /\ m[1] = c /\ Len(m) = 1 OBVIOUS
  <2>6. At(m, "JOB") = {1} /\ At(m, "DD") = {} BY <2>5 DEF At
  <2>7. Cardinality(At(m, "JOB")) = 1 BY <2>6, FS_Singleton
  <2>8. Current(m) = 1
    <3>1. 1 = Len(m) /\ {1} \in SUBSET (1..1) /\ 1 \in Nat OBVIOUS
    <3>2. Nth({1}, Cardinality({1})) \in {1} BY <3>1, TheLast
    <3> QED BY <2>6, <3>2 DEF Current
  <2>9. RawSteps(m, 1) = <<>>
    <3>1. StepsAt(m, 1) = {} BY <2>5 DEF StepsAt, Under
    <3> QED BY <3>1, MappedOfNone DEF RawSteps
  <2> HIDE DEF m
  <2>10. JobsKept(q, m)
    <3>1. Len(q.jobs) = 0 BY <2>4
    <3> QED BY <2>4, <2>5, <2>7, <2>8, <2>9, <3>1 DEF JobsKept
  <2>11. ~Stranded(q)
    <3>1. Len(q.jobs) = 0 BY <2>4
    <3> QED BY <2>4, <3>1 DEF Stranded
  <2>12. ~Loose(m) BY <2>6 DEF Loose
  <2>13. At(m, "JOB") # {} BY <2>6
  <2>14. Faithful(q, m) BY <2>4, <2>10, <2>11, <2>12, <2>13 DEF Faithful
  <2> QED BY <2>3, <2>14
<1> QED BY <1>2, <1>3

-----------------------------------------------------------------------------
(* The diagnostics.                                                        *)

(* What the parser returns, job by job. *)
LEMMA JobsReturned ==
  ASSUME NEW p \in ParserStates, NEW m \in Seq(Cards), Faithful(p, m)
  PROVE  LET S == At(m, "JOB")
             jobs == parse_jobs(p)
         IN /\ jobs \in Seq(JobRecords) /\ jobs # <<>>
            /\ DOMAIN jobs = 1..Cardinality(S)
            /\ \A r \in 1..Cardinality(S) :
                 /\ Nth(S, r) \in S
                 /\ jobs[r].name = m[Nth(S, r)].name
                 /\ jobs[r].steps = RawSteps(m, Nth(S, r))
            /\ (\E r \in 1..Cardinality(S) : jobs[r].dds # <<>>) <=> Stranded(p)
<1> DEFINE S == At(m, "JOB")
<1>1. PICK jobs : jobs = parse_jobs(p) OBVIOUS
<1>2. /\ p.jobs \in Seq(JobRecords) /\ p.job \in JobRecords /\ Len(p.jobs) \in Nat
  BY LenProperties DEF ParserStates
<1>3. p.seen /\ S # {} BY DEF Faithful
<1>4. jobs = Append(p.jobs, p.job) BY <1>1, <1>3 DEF parse_jobs
<1>5. /\ jobs \in Seq(JobRecords) /\ Len(jobs) = Len(p.jobs) + 1
      /\ \A r \in 1..Len(p.jobs) : jobs[r] = p.jobs[r]
      /\ jobs[Len(p.jobs) + 1] = p.job
  BY <1>2, <1>4, AppendProperties
<1>6. /\ Cardinality(S) = Len(p.jobs) + 1
      /\ \A r \in 1..Len(p.jobs) : /\ p.jobs[r].name = m[Nth(S, r)].name
                                   /\ p.jobs[r].steps = RawSteps(m, Nth(S, r))
      /\ p.job.name = m[Nth(S, Cardinality(S))].name
      /\ p.job.steps = RawSteps(m, Nth(S, Cardinality(S)))
  BY DEF Faithful, JobsKept, Current
<1>7. DOMAIN jobs = 1..Cardinality(S) /\ jobs # <<>>
  <2>1. DOMAIN jobs = 1..Len(jobs) BY <1>5, LenProperties
  <2> QED BY <1>2, <1>5, <1>6, <2>1
<1>8. 1..Cardinality(S) = (1..Len(p.jobs)) \cup {Len(p.jobs) + 1} BY <1>2, <1>6
<1>9. \A r \in 1..Cardinality(S) : Nth(S, r) \in S
  <2>1. S \in SUBSET (1..Len(m)) /\ Len(m) \in Nat BY AreaOfPositions, LenProperties
  <2> HIDE DEF S
  <2> QED BY <2>1, NthIsListed
<1> HIDE DEF S
<1>10. ASSUME NEW r \in 1..Cardinality(S)
       PROVE  jobs[r].name = m[Nth(S, r)].name /\ jobs[r].steps = RawSteps(m, Nth(S, r))
  <2>1. CASE r \in 1..Len(p.jobs) BY <1>5, <1>6, <2>1
  <2>2. CASE r = Len(p.jobs) + 1 BY <1>5, <1>6, <2>2
  <2> QED BY <1>8, <2>1, <2>2
<1>11. (\E r \in 1..Cardinality(S) : jobs[r].dds # <<>>) <=> Stranded(p)
  BY <1>5, <1>8 DEF Stranded
<1> QED BY <1>1, <1>5, <1>7, <1>9, <1>10, <1>11 DEF S

(* The second reading finds what is no statement of the lane. *)
LEMMA ScanFindsAll ==
  ASSUME NEW m \in Seq(Cards), \A k \in DOMAIN m : ~Misread(m[k])
  PROVE  scan_unsupported(m) = {} <=> \A i \in DOMAIN m : m[i].stmt \in Known
<1> DEFINE T == {d \in Among(m) : Seen(d) \notin Known}
<1>1. scan_unsupported(m) = {} <=> T = {}
  <2> DEFINE E(c) == CASE Seen(c) = "continuation" -> "UNSUPPORTED_CONTINUATION"
                       [] Seen(c) \in {"IF", "ELSE", "ENDIF"} -> "UNSUPPORTED_CONTROL_BLOCK"
                       [] Seen(c) \in {"PROC", "PEND"} -> "UNSUPPORTED_PROCEDURE"
                       [] OTHER -> "UNSUPPORTED_STATEMENT"
  <2>1. scan_unsupported(m) = {E(c) : c \in T} BY Zenon DEF scan_unsupported
  <2> HIDE DEF E, T
  <2>2. {E(c) : c \in T} = {} <=> T = {} OBVIOUS
  <2> QED BY <2>1, <2>2
<1>2. T = {} <=> \A i \in DOMAIN m : Seen(m[i]) \in Known BY DEF Among
<1>3. \A i \in DOMAIN m : Seen(m[i]) \in Known <=> m[i].stmt \in Known
  BY DEF Misread, Seen, Known
<1> QED BY <1>1, <1>2, <1>3

(* Every EXEC is a step of the JOB before it. *)
LEMMA EachStepHasAJob ==
  ASSUME NEW m \in Seq(Cards), m # <<>>, m[1].stmt = "JOB", NEW k \in At(m, "EXEC")
  PROVE  \E j \in At(m, "JOB") : k \in StepsAt(m, j)
<1> DEFINE S == {j \in At(m, "JOB") : j < k}
<1>1. Len(m) \in Nat /\ DOMAIN m = 1..Len(m) /\ 1 \in DOMAIN m
  <2>1. Len(m) \in Nat /\ Len(m) # 0 BY LenProperties, EmptySeq
  <2> QED BY <2>1, LenProperties
<1>2. k \in 1..Len(m) /\ k \in Nat /\ m[k].stmt = "EXEC" /\ k # 1 BY <1>1 DEF At
<1>3. S \in SUBSET (1..Len(m)) /\ 1 \in S BY <1>1, <1>2 DEF At
<1>4. PICK j \in S : \A i \in S : i <= j
  <2>1. S # {} BY <1>3
  <2> HIDE DEF S
  <2> QED BY <1>1, <1>3, <2>1, TheLast
<1>5. j \in At(m, "JOB") /\ j < k /\ j \in Nat BY <1>3, <1>4
<1>6. ASSUME NEW l \in (j + 1)..k PROVE m[l].stmt # "JOB"
  <2> SUFFICES ASSUME m[l].stmt = "JOB" PROVE FALSE OBVIOUS
  <2>1. l \in Nat /\ l \in 1..Len(m) /\ l <= k /\ ~(l <= j) /\ l # k BY <1>2, <1>5
  <2>2. l < k BY <1>2, <2>1
  <2>3. l \in S BY <1>1, <2>1, <2>2 DEF At
  <2> QED BY <1>4, <2>1, <2>3
<1>7. k \in StepsAt(m, j) BY <1>1, <1>2, <1>5, <1>6 DEF StepsAt, Under
<1> QED BY <1>5, <1>7
(* build_exec complains of exactly the EXECs without a program or a name. *)
LEMMA BuildFindsAll ==
  ASSUME NEW p \in ParserStates, NEW m \in Seq(Cards), Faithful(p, m),
         m # <<>>, m[1].stmt = "JOB"
  PROVE  build_exec(parse_jobs(p)) = {}
           <=> \A k \in At(m, "EXEC") : m[k].of # "" /\ m[k].name # ""
<1> DEFINE S == At(m, "JOB")
<1>1. PICK jobs : jobs = parse_jobs(p) OBVIOUS
<1>2. /\ jobs \in Seq(JobRecords)
      /\ DOMAIN jobs = 1..Cardinality(S)
      /\ \A r \in 1..Cardinality(S) :
           Nth(S, r) \in S /\ jobs[r].steps = RawSteps(m, Nth(S, r))
  BY <1>1, JobsReturned
<1>3. Len(m) \in Nat /\ S \in SUBSET (1..Len(m)) /\ DOMAIN m = 1..Len(m)
      /\ \A i : StepsAt(m, i) \in SUBSET (1..Len(m))
  BY AreaOfPositions, LenProperties DEF StepsAt
<1>4. build_exec(jobs) = {} <=> \A t \in Steps(jobs) : t.program # ""
  <2> DEFINE T == {t \in Steps(jobs) : t.program = ""}
             E(s) == IF s.cond = "PROC" THEN "UNSUPPORTED_PROCEDURE" ELSE "STEP_NO_EXEC"
  <2>1. build_exec(jobs) = {E(s) : s \in T} BY DEF build_exec
  <2>2. T = {} <=> \A t \in Steps(jobs) : t.program # "" OBVIOUS
  <2> HIDE DEF T, E
  <2>3. {E(s) : s \in T} = {} <=> T = {} OBVIOUS
  <2> QED BY <2>1, <2>2, <2>3
<1>5. \A i : /\ DOMAIN RawSteps(m, i) = 1..Cardinality(StepsAt(m, i))
             /\ \A q \in 1..Cardinality(StepsAt(m, i)) :
                  RawSteps(m, i)[q] = StepFrom(m, Nth(StepsAt(m, i), q))
  BY RawTypes, LenProperties
<1>6. ASSUME NEW t \in Steps(jobs)
      PROVE  \E k \in At(m, "EXEC") : t = StepFrom(m, k)
  <2>1. PICK r \in DOMAIN jobs : t \in Among(jobs[r].steps) BY DEF Steps, Among
  <2>2. PICK i : i = Nth(S, r) OBVIOUS
  <2>3. jobs[r].steps = RawSteps(m, i) BY <1>2, <2>1, <2>2
  <2>4. PICK q \in 1..Cardinality(StepsAt(m, i)) : t = RawSteps(m, i)[q]
    BY <1>5, <2>1, <2>3 DEF Among
  <2>5. PICK k \in StepsAt(m, i) : k = Nth(StepsAt(m, i), q) BY <1>3, NthIsListed
  <2>6. k \in At(m, "EXEC") BY DEF StepsAt, Under, At
  <2> QED BY <1>5, <2>4, <2>5, <2>6
<1>7. ASSUME NEW k \in At(m, "EXEC") PROVE StepFrom(m, k) \in Steps(jobs)
  <2>1. PICK i \in S : k \in StepsAt(m, i) BY EachStepHasAJob
  <2>2. PICK r \in 1..Cardinality(S) : Nth(S, r) = i
    <3> HIDE DEF S
    <3> QED BY <1>3, EachHasItsPlace
  <2>3. PICK q \in 1..Cardinality(StepsAt(m, i)) : Nth(StepsAt(m, i), q) = k
    BY <1>3, <2>1, EachHasItsPlace
  <2>4. jobs[r].steps = RawSteps(m, i) /\ r \in DOMAIN jobs BY <1>2, <2>2
  <2>5. StepFrom(m, k) \in Among(jobs[r].steps) BY <1>5, <2>3, <2>4 DEF Among
  <2>6. jobs[r] \in Among(jobs) BY <2>4 DEF Among
  <2> QED BY <2>5, <2>6 DEF Steps
<1>8. \A k : StepFrom(m, k).program # "" <=> m[k].of # "" /\ m[k].name # ""
  BY DEF StepFrom, parse_exec
<1>9. (\A t \in Steps(jobs) : t.program # "")
        <=> \A k \in At(m, "EXEC") : m[k].of # "" /\ m[k].name # ""
  BY <1>6, <1>7, <1>8
<1> QED BY <1>1, <1>4, <1>9

(* job_level_dds complains of exactly the DDs that belong to no step. *)
LEMMA LooseIsFound ==
  ASSUME NEW p \in ParserStates, NEW m \in Seq(Cards), Faithful(p, m)
  PROVE  job_level_dds(parse_jobs(p)) = {} <=> ~Loose(m)
<1>1. PICK jobs : jobs = parse_jobs(p) OBVIOUS
<1>2. /\ DOMAIN jobs = 1..Cardinality(At(m, "JOB"))
      /\ (\E r \in 1..Cardinality(At(m, "JOB")) : jobs[r].dds # <<>>) <=> Stranded(p)
  BY <1>1, JobsReturned
<1>3. (\E j \in Among(jobs) : j.dds # <<>>) <=> Stranded(p) BY <1>2 DEF Among
<1>4. job_level_dds(jobs) = {} <=> ~Stranded(p) BY <1>3 DEF job_level_dds
<1> QED BY <1>1, <1>4 DEF Faithful

(* No diagnostic: every statement is in the supported subset. *)
LEMMA ErrorsAreTheUnsupported ==
  ASSUME NEW p \in ParserStates, NEW m \in Seq(Cards), Faithful(p, m),
         m # <<>>, m[1].stmt = "JOB", \A k \in DOMAIN m : ~Misread(m[k])
  PROVE  /\ scan_unsupported(m) = {}
         /\ build_exec(parse_jobs(p)) = {}
         /\ job_level_dds(parse_jobs(p)) = {}
         <=> \A i \in DOMAIN m : Supported(m, i)
<1>1. scan_unsupported(m) = {} <=> \A i \in DOMAIN m : m[i].stmt \in Known BY ScanFindsAll
<1>2. build_exec(parse_jobs(p)) = {}
        <=> \A k \in DOMAIN m : m[k].stmt = "EXEC" => m[k].of # "" /\ m[k].name # ""
  <2>1. build_exec(parse_jobs(p)) = {}
          <=> \A k \in At(m, "EXEC") : m[k].of # "" /\ m[k].name # ""
    BY BuildFindsAll
  <2> QED BY <2>1 DEF At
<1>3. job_level_dds(parse_jobs(p)) = {}
        <=> \A i \in DOMAIN m : m[i].stmt = "DD" => \E k \in At(m, "EXEC") : i \in DDsAt(m, k)
  <2>1. Loose(m) <=> \E i \in DOMAIN m : m[i].stmt = "DD" /\ \A k \in At(m, "EXEC") : i \notin DDsAt(m, k)
    <3>1. \A i : i \in At(m, "DD") <=> i \in DOMAIN m /\ m[i].stmt = "DD" BY DEF At
    <3> QED BY <3>1 DEF Loose
  <2> QED BY <2>1, LooseIsFound
<1>4. ASSUME NEW i \in DOMAIN m
      PROVE  Supported(m, i) <=> /\ m[i].stmt \in Known
                                 /\ m[i].stmt = "EXEC" => m[i].of # "" /\ m[i].name # ""
                                 /\ m[i].stmt = "DD" => \E k \in At(m, "EXEC") : i \in DDsAt(m, k)
  <2>1. CASE m[i].stmt = "EXEC" BY <2>1 DEF Supported, Known
  <2>2. CASE m[i].stmt = "DD" BY <2>2 DEF Supported, Known
  <2>3. CASE m[i].stmt \notin {"EXEC", "DD"} BY <2>3 DEF Supported, Known
  <2> QED BY <2>1, <2>2, <2>3
<1> QED BY <1>1, <1>2, <1>3, <1>4

-----------------------------------------------------------------------------
(* The Spring Batch jobs.                                                  *)

(* A DD that is not misread is mapped as it is written. *)
LEMMA DDsMapped ==
  ASSUME NEW m \in Seq(Cards), \A k \in DOMAIN m : ~Misread(m[k]), NEW i
  PROVE  DDsOf(m, i)
           = [q \in DOMAIN RawDDs(m, i) |->
                [name |-> RawDDs(m, i)[q].name, dsn |-> RawDDs(m, i)[q].of,
                 type |-> resource_type(RawDDs(m, i)[q])]]
<1> DEFINE S == DDsAt(m, i)
           R == RawDDs(m, i)
<1>1. Len(m) \in Nat /\ DOMAIN m = 1..Len(m) /\ S \in SUBSET (1..Len(m))
  BY AreaOfPositions, LenProperties DEF DDsAt
<1>2. R = [q \in 1..Cardinality(S) |-> [k \in DOMAIN m |-> parse_dd(m[k])][Nth(S, q)]]
  BY DEF RawDDs, Mapped
<1>3. DDsOf(m, i) = [q \in 1..Cardinality(S) |->
                       [name |-> m[Nth(S, q)].name, dsn |-> m[Nth(S, q)].of,
                        type |-> resource_type(m[Nth(S, q)])]]
  BY DEF DDsOf, InOrder
<1>4. ASSUME NEW q \in 1..Cardinality(S)
      PROVE  [name |-> R[q].name, dsn |-> R[q].of, type |-> resource_type(R[q])]
               = [name |-> m[Nth(S, q)].name, dsn |-> m[Nth(S, q)].of,
                  type |-> resource_type(m[Nth(S, q)])]
  <2>1. PICK k \in S : k = Nth(S, q)
    <3> HIDE DEF S
    <3> QED BY <1>1, NthIsListed
  <2>2. k \in DOMAIN m /\ m[k].stmt = "DD" BY DEF DDsAt, Under
  <2>3. m[k].name # "" BY <2>2 DEF Misread
  <2>4. parse_dd(m[k]) = [name |-> m[k].name, of |-> m[k].of, as |-> m[k].as]
    BY <2>2, <2>3 DEF parse_dd, Operand
  <2>5. R[q] = parse_dd(m[k])
    <3> HIDE DEF R
    <3> QED BY <1>2, <2>1, <2>2
  <2>6. PICK d : d = R[q] OBVIOUS
  <2>7. d.name = m[k].name /\ d.of = m[k].of /\ d.as = m[k].as BY <2>4, <2>5, <2>6
  <2>8. resource_type(d) = resource_type(m[k]) BY <2>7 DEF resource_type
  <2> HIDE DEF R, S
  <2> QED BY <2>1, <2>6, <2>7, <2>8
<1>5. DOMAIN R = 1..Cardinality(S) BY <1>2
<1> HIDE DEF R, S
<1>6. DDsOf(m, i) = [q \in DOMAIN R |->
                       [name |-> R[q].name, dsn |-> R[q].of, type |-> resource_type(R[q])]]
  BY <1>3, <1>4, <1>5
<1> QED BY <1>6 DEF R

(* So are the steps of a job, of a member whose EXECs have names, ... *)
Named(m) == \A k \in At(m, "EXEC") : m[k].name # ""
LEMMA StepsMapped ==
  ASSUME NEW m \in Seq(Cards), \A k \in DOMAIN m : ~Misread(m[k]), Named(m), NEW i
  PROVE  StepsOf(m, i) = [q \in DOMAIN RawSteps(m, i) |-> map_step(RawSteps(m, i)[q])]
<1> DEFINE S == StepsAt(m, i)
           W(k) == [name |-> m[k].name, program |-> m[k].of,
                    activation |-> activation(m[k].as), resources |-> DDsOf(m, k)]
<1>1. PICK R : R = RawSteps(m, i) OBVIOUS
<1>2. DOMAIN R = 1..Cardinality(S)
      /\ \A q \in 1..Cardinality(S) : R[q] = StepFrom(m, Nth(S, q))
  BY <1>1, RawTypes, LenProperties
<1>3. StepsOf(m, i) = [q \in 1..Cardinality(S) |-> W(Nth(S, q))] BY DEF StepsOf, InOrder
<1>4. ASSUME NEW k \in S PROVE map_step(StepFrom(m, k)) = W(k)
  <2>1. PICK s : s = StepFrom(m, k) OBVIOUS
  <2>2. s.name = m[k].name /\ s.program = m[k].of /\ s.cond = m[k].as /\ s.dds = RawDDs(m, k)
    <3>1. k \in At(m, "EXEC") /\ m[k].stmt = "EXEC" BY DEF StepsAt, Under, At
    <3>2. parse_exec(m[k]) = [name |-> m[k].name, program |-> m[k].of,
                              cond |-> m[k].as, dds |-> <<>>]
      BY <3>1 DEF parse_exec, Operand, Named
    <3> QED BY <2>1, <3>2 DEF StepFrom
  <2>3. DDsOf(m, k) = [q \in DOMAIN s.dds |-> [name |-> s.dds[q].name, dsn |-> s.dds[q].of,
                                               type |-> resource_type(s.dds[q])]]
    BY <2>2, DDsMapped
  <2> QED BY <2>1, <2>2, <2>3 DEF map_step
<1>5. \A q \in 1..Cardinality(S) : map_step(R[q]) = W(Nth(S, q))
  <2>1. Len(m) \in Nat /\ S \in SUBSET (1..Len(m)) BY AreaOfPositions, LenProperties DEF StepsAt
  <2> HIDE DEF S, W
  <2>2. \A q \in 1..Cardinality(S) : Nth(S, q) \in S BY <2>1, NthIsListed
  <2> QED BY <1>2, <1>4, <2>2
<1> HIDE DEF S, W
<1> QED BY <1>1, <1>2, <1>3, <1>5

(* ... and the job with its flow. *)
LEMMA JobMapped ==
  ASSUME NEW j, NEW T, T = [q \in DOMAIN j.steps |-> map_step(j.steps[q])],
         j.steps \in Seq(StepRecords)
  PROVE  map_job(j) = JobOf(j.name, T)
<1>1. PICK s : s = j.steps OBVIOUS
<1>2. DOMAIN s = 1..Len(s) /\ Len(s) \in Nat BY <1>1, LenProperties
<1>3. DOMAIN T = 1..Len(s) /\ Len(T) = Len(s) BY <1>1, <1>2
<1>4. \A q \in 1..Len(s) : T[q].name = s[q].name /\ T[q].activation = activation(s[q].cond)
  BY <1>1, <1>2 DEF map_step
<1>5. s = <<>> <=> T = <<>>
  <2>1. s = <<>> <=> Len(s) = 0 BY <1>1, EmptySeq
  <2>2. T \in Seq({T[q] : q \in DOMAIN T}) BY <1>2, <1>3
  <2>3. T = <<>> <=> Len(T) = 0 BY <2>2, EmptySeq
  <2> QED BY <1>3, <2>1, <2>3
<1>6. (IF s = <<>> THEN "" ELSE s[1].name) = (IF T = <<>> THEN "" ELSE T[1].name)
  <2>1. CASE s = <<>> BY <1>5, <2>1
  <2>2. CASE s # <<>>
    <3>1. 1 \in 1..Len(s) BY <1>1, <1>2, <2>2, EmptySeq
    <3> QED BY <1>4, <1>5, <2>2, <3>1
  <2> QED BY <2>1, <2>2
<1>7. build_flow_edges(s)
        = [k \in 1..(Len(T) - 1) |-> [source |-> T[k].name, target |-> T[k + 1].name,
                                      on_status |-> T[k + 1].activation]]
  <2>1. \A k \in 1..(Len(s) - 1) : k \in 1..Len(s) /\ k + 1 \in 1..Len(s) BY <1>2
  <2> HIDE DEF build_flow_edges
  <2>2. \A k \in 1..(Len(s) - 1) :
          /\ s[k].name = T[k].name /\ s[k + 1].name = T[k + 1].name
          /\ activation(s[k + 1].cond) = T[k + 1].activation
    BY <1>4, <2>1
  <2> QED BY <1>3, <2>2 DEF build_flow_edges
<1> QED BY <1>1, <1>6, <1>7 DEF map_job, JobOf
-----------------------------------------------------------------------------
(* What holds of a member and of what the lane makes of it. *)
BatchInv ==
  /\ member \in Seq(Cards) /\ member # <<>> /\ member[1].stmt = "JOB"
  /\ parser \in ParserStates
  /\ undecodable \in BOOLEAN
  /\ profile = modernize_jcl(parser, member, undecodable)
  /\ (\A i \in DOMAIN member : ~Misread(member[i])) => Faithful(parser, member)

(* It holds of a member of one statement. *)
LEMMA BatchInvInit == BatchInit => BatchInv
<1> SUFFICES ASSUME BatchInit PROVE BatchInv OBVIOUS
<1>1. PICK c \in Cards : member = <<c>> /\ c.stmt = "JOB" BY DEF BatchInit
<1>2. /\ member \in Seq(Cards) /\ member # <<>> /\ member[1] = c /\ 1 \in DOMAIN member
  BY <1>1
<1>3. /\ parser = parse_line(Parsing, c) /\ undecodable \in BOOLEAN
      /\ profile = modernize_jcl(parser, member, undecodable)
  BY <1>2 DEF BatchInit
<1>4. parser \in ParserStates /\ (~Misread(c) => Faithful(parser, member))
  BY <1>1, <1>3, FirstLine
<1> QED BY <1>1, <1>2, <1>3, <1>4 DEF BatchInv

(* The next statement keeps it. *)
LEMMA BatchInvNext == BatchInv /\ [BatchNext]_batchVars => BatchInv'
<1> SUFFICES ASSUME BatchInv, [BatchNext]_batchVars PROVE BatchInv' OBVIOUS
<1>1. CASE BatchNext
  <2>1. PICK c \in Cards : member' = Append(member, c) /\ parser' = parse_line(parser, c)
    BY <1>1 DEF BatchNext, AddCard
  <2>2. /\ profile' = modernize_jcl(parser', member', undecodable)
        /\ undecodable' = undecodable
    BY <1>1 DEF BatchNext, AddCard
  <2>3. PICK m \in Seq(Cards) : m = member BY DEF BatchInv
  <2>4. PICK p \in ParserStates : p = parser BY DEF BatchInv
  <2>5. m # <<>> /\ m[1].stmt = "JOB" /\ undecodable \in BOOLEAN
        /\ ((\A i \in DOMAIN m : ~Misread(m[i])) => Faithful(p, m))
    BY <2>3, <2>4 DEF BatchInv
  <2>6. /\ Append(m, c) \in Seq(Cards) /\ DOMAIN Append(m, c) = DOMAIN m \cup {Len(m) + 1}
        /\ \A k \in DOMAIN m : Append(m, c)[k] = m[k]
        /\ Append(m, c)[Len(m) + 1] = c
    BY OneMore
  <2>7. Append(m, c) # <<>> /\ 1 \in DOMAIN m
    <3>1. Len(m) \in Nat /\ Len(m) # 0 /\ DOMAIN m = 1..Len(m) BY <2>5, LenProperties, EmptySeq
    <3> QED BY <3>1, AppendProperties
  <2>8. parse_line(p, c) \in ParserStates BY ParserKeepsItsType
  <2>9. (\A i \in DOMAIN Append(m, c) : ~Misread(Append(m, c)[i]))
          => Faithful(parse_line(p, c), Append(m, c))
    <3> SUFFICES ASSUME \A i \in DOMAIN Append(m, c) : ~Misread(Append(m, c)[i])
                 PROVE  Faithful(parse_line(p, c), Append(m, c))
      OBVIOUS
    <3>1. ~Misread(c) BY <2>6
    <3>2. \A i \in DOMAIN m : ~Misread(m[i]) BY <2>6
    <3> QED BY <2>5, <3>1, <3>2, LineKeepsFaith
  <2>10. PICK n : n = Append(m, c) OBVIOUS
  <2>11. PICK q : q = parse_line(p, c) OBVIOUS
  <2>12. member' = n /\ parser' = q BY <2>1, <2>3, <2>4, <2>10, <2>11
  <2>13. n \in Seq(Cards) /\ n # <<>> /\ n[1].stmt = "JOB" /\ q \in ParserStates
         /\ ((\A i \in DOMAIN n : ~Misread(n[i])) => Faithful(q, n))
    BY <2>5, <2>6, <2>7, <2>8, <2>9, <2>10, <2>11
  <2> QED BY <2>2, <2>5, <2>12, <2>13 DEF BatchInv
<1>2. CASE UNCHANGED batchVars
  <2>1. member' = member /\ parser' = parser /\ profile' = profile /\ undecodable' = undecodable
    BY <1>2 DEF batchVars
  <2> QED BY <2>1 DEF BatchInv
<1> QED BY <1>1, <1>2

(* FULL exactly when every statement is supported, and then the jobs are the *)
(* jobs as written.                                                        *)
LEMMA FullMeansFaithful == BatchInv => FullIsFaithful
<1> SUFFICES ASSUME BatchInv, \A i \in DOMAIN member : ~Misread(member[i])
             PROVE  /\ profile.status = "FULL"
                         <=> (\A i \in DOMAIN member : Supported(member, i)) /\ ~undecodable
                    /\ profile.status = "FULL" => profile.jobs = JobsWritten(member)
  BY DEF FullIsFaithful
<1>1. PICK m \in Seq(Cards) : m = member BY DEF BatchInv
<1>2. PICK p \in ParserStates : p = parser BY DEF BatchInv
<1>3. /\ m # <<>> /\ m[1].stmt = "JOB" /\ Faithful(p, m)
      /\ profile = modernize_jcl(p, m, undecodable)
      /\ \A i \in DOMAIN m : ~Misread(m[i])
  BY <1>1, <1>2 DEF BatchInv
<1>4. PICK jobs : jobs = parse_jobs(p) OBVIOUS
<1>5. PICK S : S = At(m, "JOB") OBVIOUS
<1>6. /\ jobs \in Seq(JobRecords) /\ jobs # <<>>
      /\ DOMAIN jobs = 1..Cardinality(S)
      /\ \A r \in 1..Cardinality(S) : /\ jobs[r].name = m[Nth(S, r)].name
                                      /\ jobs[r].steps = RawSteps(m, Nth(S, r))
  BY <1>3, <1>4, <1>5, JobsReturned
<1>7. /\ scan_unsupported(m) = {} /\ build_exec(jobs) = {} /\ job_level_dds(jobs) = {}
      <=> \A i \in DOMAIN m : Supported(m, i)
  BY <1>3, <1>4, ErrorsAreTheUnsupported
<1>8. PICK errors : errors = scan_unsupported(m) \cup build_exec(jobs) \cup job_level_dds(jobs)
                               \cup (IF undecodable THEN {"SOURCE_DECODE_FAILED"} ELSE {})
  OBVIOUS
<1>9. profile = [jobs |-> [i \in DOMAIN jobs |-> map_job(jobs[i])],
                 status |-> IF jobs = <<>> THEN "EMPTY"
                            ELSE IF errors # {} THEN "PARTIAL" ELSE "FULL"]
  BY <1>3, <1>4, <1>8 DEF modernize_jcl
<1>10. /\ profile.status = "FULL" <=> errors = {}
       /\ profile.jobs = [i \in DOMAIN jobs |-> map_job(jobs[i])]
  BY <1>6, <1>9
<1>11. errors = {} <=> /\ scan_unsupported(m) = {} /\ build_exec(jobs) = {}
                       /\ job_level_dds(jobs) = {} /\ ~undecodable
  BY <1>8
<1>12. profile.status = "FULL"
         <=> (\A i \in DOMAIN m : Supported(m, i)) /\ ~undecodable
  BY <1>7, <1>10, <1>11
<1>13. ASSUME profile.status = "FULL", NEW r \in 1..Cardinality(S)
       PROVE  map_job(jobs[r]) = JobOf(m[Nth(S, r)].name, StepsOf(m, Nth(S, r)))
  <2>1. PICK j : j = jobs[r] OBVIOUS
  <2>2. PICK i : i = Nth(S, r) OBVIOUS
  <2>3. j.name = m[i].name /\ j.steps = RawSteps(m, i) BY <1>6, <2>1, <2>2
  <2>4. j.steps \in Seq(StepRecords) BY <2>3, RawTypes
  <2>5. StepsOf(m, i) = [q \in DOMAIN j.steps |-> map_step(j.steps[q])]
    <3>1. Named(m) BY <1>12, <1>13 DEF At, Supported, Named
    <3> QED BY <1>3, <2>3, <3>1, StepsMapped
  <2>6. map_job(j) = JobOf(j.name, StepsOf(m, i)) BY <2>4, <2>5, JobMapped
  <2> QED BY <2>1, <2>2, <2>3, <2>6
<1>14. JobsWritten(m) = [r \in 1..Cardinality(S) |->
                           JobOf(m[Nth(S, r)].name, StepsOf(m, Nth(S, r)))]
  BY <1>5 DEF JobsWritten, InOrder
<1>15. profile.status = "FULL" => profile.jobs = JobsWritten(m) BY <1>6, <1>10, <1>13, <1>14
<1> QED BY <1>1, <1>12, <1>15

(* A profile is FULL exactly when every statement of every member is in the *)
(* supported subset, and then the Spring Batch jobs are the jobs as written *)
(* (JclParser against _scan_unsupported, modernize_jcl).                   *)
THEOREM FullProfilesAreFaithful == BatchSpec => []FullIsFaithful
<1>1. BatchInit => BatchInv BY BatchInvInit
<1>2. BatchInv /\ [BatchNext]_batchVars => BatchInv' BY BatchInvNext
<1>3. BatchInv => FullIsFaithful BY FullMeansFaithful
<1> QED BY <1>1, <1>2, <1>3, PTL DEF BatchSpec
=============================================================================
