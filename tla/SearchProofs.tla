---------------------------- MODULE SearchProofs ----------------------------
(***************************************************************************)
(* Proofs about Search and Evaluate.  An answer is a choice of the hits    *)
(* listed, put in order: the first part shows that Ordered enumerates a    *)
(* finite set in a strict total order, the second what the list of hits    *)
(* holds of the rows found, the third what is true of the answers made of  *)
(* it, the fourth what a hybrid answer is worth, the fifth that an answer  *)
(* of any mode is the best of what is offered, and the last what the       *)
(* evaluation counts.                                                      *)
(***************************************************************************)
EXTENDS Evaluate, FiniteSetTheorems, TLAPS

-----------------------------------------------------------------------------
(* Orders.                                                                 *)

\* R orders S strictly and totally.
Orders(R, S) ==
  /\ \A a, b \in S : a # b => <<a, b>> \in R \/ <<b, a>> \in R
  /\ \A a \in S : <<a, a>> \notin R
  /\ \A a, b, c \in S : <<a, b>> \in R /\ <<b, c>> \in R => <<a, c>> \in R

Below(a, S, R) == {b \in S : <<b, a>> \in R}

\* What is before a is less than all of S, and grows with a.
LEMMA BelowCounts ==
  ASSUME NEW S, NEW R, IsFiniteSet(S), Orders(R, S), NEW a \in S
  PROVE  /\ IsFiniteSet(Below(a, S, R))
         /\ Cardinality(Below(a, S, R)) \in 0..Cardinality(S) - 1
         /\ \A b \in S : <<b, a>> \in R =>
              Cardinality(Below(b, S, R)) < Cardinality(Below(a, S, R))
<1>1. Below(a, S, R) \in SUBSET S /\ a \notin Below(a, S, R)
  BY DEF Below, Orders
<1>2. /\ IsFiniteSet(Below(a, S, R)) /\ Cardinality(Below(a, S, R)) <= Cardinality(S)
      /\ Cardinality(Below(a, S, R)) # Cardinality(S)
  BY <1>1, FS_Subset
<1>3. Cardinality(Below(a, S, R)) \in Nat /\ Cardinality(S) \in Nat
  BY <1>2, FS_CardinalityType
<1>4. ASSUME NEW b \in S, <<b, a>> \in R
      PROVE  Cardinality(Below(b, S, R)) < Cardinality(Below(a, S, R))
  <2>1. Below(b, S, R) \in SUBSET Below(a, S, R)
    BY <1>4 DEF Below, Orders
  <2>2. b \in Below(a, S, R) /\ b \notin Below(b, S, R)
    BY <1>4 DEF Below, Orders
  <2>3. /\ Cardinality(Below(b, S, R)) <= Cardinality(Below(a, S, R))
        /\ Cardinality(Below(b, S, R)) # Cardinality(Below(a, S, R))
        /\ IsFiniteSet(Below(b, S, R))
    BY <1>2, <2>1, <2>2, FS_Subset
  <2>4. Cardinality(Below(b, S, R)) \in Nat
    BY <2>3, FS_CardinalityType
  <2> QED
    BY <1>3, <2>3, <2>4
<1> QED
  BY <1>2, <1>3, <1>4

\* Ordered is an enumeration of S in the order of R.
LEMMA OrderedEnumerates ==
  ASSUME NEW S, NEW R, IsFiniteSet(S), Orders(R, S)
  PROVE  /\ DOMAIN Ordered(S, R) = 1..Cardinality(S)
         /\ Cardinality(S) \in Nat
         /\ \A i \in 1..Cardinality(S) : Ordered(S, R)[i] \in S
         /\ \A a \in S : \E i \in 1..Cardinality(S) : Ordered(S, R)[i] = a
         /\ \A i, k \in 1..Cardinality(S) : i < k <=> <<Ordered(S, R)[i], Ordered(S, R)[k]>> \in R
         /\ \A a \in S : Ordered(S, R)[Cardinality(Below(a, S, R)) + 1] = a
<1> DEFINE N == Cardinality(S)
           rank(a) == Cardinality(Below(a, S, R))
           f == [a \in S |-> rank(a) + 1]
<1>0. N \in Nat
  BY FS_CardinalityType
<1>1. \A a \in S : rank(a) \in 0..N - 1
  BY BelowCounts
<1>2. \A a, b \in S : <<b, a>> \in R <=> rank(b) < rank(a)
  <2> SUFFICES ASSUME NEW a \in S, NEW b \in S
               PROVE  <<b, a>> \in R <=> rank(b) < rank(a)
    OBVIOUS
  <2>1. /\ <<b, a>> \in R => rank(b) < rank(a)
        /\ <<a, b>> \in R => rank(a) < rank(b)
    BY BelowCounts
  <2>2. rank(a) \in Int /\ rank(b) \in Int
    BY <1>0, <1>1
  <2>3. a # b => <<a, b>> \in R \/ <<b, a>> \in R
    BY DEF Orders
  <2> HIDE DEF rank
  <2> QED
    BY <2>1, <2>2, <2>3
<1>3. \A a, b \in S : rank(a) = rank(b) => a = b
  <2> SUFFICES ASSUME NEW a \in S, NEW b \in S, rank(a) = rank(b), a # b
               PROVE  FALSE
    OBVIOUS
  <2>1. <<a, b>> \in R \/ <<b, a>> \in R
    BY DEF Orders
  <2>2. rank(a) < rank(b) \/ rank(b) < rank(a)
    BY <2>1, <1>2
  <2>3. rank(a) \in Int /\ rank(b) \in Int
    BY <1>0, <1>1
  <2> QED
    BY <2>2, <2>3
<1>4. f \in Injection(S, 1..N)
  <2> HIDE DEF rank
  <2>1. f \in [S -> 1..N]
    BY <1>0, <1>1
  <2>2. \A a, b \in S : f[a] = f[b] => a = b
    BY <1>0, <1>1, <1>3
  <2> QED
    BY <2>1, <2>2 DEF Injection, IsInjective
<1>5. f \in Surjection(S, 1..N)
  <2>1. IsFiniteSet(1..N) /\ Cardinality(1..N) = N
    BY <1>0, FS_Interval
  <2> QED
    BY <1>4, <2>1, FS_Injection
<1>6. \A i \in 1..N : \E a \in S : rank(a) = i - 1
  <2> SUFFICES ASSUME NEW i \in 1..N
               PROVE  \E a \in S : rank(a) = i - 1
    OBVIOUS
  <2> HIDE DEF rank
  <2>1. PICK a \in S : f[a] = i
    BY <1>5 DEF Surjection
  <2>2. rank(a) + 1 = i /\ rank(a) \in Int
    BY <1>0, <1>1, <2>1
  <2> QED
    BY <2>2
<1>7. \A i \in 1..N : /\ Ordered(S, R)[i] \in S
                      /\ rank(Ordered(S, R)[i]) = i - 1
  BY <1>6 DEF Ordered, Below
<1>8. ASSUME NEW a \in S
      PROVE  /\ \E i \in 1..N : Ordered(S, R)[i] = a
             /\ Ordered(S, R)[rank(a) + 1] = a
  <2>1. rank(a) + 1 \in 1..N
    BY <1>0, <1>1
  <2>2. rank(Ordered(S, R)[rank(a) + 1]) = rank(a) /\ Ordered(S, R)[rank(a) + 1] \in S
    <3> HIDE DEF rank
    <3> QED
      BY <1>0, <1>1, <1>7, <2>1
  <2> QED
    BY <1>3, <2>1, <2>2
<1>9. ASSUME NEW i \in 1..N, NEW k \in 1..N
      PROVE  i < k <=> <<Ordered(S, R)[i], Ordered(S, R)[k]>> \in R
  <2>1. <<Ordered(S, R)[i], Ordered(S, R)[k]>> \in R <=> i - 1 < k - 1
    BY <1>2, <1>7
  <2> QED
    BY <1>0, <2>1
<1> QED
  BY <1>0, <1>7, <1>8, <1>9 DEF Ordered

\* The first of a finite set that is not empty.
LEMMA OrderedFirst ==
  ASSUME NEW S, NEW R, IsFiniteSet(S), S # {}, Orders(R, S)
  PROVE  \E a \in S : \A b \in S : a = b \/ <<a, b>> \in R
<1> DEFINE N == Cardinality(S)
<1>1. N \in Nat /\ N # 0
  BY FS_CardinalityType, FS_EmptySet
<1>2. 1 \in 1..N
  BY <1>1
<1>3. Ordered(S, R)[1] \in S
  BY <1>2, OrderedEnumerates
<1>4. ASSUME NEW b \in S
      PROVE  Ordered(S, R)[1] = b \/ <<Ordered(S, R)[1], b>> \in R
  <2>1. PICK i \in 1..N : Ordered(S, R)[i] = b
    BY OrderedEnumerates
  <2>2. i = 1 \/ 1 < i
    BY <1>1
  <2> QED
    BY <1>2, <2>1, <2>2, OrderedEnumerates
<1> QED
  BY <1>3, <1>4

-----------------------------------------------------------------------------
(* Sequences.                                                              *)

\* A function on 1..n is a sequence of length n.
LEMMA IsSequence ==
  ASSUME NEW T, NEW n \in Nat, NEW s \in [1..n -> T]
  PROVE  s \in Seq(T) /\ Len(s) = n
  OBVIOUS

LEMMA SequenceParts ==
  ASSUME NEW T, NEW s \in Seq(T)
  PROVE  DOMAIN s = 1..Len(s) /\ Len(s) \in Nat /\ \A i \in DOMAIN s : s[i] \in T
  OBVIOUS

LEMMA ConcatParts ==
  ASSUME NEW T, NEW s \in Seq(T), NEW t \in Seq(T)
  PROVE  /\ s \o t \in Seq(T)
         /\ Len(s \o t) = Len(s) + Len(t)
         /\ \A i \in 1..Len(s) : (s \o t)[i] = s[i]
         /\ \A i \in 1..Len(t) : (s \o t)[Len(s) + i] = t[i]
  OBVIOUS

LEMMA MinIs ==
  ASSUME NEW a \in Int, NEW b \in Int
  PROVE  Min({a, b}) = IF a <= b THEN a ELSE b
  BY DEF Min

LEMMA FirstParts ==
  ASSUME NEW T, NEW s \in Seq(T), NEW k \in Nat
  PROVE  /\ First(k, s) \in Seq(T)
         /\ Len(First(k, s)) = IF k <= Len(s) THEN k ELSE Len(s)
         /\ \A i \in 1..Len(First(k, s)) : First(k, s)[i] = s[i]
  BY MinIs DEF First

\* The numbers of a finite set in order.
LEMMA InOrderEnumerates ==
  ASSUME NEW S \in SUBSET Int, IsFiniteSet(S)
  PROVE  /\ DOMAIN InOrder(S) = 1..Cardinality(S)
         /\ Cardinality(S) \in Nat
         /\ \A i \in 1..Cardinality(S) : InOrder(S)[i] \in S
         /\ \A a \in S : \E i \in 1..Cardinality(S) : InOrder(S)[i] = a
         /\ \A i, k \in 1..Cardinality(S) : i < k => InOrder(S)[i] < InOrder(S)[k]
<1> DEFINE R == {p \in S \X S : p[1] < p[2]}
<1>1. \A a, b \in S : <<a, b>> \in R <=> a < b
  OBVIOUS
<1> HIDE DEF R
<1>2. Orders(R, S)
  BY <1>1 DEF Orders
<1>3. InOrder(S) = Ordered(S, R)
  BY DEF InOrder, R
<1>4. /\ DOMAIN Ordered(S, R) = 1..Cardinality(S)
      /\ Cardinality(S) \in Nat
      /\ \A i \in 1..Cardinality(S) : Ordered(S, R)[i] \in S
      /\ \A a \in S : \E i \in 1..Cardinality(S) : Ordered(S, R)[i] = a
      /\ \A i, k \in 1..Cardinality(S) : i < k <=> <<Ordered(S, R)[i], Ordered(S, R)[k]>> \in R
  BY <1>2, OrderedEnumerates
<1> QED
  BY <1>1, <1>3, <1>4

\* The numbers up to n are in order.
LEMMA InOrderInterval ==
  ASSUME NEW n \in Nat, NEW k \in 1..n
  PROVE  InOrder(1..n)[k] = k
<1> DEFINE S == 1..n
           R == {p \in S \X S : p[1] < p[2]}
<1>1. \A a, b \in S : <<a, b>> \in R <=> a < b
  OBVIOUS
<1>2. IsFiniteSet(S)
  BY FS_Interval
<1>3. Below(k, S, R) = 1..k - 1
  BY DEF Below
<1>4. Cardinality(1..k - 1) = k - 1
  BY FS_Interval
<1>5. InOrder(1..n) = Ordered(S, R)
  BY DEF InOrder
<1> HIDE DEF R
<1>6. Orders(R, S)
  BY <1>1 DEF Orders
<1>7. Ordered(S, R)[Cardinality(Below(k, S, R)) + 1] = k
  BY <1>2, <1>6, OrderedEnumerates
<1> QED
  BY <1>3, <1>4, <1>5, <1>7

\* The least and the greatest number of a finite set.
LEMMA MinOf ==
  ASSUME NEW S \in SUBSET Int, IsFiniteSet(S), S # {}
  PROVE  Min(S) \in S /\ \A b \in S : Min(S) <= b
<1> DEFINE R == {p \in S \X S : p[1] < p[2]}
<1>1. \A a, b \in S : <<a, b>> \in R <=> a < b
  OBVIOUS
<1> HIDE DEF R
<1>2. Orders(R, S)
  BY <1>1 DEF Orders
<1>3. PICK a \in S : \A b \in S : a = b \/ <<a, b>> \in R
  BY <1>2, OrderedFirst
<1>4. ASSUME NEW b \in S
      PROVE  a <= b
  <2>1. a \in Int /\ b \in Int
    OBVIOUS
  <2>2. a = b \/ a < b
    BY <1>1, <1>3
  <2> QED
    BY <2>1, <2>2
<1> QED
  BY <1>4 DEF Min

LEMMA MaxOf ==
  ASSUME NEW S \in SUBSET Int, IsFiniteSet(S), S # {}
  PROVE  Max(S) \in S /\ \A b \in S : Max(S) >= b
<1> DEFINE R == {p \in S \X S : p[1] > p[2]}
<1>1. \A a, b \in S : <<a, b>> \in R <=> a > b
  OBVIOUS
<1> HIDE DEF R
<1>2. Orders(R, S)
  BY <1>1 DEF Orders
<1>3. PICK a \in S : \A b \in S : a = b \/ <<a, b>> \in R
  BY <1>2, OrderedFirst
<1>4. ASSUME NEW b \in S
      PROVE  a >= b
  <2>1. a \in Int /\ b \in Int
    OBVIOUS
  <2>2. a = b \/ a > b
    BY <1>1, <1>3
  <2> QED
    BY <2>1, <2>2
<1> QED
  BY <1>4 DEF Max

\* A set of places is finite.
LEMMA PlacesFinite ==
  ASSUME NEW n \in Nat, NEW I \in SUBSET (1..n)
  PROVE  IsFiniteSet(I) /\ Cardinality(I) <= n /\ Cardinality(I) \in Nat /\ I \in SUBSET Int
<1>1. IsFiniteSet(1..n) /\ Cardinality(1..n) = n
  BY FS_Interval
<1>2. IsFiniteSet(I) /\ Cardinality(I) <= n
  BY <1>1, FS_Subset
<1> QED
  BY <1>2, FS_CardinalityType

\* Places picks the elements at I, and no others.
LEMMA PlacesParts ==
  ASSUME NEW T, NEW s \in Seq(T), NEW I \in SUBSET (1..Len(s))
  PROVE  /\ Places(s, I) \in Seq(T)
         /\ Len(Places(s, I)) <= Len(s)
         /\ \A k \in 1..Len(Places(s, I)) : \E i \in I : Places(s, I)[k] = s[i]
         /\ \A i \in I : \E k \in 1..Len(Places(s, I)) : Places(s, I)[k] = s[i]
         /\ \A k, l \in 1..Len(Places(s, I)) : k < l =>
              \E i, j \in I : i < j /\ Places(s, I)[k] = s[i] /\ Places(s, I)[l] = s[j]
<1> DEFINE N == Cardinality(I)
           e == InOrder(I)
<1>1. Len(s) \in Nat
  OBVIOUS
<1>2. IsFiniteSet(I) /\ N <= Len(s) /\ I \in SUBSET Int
  BY <1>1, PlacesFinite
<1>3. /\ DOMAIN e = 1..N
      /\ N \in Nat
      /\ \A i \in 1..N : e[i] \in I
      /\ \A a \in I : \E i \in 1..N : e[i] = a
      /\ \A k, l \in 1..N : k < l => e[k] < e[l]
  BY <1>2, InOrderEnumerates
<1>4. Places(s, I) = [k \in 1..N |-> s[e[k]]]
  BY <1>3 DEF Places
<1> HIDE DEF N, e
<1>5. \A i \in I : s[i] \in T
  OBVIOUS
<1>6. Places(s, I) \in [1..N -> T]
  BY <1>3, <1>4, <1>5
<1>7. Places(s, I) \in Seq(T) /\ Len(Places(s, I)) = N
  BY <1>3, <1>6, IsSequence
<1>8. \A k \in 1..N : Places(s, I)[k] = s[e[k]]
  BY <1>4
<1>9. \A k \in 1..N : \E i \in I : Places(s, I)[k] = s[i]
  BY <1>3, <1>8
<1>10. \A i \in I : \E k \in 1..N : Places(s, I)[k] = s[i]
  BY <1>3, <1>8
<1>11. \A k \in 1..Len(Places(s, I)) : k \in 1..N
  BY <1>7
<1>12. \A k, l \in 1..N : k < l =>
         \E i, j \in I : i < j /\ Places(s, I)[k] = s[i] /\ Places(s, I)[l] = s[j]
  BY <1>3, <1>8
<1> QED
  BY <1>2, <1>7, <1>9, <1>10, <1>12

\* Places at a first stretch is that stretch.
LEMMA PlacesOfFirst ==
  ASSUME NEW T, NEW s \in Seq(T), NEW n \in 0..Len(s)
  PROVE  /\ Len(Places(s, 1..n)) = n
         /\ \A k \in 1..n : Places(s, 1..n)[k] = s[k]
<1>1. IsFiniteSet(1..n) /\ Cardinality(1..n) = n
  BY FS_Interval
<1>2. DOMAIN InOrder(1..n) = 1..n /\ \A k \in 1..n : InOrder(1..n)[k] = k
  BY <1>1, InOrderEnumerates, InOrderInterval
<1>3. Places(s, 1..n) = [k \in 1..n |-> s[k]]
  BY <1>2 DEF Places
<1> QED
  BY <1>3, IsSequence

-----------------------------------------------------------------------------
(* The scenes of a segment.                                                *)

SceneIds == DOMAIN Scene \cup {0}
FrameIds == DOMAIN Frame \cup {0}
ItemIds == DOMAIN Item \cup {0}
Spans == [asset : Assets, start : Nat, end : Nat]

LEMMA SceneParts ==
  /\ Scene \in Seq(Spans) /\ DOMAIN Scene = 1..Len(Scene) /\ Len(Scene) \in Nat
  /\ \A s \in DOMAIN Scene : /\ Scene[s] \in Spans /\ Scene[s].asset \in Assets
                             /\ Scene[s].start \in Nat /\ Scene[s].end \in Nat /\ s # 0
<1>1. Scene \in Seq(Spans)
  BY IndexAssumption DEF Spans
<1>2. DOMAIN Scene = 1..Len(Scene) /\ Len(Scene) \in Nat /\ \A s \in DOMAIN Scene : Scene[s] \in Spans
  BY <1>1, SequenceParts
<1>3. \A s \in DOMAIN Scene : s # 0
  BY <1>2
<1> QED
  BY <1>1, <1>2, <1>3 DEF Spans

LEMMA SegmentParts ==
  ASSUME NEW g \in DOMAIN Segment
  PROVE  /\ Segment[g].asset \in Assets /\ Segment[g].start \in Nat
         /\ Segment[g].end \in Nat /\ Segment[g].start <= Segment[g].end
<1>1. Segment \in Seq(Spans)
  BY IndexAssumption DEF Spans
<1>2. Segment[g] \in Spans
  BY <1>1, SequenceParts
<1>3. Segment[g].start <= Segment[g].end
  BY IndexAssumption
<1> QED
  BY <1>2, <1>3 DEF Spans

LEMMA FrameParts ==
  ASSUME NEW f \in DOMAIN Frame
  PROVE  /\ Frame[f].scene \in DOMAIN Scene /\ Frame[f].scene # 0 /\ Frame[f].at \in Nat
<1> DEFINE F == [scene : DOMAIN Scene, at : Nat]
<1>1. Frame \in Seq(F)
  BY IndexAssumption
<1>2. Frame[f] \in F
  <2> HIDE DEF F
  <2> QED
    BY <1>1, SequenceParts
<1>3. Frame[f].scene \in DOMAIN Scene /\ Frame[f].at \in Nat
  BY <1>2
<1> QED
  BY <1>3, SceneParts

LEMMA ItemParts ==
  ASSUME NEW c \in DOMAIN Item
  PROVE  /\ Item[c].asset \in Assets /\ Item[c].scene \in SceneIds
         /\ Item[c].frame \in FrameIds /\ Item[c].start \in Nat
         /\ Item[c].end \in Nat /\ Item[c].text \in {"page", "speech", "screen"}
<1> DEFINE I == [asset : Assets, scene : SceneIds,
                 frame : FrameIds, start : Nat, end : Nat,
                 text : {"page", "speech", "screen"}]
<1>1. Item \in Seq(I)
  BY IndexAssumption DEF SceneIds, FrameIds
<1>2. Item[c] \in I
  <2> HIDE DEF I
  <2> QED
    BY <1>1, SequenceParts
<1> QED
  BY <1>2

\* Sets of scenes are finite.
LEMMA ScenesFinite ==
  ASSUME NEW S \in SUBSET (SceneIds)
  PROVE  IsFiniteSet(S) /\ S \in SUBSET Int
<1>1. DOMAIN Scene = 1..Len(Scene) /\ Len(Scene) \in Nat
  BY SceneParts
<1>2. IsFiniteSet(0..Len(Scene))
  BY <1>1, FS_Interval
<1>3. S \in SUBSET (0..Len(Scene)) /\ S \in SUBSET Int
  BY <1>1 DEF SceneIds
<1> QED
  BY <1>2, <1>3, FS_Subset

\* The scene a segment is stored under is the one it starts in, or the last one
\* when it starts after all of them.
LEMMA StoredScene ==
  ASSUME NEW g \in DOMAIN Segment,
         NEW s, s = AssignScene(Segment[g].asset, Segment[g].start)
  PROVE  \/ /\ s \in ScenesOf(Segment[g].asset)
            /\ Scene[s].start <= Segment[g].start
            /\ \/ Segment[g].start < Scene[s].end
               \/ \A r \in ScenesOf(Segment[g].asset) : Scene[r].end <= Segment[g].start
         \/ /\ s = 0
            /\ ScenesOf(Segment[g].asset) = {}
<1> DEFINE t == Segment[g].start
           mine == ScenesOf(Segment[g].asset)
           around == {r \in mine : Scene[r].start <= t /\ t < Scene[r].end}
<1>1. t \in Nat /\ mine \in SUBSET (DOMAIN Scene) /\ around \in SUBSET mine
  BY SegmentParts DEF ScenesOf
<1>2. IsFiniteSet(mine) /\ IsFiniteSet(around) /\ mine \in SUBSET Int /\ around \in SUBSET Int
  BY <1>1, ScenesFinite DEF SceneIds
<1>3. s = CASE around # {} -> Min(around)
            [] around = {} /\ mine # {} -> IF t >= Scene[Max(mine)].start THEN Max(mine) ELSE 0
            [] mine = {} -> 0
  BY DEF AssignScene
<1>4. CASE around # {}
  <2>1. s \in around
    BY <1>2, <1>3, <1>4, MinOf
  <2> QED
    BY <2>1
<1>5. CASE around = {} /\ mine # {}
  <2>1. Max(mine) \in mine /\ \A r \in mine : Max(mine) >= r
    BY <1>2, <1>5, MaxOf
  <2>2. \A r \in DOMAIN Scene : Scene[r].start \in Nat /\ Scene[r].end \in Nat
    BY SceneParts
  <2>3. ASSUME NEW r \in mine
        PROVE  Scene[r].end <= t
    <3>1. /\ r \in DOMAIN Scene /\ Scene[r].asset = Segment[g].asset
      BY DEF ScenesOf
    <3> SUFFICES ASSUME t < Scene[r].end
                 PROVE  FALSE
      BY <1>1, <2>2, <3>1
    <3>2. t \in 0..Scene[r].end - 1
      BY <1>1, <2>2, <3>1
    <3>3. \E q \in mine : Scene[q].start <= t /\ t < Scene[q].end
      BY <3>1, <3>2, ScenesTile
    <3> QED
      BY <1>5, <3>3
  <2>4. Scene[Max(mine)].start <= t
    <3>1. Max(mine) \in DOMAIN Scene
      BY <1>1, <2>1
    <3>2. Scene[Max(mine)].start < Scene[Max(mine)].end \/ Scene[Max(mine)].start = 0
      BY <3>1, ScenesTile
    <3>3. CASE Scene[Max(mine)].start < Scene[Max(mine)].end
      BY <1>1, <2>1, <2>2, <2>3, <3>1, <3>3
    <3>4. CASE Scene[Max(mine)].start = 0
      BY <1>1, <3>4
    <3> QED
      BY <3>2, <3>3, <3>4
  <2>5. s = Max(mine)
    BY <1>3, <1>5, <1>1, <2>4
  <2> QED
    BY <2>1, <2>3, <2>4, <2>5
<1>6. CASE mine = {}
  BY <1>1, <1>3, <1>6
<1> QED
  BY <1>4, <1>5, <1>6

\* A segment is attributed to scenes of its asset, the one it is stored under
\* among them, and to none only when there are none.
LEMMA AttributedScenes ==
  ASSUME NEW g \in DOMAIN Segment
  PROVE  /\ AssignScene(Segment[g].asset, Segment[g].start) \in Attributed(g)
         /\ ScenesOf(Segment[g].asset) # {} => Attributed(g) \subseteq ScenesOf(Segment[g].asset)
         /\ ScenesOf(Segment[g].asset) = {} => Attributed(g) = {0}
         /\ Attributed(g) \in SUBSET (SceneIds)
<1> DEFINE t == Segment[g].start
           mine == ScenesOf(Segment[g].asset)
           over == {r \in mine : Scene[r].end > t /\ Scene[r].start < Segment[g].end}
           s == AssignScene(Segment[g].asset, t)
<1>1. mine \in SUBSET (DOMAIN Scene)
  BY DEF ScenesOf
<1>2. Attributed(g) = IF over # {} THEN over ELSE {s}
  BY DEF Attributed
<1>3. \/ /\ s \in mine /\ Scene[s].start <= t
         /\ t < Scene[s].end \/ \A r \in mine : Scene[r].end <= t
      \/ s = 0 /\ mine = {}
  BY StoredScene
<1>4. /\ t \in Nat /\ Segment[g].end \in Nat /\ t <= Segment[g].end
      /\ \A r \in DOMAIN Scene : Scene[r].start \in Nat /\ Scene[r].end \in Nat /\ r \in Nat
  <2>1. DOMAIN Scene = 1..Len(Scene) /\ Len(Scene) \in Nat
    BY SceneParts
  <2>2. \A r \in DOMAIN Scene : r \in Nat
    BY <2>1
  <2> QED
    BY <2>2, SceneParts, SegmentParts
<1>5. \A r, q \in mine : r < q => Scene[r].end <= Scene[q].start
  BY ScenesTile DEF ScenesOf
<1>6. over # {} => s \in over
  <2> SUFFICES ASSUME NEW r \in over, s \notin over
               PROVE  FALSE
    OBVIOUS
  <2>1. s \in mine /\ Scene[s].start <= t /\ t < Scene[s].end
    BY <1>1, <1>3, <1>4
  <2>2. Scene[s].start = t /\ Segment[g].end = t
    BY <1>1, <1>4, <2>1
  <2>3. Scene[r].end > t /\ Scene[r].start < t /\ r \in mine /\ r # s
    BY <2>1, <2>2
  <2>4. r < s \/ s < r
    BY <1>1, <1>4, <2>1, <2>3
  <2>5. Scene[r].end <= Scene[s].start \/ Scene[s].end <= Scene[r].start
    BY <1>5, <2>1, <2>3, <2>4
  <2> QED
    BY <1>1, <1>4, <2>1, <2>2, <2>3, <2>5
<1> HIDE DEF s, over, mine
<1>7. s \in Attributed(g)
  BY <1>2, <1>6
<1>8. over \subseteq mine
  BY DEF over
<1>9. mine # {} => Attributed(g) \subseteq mine
  BY <1>2, <1>3, <1>8
<1>10. mine = {} => Attributed(g) = {0}
  BY <1>2, <1>3, <1>8
<1> QED
  BY <1>1, <1>7, <1>9, <1>10 DEF s, mine, SceneIds

-----------------------------------------------------------------------------
(* The hits of a row.                                                      *)

Speech == {"fts_transcript", "vec_transcript"}
Texts == {"", "page", "speech", "screen", "summary", "visual match"}
Hits == [scene : SceneIds, frame : FrameIds, item : ItemIds, asset : Assets, start : Nat, end : Nat,
         score : Int, rank : Nat, source : Streams \cup {"graph"}, snippet : Texts]
Rows(stream) == [row : RowsOf(stream), score : Int]

Scored(h, score, rank) == [h EXCEPT !.score = score, !.rank = rank]

\* The hits of row i of an answer of a stream, and the key of each.
RowHits(stream, a, i) ==
  {Scored(h, a[i].score, i - 1) :
     h \in IF stream \in Speech
           THEN {SegmentHit(stream, a[i].row, s) : s \in Attributed(a[i].row)}
           ELSE {OtherHit(stream, a[i].row)}}

RowKeys(stream, row) ==
  CASE stream \in Speech ->
         {IF s # 0 THEN <<"scene", s>> ELSE <<"item", 0>> : s \in Attributed(row)}
    [] stream = "content_items" ->
         {IF Item[row].scene # 0 THEN <<"scene", Item[row].scene>> ELSE <<"item", row>>}
    [] stream = "vec_frames" -> {<<"scene", Frame[row].scene>>}
    [] OTHER -> {<<"scene", row>>}

\* What a stream shows of its rows.
SnippetsOf(stream) ==
  CASE stream \in Speech -> {"speech"}
    [] stream = "fts_scenes" -> {"screen"}
    [] stream = "vec_frames" -> {""}
    [] stream = "vec_scenes" -> {"summary"}
    [] OTHER -> {"page", "speech", "screen"}

\* What is known of a hit of a row, and of the copy of a segment for a scene.
HitFor(h, stream, row, score, rank) ==
  /\ h \in Hits /\ h.source = stream /\ h.score = score /\ h.rank = rank
  /\ h.snippet \in SnippetsOf(stream) /\ Key(h) \in RowKeys(stream, row)
  /\ stream \notin Speech \cup {"content_items"} => h.scene # 0
  /\ stream \in Speech => h.item = 0 /\ h.scene \in Attributed(row)
  /\ stream = "content_items" => h.item = row
CopyFor(h, s) == h.scene = s /\ Key(h) = IF s # 0 THEN <<"scene", s>> ELSE <<"item", 0>>

HitOf(scene, frame, item, asset, start, end, score, rank, source, snippet) ==
  [scene |-> scene, frame |-> frame, item |-> item, asset |-> asset, start |-> start,
   end |-> end, score |-> score, rank |-> rank, source |-> source, snippet |-> snippet]

LEMMA SegmentHitIs ==
  ASSUME NEW stream \in Speech, NEW row \in DOMAIN Segment, NEW s \in Attributed(row),
         NEW x \in Int, NEW k \in Nat,
         NEW h, h = Scored(SegmentHit(stream, row, s), x, k)
  PROVE  HitFor(h, stream, row, x, k) /\ CopyFor(h, s)
<1>1. h = HitOf(s, 0, 0, Segment[row].asset, Segment[row].start, Segment[row].end,
                x, k, stream, "speech")
  BY DEF Scored, SegmentHit, Hit, HitOf
<1>2. /\ stream \in Streams /\ "speech" \in Texts /\ SnippetsOf(stream) = {"speech"}
      /\ stream # "content_items"
  BY DEF Speech, Streams, Texts, SnippetsOf
<1>3. /\ Segment[row].asset \in Assets /\ Segment[row].start \in Nat /\ Segment[row].end \in Nat
  BY SegmentParts
<1>4. s \in SceneIds
  BY AttributedScenes
<1>5. h \in Hits
  BY <1>1, <1>2, <1>3, <1>4 DEF HitOf, Hits, SceneIds, FrameIds, ItemIds
<1>6. Key(h) = IF s # 0 THEN <<"scene", s>> ELSE <<"item", 0>>
  BY <1>1 DEF Key, HitOf
<1>7. /\ h.source = stream /\ h.score = x /\ h.rank = k /\ h.snippet = "speech"
      /\ h.scene = s /\ h.item = 0
  BY <1>1 DEF HitOf
<1>8. Key(h) \in RowKeys(stream, row)
  BY <1>6 DEF RowKeys, Speech
<1> QED
  BY <1>2, <1>5, <1>6, <1>7, <1>8 DEF HitFor, CopyFor

LEMMA OtherHitIs ==
  ASSUME NEW stream \in Streams, stream \notin Speech, NEW row \in RowsOf(stream),
         NEW x \in Int, NEW k \in Nat,
         NEW h, h = Scored(OtherHit(stream, row), x, k)
  PROVE  HitFor(h, stream, row, x, k) /\ RowKeys(stream, row) = {Key(h)}
<1>1. CASE stream \in {"fts_scenes", "vec_scenes"}
  <2>1. RowsOf(stream) = DOMAIN Scene
    BY <1>1 DEF RowsOf
  <2>2. /\ row \in DOMAIN Scene /\ row # 0 /\ Scene[row].asset \in Assets
        /\ Scene[row].start \in Nat /\ Scene[row].end \in Nat
    BY <2>1, SceneParts
  <2>3. PICK text \in SnippetsOf(stream) :
          h = HitOf(row, 0, 0, Scene[row].asset, Scene[row].start, Scene[row].end,
                    x, k, stream, text)
    BY <1>1 DEF Scored, OtherHit, SceneHit, Hit, HitOf, SnippetsOf, Speech
  <2>4. text \in Texts /\ RowKeys(stream, row) = {<<"scene", row>>}
    BY <1>1 DEF SnippetsOf, RowKeys, Speech, Texts
  <2>5. h \in Hits
    BY <2>2, <2>3, <2>4 DEF HitOf, Hits, SceneIds, FrameIds, ItemIds
  <2>6. Key(h) = <<"scene", row>> /\ h.scene # 0
    BY <2>2, <2>3 DEF Key, HitOf
  <2>7. h.source = stream /\ h.score = x /\ h.rank = k /\ h.snippet = text
    BY <2>3 DEF HitOf
  <2> QED
    BY <1>1, <2>3, <2>4, <2>5, <2>6, <2>7 DEF HitFor
<1>2. CASE stream = "vec_frames"
  <2>1. RowsOf(stream) = DOMAIN Frame
    BY <1>2 DEF RowsOf
  <2>2. PICK s \in DOMAIN Scene : s = Frame[row].scene /\ s # 0
    BY <2>1, FrameParts
  <2>3. PICK asset \in Assets, start \in Nat, end \in Nat :
          asset = Scene[s].asset /\ start = Scene[s].start /\ end = Scene[s].end
    BY SceneParts
  <2>4. PICK text \in SnippetsOf(stream) : h = HitOf(s, row, 0, asset, start, end, x, k, stream, text)
    BY <1>2, <2>2, <2>3 DEF Scored, OtherHit, SceneHit, Hit, HitOf, SnippetsOf, Speech
  <2>5. /\ text \in Texts
        /\ RowKeys(stream, row) = {<<"scene", s>>}
    BY <1>2, <2>2 DEF SnippetsOf, RowKeys, Speech, Texts
  <2>6. h \in Hits
    BY <2>1, <2>4, <2>5 DEF HitOf, Hits, SceneIds, FrameIds, ItemIds
  <2>7. Key(h) = <<"scene", s>> /\ h.scene # 0
    BY <2>2, <2>4 DEF Key, HitOf
  <2>8. h.source = stream /\ h.score = x /\ h.rank = k /\ h.snippet = text
    BY <2>4 DEF HitOf
  <2> QED
    BY <1>2, <2>5, <2>6, <2>7, <2>8 DEF HitFor
<1>3. CASE stream = "content_items"
  <2>1. RowsOf(stream) = DOMAIN Item
    BY <1>3 DEF RowsOf
  <2>2. /\ Item[row].asset \in Assets /\ Item[row].scene \in SceneIds
        /\ Item[row].frame \in FrameIds /\ Item[row].start \in Nat
        /\ Item[row].end \in Nat /\ Item[row].text \in {"page", "speech", "screen"}
    BY <2>1, ItemParts
  <2>3. h = HitOf(Item[row].scene, Item[row].frame, row, Item[row].asset,
                  Item[row].start, Item[row].end, x, k, stream, Item[row].text)
    BY <1>3 DEF Scored, OtherHit, ItemHit, Hit, HitOf
  <2>4. /\ Item[row].text \in Texts /\ SnippetsOf(stream) = {"page", "speech", "screen"}
        /\ RowKeys(stream, row) = {IF Item[row].scene # 0 THEN <<"scene", Item[row].scene>>
                                                          ELSE <<"item", row>>}
    BY <1>3, <2>2 DEF SnippetsOf, RowKeys, Speech, Texts
  <2>5. h \in Hits
    BY <2>1, <2>2, <2>3, <2>4 DEF HitOf, Hits, SceneIds, FrameIds, ItemIds
  <2>6. Key(h) = IF Item[row].scene # 0 THEN <<"scene", Item[row].scene>> ELSE <<"item", row>>
    BY <2>3 DEF Key, HitOf
  <2>7. /\ h.source = stream /\ h.score = x /\ h.rank = k /\ h.snippet = Item[row].text
        /\ h.item = row
    BY <2>3 DEF HitOf
  <2> QED
    BY <1>3, <2>2, <2>4, <2>5, <2>6, <2>7 DEF HitFor
<1> QED
  BY <1>1, <1>2, <1>3 DEF Streams, Speech

\* The rows of an answer, and the hits of each.
LEMMA RowHitsAre ==
  ASSUME NEW stream \in Streams, NEW a \in Seq(Rows(stream)), NEW i \in DOMAIN a
  PROVE  /\ \A h \in RowHits(stream, a, i) : HitFor(h, stream, a[i].row, a[i].score, i - 1)
         /\ \A key \in RowKeys(stream, a[i].row) : \E h \in RowHits(stream, a, i) : Key(h) = key
         /\ stream \in Speech => \A s \in Attributed(a[i].row) :
              \E h \in RowHits(stream, a, i) : h.scene = s
<1>1. PICK row \in RowsOf(stream), x \in Int, k \in Nat :
        row = a[i].row /\ x = a[i].score /\ k = i - 1
  <2>1. a[i] \in Rows(stream) /\ i - 1 \in Nat
    BY SequenceParts
  <2> QED
    BY <2>1 DEF Rows
<1>2. CASE stream \in Speech
  <2>1. row \in DOMAIN Segment
    BY <1>2 DEF RowsOf, Speech
  <2> DEFINE H(s) == Scored(SegmentHit(stream, row, s), x, k)
  <2>2. RowHits(stream, a, i) = {H(s) : s \in Attributed(row)}
    BY <1>1, <1>2 DEF RowHits
  <2>3. ASSUME NEW s \in Attributed(row)
        PROVE  HitFor(H(s), stream, row, x, k) /\ CopyFor(H(s), s)
    BY <1>2, <2>1, SegmentHitIs
  <2> HIDE DEF H
  <2>4. \A h \in RowHits(stream, a, i) : HitFor(h, stream, row, x, k)
    BY <2>2, <2>3
  <2>5. \A s \in Attributed(row) : \E h \in RowHits(stream, a, i) : CopyFor(h, s)
    BY <2>2, <2>3
  <2>6. RowKeys(stream, row) = {IF s # 0 THEN <<"scene", s>> ELSE <<"item", 0>> : s \in Attributed(row)}
    BY <1>2 DEF RowKeys, Speech
  <2>7. \A key \in RowKeys(stream, row) : \E h \in RowHits(stream, a, i) : Key(h) = key
    BY <2>5, <2>6 DEF CopyFor
  <2> QED
    BY <1>1, <2>4, <2>5, <2>7 DEF CopyFor
<1>3. CASE stream \notin Speech
  <2>1. PICK h : h = Scored(OtherHit(stream, row), x, k)
    OBVIOUS
  <2>2. RowHits(stream, a, i) = {h}
    BY <1>1, <1>3, <2>1 DEF RowHits
  <2>3. HitFor(h, stream, row, x, k) /\ RowKeys(stream, row) = {Key(h)}
    BY <1>3, <2>1, OtherHitIs
  <2> QED
    BY <1>1, <1>3, <2>2, <2>3
<1> QED
  BY <1>2, <1>3

\* The copies of the segments of an answer, ordered by row and scene.
LEMMA CopyOrderIs ==
  ASSUME NEW stream \in Speech, NEW a \in Seq(Rows(stream))
  PROVE  LET order == CopyOrder(a)
             N == Cardinality(Copies(a))
         IN  /\ N \in Nat /\ DOMAIN order = 1..N
             /\ \A n \in 1..N : /\ order[n][1] \in DOMAIN a
                                /\ order[n][2] \in Attributed(a[order[n][1]].row)
             /\ \A i \in DOMAIN a : \A s \in Attributed(a[i].row) :
                  \E n \in 1..N : order[n] = <<i, s>>
             /\ \A n, m \in 1..N : n < m => order[n][1] <= order[m][1]
<1> DEFINE C == Copies(a)
           R == {p \in C \X C : Precedes(p[1], p[2])}
           N == Cardinality(C)
<1>1. DOMAIN a = 1..Len(a) /\ Len(a) \in Nat /\ \A i \in DOMAIN a : a[i].row \in DOMAIN Segment
  <2>1. DOMAIN a = 1..Len(a) /\ Len(a) \in Nat /\ \A i \in DOMAIN a : a[i] \in Rows(stream)
    BY SequenceParts
  <2>2. RowsOf(stream) = DOMAIN Segment
    BY DEF RowsOf, Speech
  <2> QED
    BY <2>1, <2>2 DEF Rows
<1>2. \A i \in DOMAIN a : Attributed(a[i].row) \in SUBSET (SceneIds)
  BY <1>1, AttributedScenes
<1>3. \A c : c \in C <=> \E i \in DOMAIN a : \E s \in Attributed(a[i].row) : c = <<i, s>>
  BY DEF Copies
<1>4. IsFiniteSet(C)
  <2>1. IsFiniteSet(DOMAIN a)
    BY <1>1, FS_Interval
  <2>2. IsFiniteSet(SceneIds)
    BY ScenesFinite
  <2>3. IsFiniteSet((DOMAIN a) \X (SceneIds))
    BY <2>1, <2>2, FS_Product
  <2>4. C \in SUBSET ((DOMAIN a) \X (SceneIds))
    BY <1>2, <1>3
  <2> QED
    BY <2>3, <2>4, FS_Subset
<1>5. \A c \in C : /\ c = <<c[1], c[2]>> /\ c[1] \in DOMAIN a /\ c[2] \in Attributed(a[c[1]].row)
                   /\ c[1] \in Int /\ c[2] \in Int
  <2> SUFFICES ASSUME NEW c \in C
               PROVE  /\ c = <<c[1], c[2]>> /\ c[1] \in DOMAIN a
                      /\ c[2] \in Attributed(a[c[1]].row) /\ c[1] \in Int /\ c[2] \in Int
    OBVIOUS
  <2>1. PICK i \in DOMAIN a : \E s \in Attributed(a[i].row) : c = <<i, s>>
    BY <1>3
  <2>2. PICK s \in Attributed(a[i].row) : c = <<i, s>>
    BY <2>1
  <2>3. i \in Int
    BY <1>1
  <2>4. s \in Int
    BY <1>2, ScenesFinite
  <2> QED
    BY <2>2, <2>3, <2>4
<1>6. \A b, c \in C : <<b, c>> \in R <=> Precedes(b, c)
  <2> HIDE DEF C
  <2> QED
    BY DEF R
<1>7. CopyOrder(a) = Ordered(C, R)
  BY DEF CopyOrder
<1> HIDE DEF C, R
<1>8. Orders(R, C)
  <2>1. ASSUME NEW b \in C, NEW c \in C, b # c
        PROVE  <<b, c>> \in R \/ <<c, b>> \in R
    <3>1. /\ b[1] \in Int /\ b[2] \in Int /\ c[1] \in Int /\ c[2] \in Int
          /\ b = <<b[1], b[2]>> /\ c = <<c[1], c[2]>>
      BY <1>5
    <3>2. b[1] # c[1] \/ b[2] # c[2]
      BY <2>1, <3>1
    <3>3. \/ b[1] < c[1] \/ c[1] < b[1]
          \/ b[1] = c[1] /\ (b[2] < c[2] \/ c[2] < b[2])
      BY <3>1, <3>2
    <3>4. Precedes(b, c) \/ Precedes(c, b)
      BY <3>1, <3>3 DEF Precedes
    <3> QED
      BY <1>6, <3>4
  <2>2. \A b \in C : <<b, b>> \notin R
    BY <1>5, <1>6 DEF Precedes
  <2>3. \A b, c, d \in C : <<b, c>> \in R /\ <<c, d>> \in R => <<b, d>> \in R
    BY <1>5, <1>6 DEF Precedes
  <2> QED
    BY <2>1, <2>2, <2>3 DEF Orders
<1>9. /\ DOMAIN Ordered(C, R) = 1..N /\ N \in Nat
      /\ \A i \in 1..N : Ordered(C, R)[i] \in C
      /\ \A c \in C : \E i \in 1..N : Ordered(C, R)[i] = c
      /\ \A i, k \in 1..N : i < k <=> <<Ordered(C, R)[i], Ordered(C, R)[k]>> \in R
  BY <1>4, <1>8, OrderedEnumerates
<1> HIDE DEF N
<1>10. \A n \in 1..N : /\ Ordered(C, R)[n][1] \in DOMAIN a
                       /\ Ordered(C, R)[n][2] \in Attributed(a[Ordered(C, R)[n][1]].row)
  BY <1>5, <1>9
<1>11. \A i \in DOMAIN a : \A s \in Attributed(a[i].row) : \E n \in 1..N : Ordered(C, R)[n] = <<i, s>>
  <2> SUFFICES ASSUME NEW i \in DOMAIN a, NEW s \in Attributed(a[i].row)
               PROVE  \E n \in 1..N : Ordered(C, R)[n] = <<i, s>>
    OBVIOUS
  <2>1. <<i, s>> \in C
    BY <1>3
  <2> QED
    BY <1>9, <2>1
<1>12. \A n, m \in 1..N : n < m => Ordered(C, R)[n][1] <= Ordered(C, R)[m][1]
  <2> SUFFICES ASSUME NEW n \in 1..N, NEW m \in 1..N, n < m
               PROVE  Ordered(C, R)[n][1] <= Ordered(C, R)[m][1]
    OBVIOUS
  <2>1. PICK b \in C, c \in C : b = Ordered(C, R)[n] /\ c = Ordered(C, R)[m]
    BY <1>9
  <2>2. <<b, c>> \in R
    BY <1>9, <2>1
  <2>3. b[1] \in Int /\ c[1] \in Int
    BY <1>5
  <2>4. b[1] < c[1] \/ b[1] = c[1]
    BY <1>6, <2>2 DEF Precedes
  <2> QED
    BY <2>1, <2>3, <2>4
<1> QED
  BY <1>7, <1>9, <1>10, <1>11, <1>12 DEF C, N

\* hs lists the hits of the rows of a, at[n] being the row of the n-th.
ListsAt(hs, N, at, stream, a) ==
  /\ N \in Nat /\ at \in [1..N -> DOMAIN a]
  /\ DOMAIN hs = 1..N /\ hs = [n \in 1..N |-> hs[n]]
  /\ \A n \in 1..N : hs[n] \in RowHits(stream, a, at[n])
  /\ \A i \in DOMAIN a : \A h \in RowHits(stream, a, i) : \E n \in 1..N : hs[n] = h
  /\ \A n, m \in 1..N : n < m => at[n] <= at[m] /\ (stream \notin Speech => at[n] < at[m])

\* The hits of an answer are those of its rows, in the order of the rows.
LEMMA HitsInRows ==
  ASSUME NEW stream \in Streams, NEW a \in Seq(Rows(stream)), NEW N, NEW at, NEW hs,
         ListsAt(hs, N, at, stream, a)
  PROVE  /\ hs \in Seq(Hits)
         /\ \A n \in DOMAIN hs : \E i \in DOMAIN a : hs[n] \in RowHits(stream, a, i)
         /\ \A i \in DOMAIN a : \A h \in RowHits(stream, a, i) : \E n \in DOMAIN hs : hs[n] = h
         /\ \A n, m \in DOMAIN hs : n < m =>
              hs[n].rank <= hs[m].rank /\ (stream \notin Speech => hs[n].rank < hs[m].rank)
<1> USE DEF ListsAt
<1>1. DOMAIN a = 1..Len(a) /\ Len(a) \in Nat
  BY SequenceParts
<1>2. \A n \in 1..N : HitFor(hs[n], stream, a[at[n]].row, a[at[n]].score, at[n] - 1)
  BY RowHitsAre
<1>3. \A n \in 1..N : hs[n] \in Hits /\ hs[n].rank = at[n] - 1
  BY <1>2 DEF HitFor
<1>4. hs \in [1..N -> Hits]
  BY <1>3
<1>5. hs \in Seq(Hits)
  BY <1>4, IsSequence
<1>6. ASSUME NEW n \in 1..N, NEW m \in 1..N, n < m
      PROVE  hs[n].rank <= hs[m].rank /\ (stream \notin Speech => hs[n].rank < hs[m].rank)
  <2>1. at[n] \in Nat /\ at[m] \in Nat /\ at[n] <= at[m] /\ (stream \notin Speech => at[n] < at[m])
    BY <1>1, <1>6
  <2> QED
    BY <1>3, <2>1
<1> QED
  BY <1>5, <1>6

LEMMA HitsOfAre ==
  ASSUME NEW stream \in Streams, NEW a \in Seq(Rows(stream)),
         NEW hs, hs = HitsOf(stream, a)
  PROVE  /\ hs \in Seq(Hits)
         /\ \A n \in DOMAIN hs : \E i \in DOMAIN a : hs[n] \in RowHits(stream, a, i)
         /\ \A i \in DOMAIN a : \A h \in RowHits(stream, a, i) : \E n \in DOMAIN hs : hs[n] = h
         /\ \A n, m \in DOMAIN hs : n < m =>
              hs[n].rank <= hs[m].rank /\ (stream \notin Speech => hs[n].rank < hs[m].rank)
<1>0. DOMAIN a = 1..Len(a) /\ Len(a) \in Nat
  BY SequenceParts
<1>1. CASE stream \in Speech
  <2> DEFINE order == CopyOrder(a)
             N == Cardinality(Copies(a))
             H(n) == Scored(SegmentHit(stream, a[order[n][1]].row, order[n][2]),
                            a[order[n][1]].score, order[n][1] - 1)
             at == [n \in 1..N |-> order[n][1]]
  <2>1. /\ N \in Nat /\ DOMAIN order = 1..N
        /\ \A n \in 1..N : /\ order[n][1] \in DOMAIN a
                           /\ order[n][2] \in Attributed(a[order[n][1]].row)
        /\ \A i \in DOMAIN a : \A s \in Attributed(a[i].row) :
             \E n \in 1..N : order[n] = <<i, s>>
        /\ \A n, m \in 1..N : n < m => order[n][1] <= order[m][1]
    BY <1>1, CopyOrderIs
  <2>2. hs = [n \in DOMAIN order |-> H(n)]
    BY <1>1 DEF HitsOf, SegmentHits, Scored, Speech
  <2>3. \A i : RowHits(stream, a, i) = {Scored(SegmentHit(stream, a[i].row, s), a[i].score, i - 1) :
                                          s \in Attributed(a[i].row)}
    BY <1>1 DEF RowHits
  <2> HIDE DEF order, N
  <2>4. ASSUME NEW n \in 1..N
        PROVE  hs[n] \in RowHits(stream, a, at[n])
    <3>1. hs[n] = H(n) /\ at[n] = order[n][1]
      BY <2>1, <2>2
    <3>2. H(n) \in RowHits(stream, a, order[n][1])
      BY <2>1, <2>3
    <3> QED
      BY <3>1, <3>2
  <2>5. ASSUME NEW i \in DOMAIN a, NEW h \in RowHits(stream, a, i)
        PROVE  \E n \in 1..N : hs[n] = h
    <3>1. PICK s \in Attributed(a[i].row) : h = Scored(SegmentHit(stream, a[i].row, s), a[i].score, i - 1)
      BY <2>3
    <3>2. PICK n \in 1..N : order[n] = <<i, s>>
      BY <2>1
    <3>3. order[n][1] = i /\ order[n][2] = s
      BY <3>2
    <3> QED
      BY <2>1, <2>2, <3>1, <3>3
  <2> HIDE DEF H
  <2>6. at \in [1..N -> DOMAIN a] /\ \A n, m \in 1..N : n < m => at[n] <= at[m]
    BY <2>1
  <2>7. DOMAIN hs = 1..N /\ hs = [n \in 1..N |-> hs[n]]
    BY <2>1, <2>2
  <2> HIDE DEF at
  <2> QED
    <3>1. ListsAt(hs, N, at, stream, a)
      BY <1>1, <2>1, <2>4, <2>5, <2>6, <2>7 DEF ListsAt
    <3> QED
      BY <3>1, HitsInRows
<1>2. CASE stream \notin Speech
  <2> DEFINE H(i) == Scored(OtherHit(stream, a[i].row), a[i].score, i - 1)
             N == Len(a)
             at == [n \in 1..N |-> n]
  <2>1. hs = [i \in DOMAIN a |-> H(i)]
    BY <1>2 DEF HitsOf, Scored, Speech
  <2>2. \A i : RowHits(stream, a, i) = {H(i)}
    BY <1>2 DEF RowHits
  <2> HIDE DEF H
  <2>3. at \in [1..N -> DOMAIN a] /\ \A n, m \in 1..N : n < m => at[n] < at[m] /\ at[n] <= at[m]
    BY <1>0
  <2>4. /\ \A n \in 1..N : hs[n] \in RowHits(stream, a, at[n])
        /\ \A i \in DOMAIN a : \A h \in RowHits(stream, a, i) : \E n \in 1..N : hs[n] = h
    BY <1>0, <2>1, <2>2
  <2>5. DOMAIN hs = 1..N /\ hs = [n \in 1..N |-> hs[n]]
    BY <1>0, <2>1
  <2> HIDE DEF at
  <2> QED
    <3>1. ListsAt(hs, N, at, stream, a)
      BY <1>0, <2>3, <2>4, <2>5 DEF ListsAt
    <3> QED
      BY <3>1, HitsInRows
<1> QED
  BY <1>1, <1>2

\* ByScore enumerates a finite set, the best first.
LEMMA ByScoreEnumerates ==
  ASSUME NEW S, IsFiniteSet(S), NEW score, NEW place,
         \A a \in S : score[a] \in Int /\ place[a] \in Int,
         \A a, b \in S : place[a] = place[b] => a = b
  PROVE  /\ DOMAIN ByScore(S, score, place) = 1..Cardinality(S)
         /\ Cardinality(S) \in Nat
         /\ \A i \in 1..Cardinality(S) : ByScore(S, score, place)[i] \in S
         /\ \A a \in S : \E i \in 1..Cardinality(S) : ByScore(S, score, place)[i] = a
         /\ \A i, k \in 1..Cardinality(S) : i < k =>
              /\ ByScore(S, score, place)[i] # ByScore(S, score, place)[k]
              /\ score[ByScore(S, score, place)[i]] >= score[ByScore(S, score, place)[k]]
<1> DEFINE R == {p \in S \X S : Outranks(score, place, p[1], p[2])}
           N == Cardinality(S)
<1>1. \A a, b \in S : <<a, b>> \in R <=> Outranks(score, place, a, b)
  OBVIOUS
<1>2. ByScore(S, score, place) = Ordered(S, R)
  BY DEF ByScore
<1> HIDE DEF R
<1>3. Orders(R, S)
  <2>1. \A a, b \in S : a # b => Outranks(score, place, a, b) \/ Outranks(score, place, b, a)
    BY DEF Outranks
  <2>2. \A a \in S : ~Outranks(score, place, a, a)
    BY DEF Outranks
  <2>3. \A a, b, c \in S :
          Outranks(score, place, a, b) /\ Outranks(score, place, b, c) => Outranks(score, place, a, c)
    BY DEF Outranks
  <2> QED
    BY <1>1, <2>1, <2>2, <2>3 DEF Orders
<1>4. /\ DOMAIN Ordered(S, R) = 1..N /\ N \in Nat
      /\ \A i \in 1..N : Ordered(S, R)[i] \in S
      /\ \A c \in S : \E i \in 1..N : Ordered(S, R)[i] = c
      /\ \A i, k \in 1..N : i < k <=> <<Ordered(S, R)[i], Ordered(S, R)[k]>> \in R
  BY <1>3, OrderedEnumerates
<1>5. ASSUME NEW i \in 1..N, NEW k \in 1..N, i < k
      PROVE  /\ Ordered(S, R)[i] # Ordered(S, R)[k]
             /\ score[Ordered(S, R)[i]] >= score[Ordered(S, R)[k]]
  <2>1. PICK a \in S, b \in S : a = Ordered(S, R)[i] /\ b = Ordered(S, R)[k]
    BY <1>4
  <2>2. Outranks(score, place, a, b)
    BY <1>1, <1>4, <1>5, <2>1
  <2>3. a # b /\ score[a] >= score[b]
    BY <2>2 DEF Outranks
  <2> QED
    BY <2>1, <2>3
<1> QED
  BY <1>2, <1>4, <1>5

LEMMA ByScoreIsFunction ==
  ASSUME NEW S, NEW score, NEW place, NEW e, e = ByScore(S, score, place)
  PROVE  e = [i \in DOMAIN e |-> e[i]]
  BY DEF ByScore, Ordered

-----------------------------------------------------------------------------
(* The answers are the same while what they are made of is.                *)

LEMMA AnswersStand ==
  ASSUME found' = found, listed' = listed, topK' = topK
  PROVE  Fts' = Fts /\ Vector' = Vector /\ Hybrid' = Hybrid
<1>1. SceneStreams' = SceneStreams
  BY DEF SceneStreams
<1>2. Flat' = Flat
  BY DEF Flat, SceneOrder, ListedScenes, AtScene, SceneStreams, Chosen, Highest
<1>3. Vector' = Vector
  BY <1>2 DEF Vector
<1>4. Sorted' = Sorted
  BY <1>1, <1>2 DEF Sorted
<1>5. Fts' = Fts
  BY <1>4 DEF Fts
<1>6. Hybrid' = Hybrid
  BY DEF Hybrid, HybridHit, KeyOrder, Keys, At, Fused, FirstIn, Contribution, TopScore, Representative, Best, WithSnippet, FrameFor
<1> QED
  BY <1>3, <1>5, <1>6

-----------------------------------------------------------------------------
(* The invariants.                                                         *)

\* What the streams asked so far answered, and the hits listed of it: those of
\* the rows, the hits of a stream in the order of their ranks.
Listing ==
  /\ asked \in 0..Len(StreamOrder)
  /\ DOMAIN found = Streams
  /\ \A stream \in Streams : found[stream] \in Answers(stream)
  /\ \A k \in asked + 1..Len(StreamOrder) : found[StreamOrder[k]] = <<>>
  /\ \A stream \in Streams \ Asked(mode) : found[stream] = <<>>
  /\ listed \in Seq(Hits)
  /\ \A n \in DOMAIN listed : \E stream \in Streams : \E i \in DOMAIN found[stream] :
       listed[n] \in RowHits(stream, found[stream], i)
  /\ \A stream \in Streams : \A i \in DOMAIN found[stream] :
       \A h \in RowHits(stream, found[stream], i) : \E n \in DOMAIN listed : listed[n] = h
  /\ \A n, m \in DOMAIN listed :
       n < m /\ listed[n].source = listed[m].source =>
         /\ listed[n].rank <= listed[m].rank
         /\ listed[n].source \notin Speech => listed[n].rank < listed[m].rank

Request ==
  /\ mode \in Modes /\ topK \in TopKs /\ within \in Ranges
  /\ pc \in {"ask", "expand", "done"}
  /\ pc = "expand" => mode = "hybrid_graph"

\* The answer is that of the mode, and after the graph that with its neighbours.
Answered ==
  /\ neighbours \in Seq(DOMAIN Item)
  /\ pc = "ask" => base = <<>> /\ hits = <<>>
  /\ pc # "ask" =>
       base = CASE mode = "fts" -> Fts [] mode = "vector" -> Vector [] OTHER -> Hybrid
  /\ hits = IF pc = "done" /\ mode = "hybrid_graph" /\ Fresh(neighbours) # <<>>
            THEN Blend(Fresh(neighbours)) ELSE base

SearchInvariant == Request /\ Listing /\ Answered

\* The rows of an answer.
AnswerOf(a, stream) ==
  /\ a \in Seq(Rows(stream)) /\ Len(a) <= MaxRows
  /\ \A i \in DOMAIN a : a[i].score \in ScoresOf(stream) /\ Passes(stream, a[i].row)
  /\ \A i, k \in DOMAIN a : i < k => a[i].row # a[k].row /\ a[i].score >= a[k].score

LEMMA ScoresAre ==
  ASSUME NEW stream
  PROVE  ScoresOf(stream) \subseteq Int /\ ScoresOf(stream) \subseteq FtsScores \cup VecScores
  BY SearchAssumption DEF ScoresOf

LEMMA AnswerParts ==
  ASSUME NEW stream \in Streams, NEW a \in Answers(stream)
  PROVE  AnswerOf(a, stream)
<1> DEFINE T == [row : {row \in RowsOf(stream) : Passes(stream, row)}, score : ScoresOf(stream)]
<1>1. a \in SeqOf(T, MaxRows) /\ \A i, k \in DOMAIN a :
        i < k => a[i].row # a[k].row /\ a[i].score >= a[k].score
  BY DEF Answers
<1>2. PICK m \in 0..MaxRows : a \in [1..m -> T]
  <2> HIDE DEF T
  <2> QED
    BY <1>1 DEF SeqOf
<1>3. m \in Nat /\ m <= MaxRows
  BY SearchAssumption
<1>4. \A i \in 1..m : /\ a[i] \in Rows(stream) /\ a[i].score \in ScoresOf(stream)
                      /\ Passes(stream, a[i].row)
  BY <1>2, ScoresAre DEF Rows
<1>5. a \in [1..m -> Rows(stream)] /\ DOMAIN a = 1..m
  <2> HIDE DEF T
  <2> QED
    BY <1>2, <1>4
<1>6. a \in Seq(Rows(stream)) /\ Len(a) = m
  BY <1>3, <1>5, IsSequence
<1> QED
  BY <1>1, <1>3, <1>4, <1>5, <1>6 DEF AnswerOf

LEMMA NoAnswer ==
  ASSUME NEW stream
  PROVE  <<>> \in Answers(stream)
<1> DEFINE T == [row : {row \in RowsOf(stream) : Passes(stream, row)}, score : ScoresOf(stream)]
<1>1. 0 \in 0..MaxRows
  BY SearchAssumption
<1>2. <<>> \in [1..0 -> T]
  <2> HIDE DEF T
  <2> QED
    OBVIOUS
<1>3. <<>> \in SeqOf(T, MaxRows)
  <2> HIDE DEF T
  <2> QED
    BY <1>1, <1>2 DEF SeqOf
<1> QED
  BY <1>3 DEF Answers

LEMMA StreamOrderIs ==
  /\ Len(StreamOrder) = 6
  /\ \A k \in 1..6 : StreamOrder[k] \in Streams
  /\ \A k, l \in 1..6 : k # l => StreamOrder[k] # StreamOrder[l]
<1>1. Len(StreamOrder) = 6
  BY DEF StreamOrder
<1>2. /\ StreamOrder[1] = "fts_transcript" /\ StreamOrder[2] = "fts_scenes"
      /\ StreamOrder[3] = "vec_frames" /\ StreamOrder[4] = "vec_transcript"
      /\ StreamOrder[5] = "vec_scenes" /\ StreamOrder[6] = "content_items"
  BY DEF StreamOrder
<1>3. \A k \in 1..6 : k = 1 \/ k = 2 \/ k = 3 \/ k = 4 \/ k = 5 \/ k = 6
  OBVIOUS
<1>4. \A k \in 1..6 : StreamOrder[k] \in Streams
  BY <1>2, <1>3 DEF Streams
<1>5. \A k, l \in 1..6 : k # l => StreamOrder[k] # StreamOrder[l]
  BY <1>2, <1>3
<1> QED
  BY <1>1, <1>4, <1>5

LEMMA ListingBegins ==
  ASSUME Init
  PROVE  Listing
<1>1. asked = 0 /\ found = [stream \in Streams |-> <<>>] /\ listed = <<>>
  BY DEF Init
<1>2. \A stream \in Streams : found[stream] = <<>> /\ found[stream] \in Answers(stream)
  BY <1>1, NoAnswer
<1>3. asked \in 0..Len(StreamOrder) /\ \A k \in asked + 1..Len(StreamOrder) : StreamOrder[k] \in Streams
  BY <1>1, StreamOrderIs
<1>4. listed \in Seq(Hits) /\ DOMAIN listed = {} /\ DOMAIN <<>> = {}
  BY <1>1
<1> QED
  BY <1>1, <1>2, <1>3, <1>4 DEF Listing

\* What a stream answers is listed after what was listed before.
LEMMA ListingGrows ==
  ASSUME Listing, AskStream
  PROVE  Listing'
<1> DEFINE stream == StreamOrder[asked + 1]
<1>1. /\ asked + 1 \in 1..6 /\ asked' = asked + 1 /\ within' = within
      /\ stream \in Streams /\ found[stream] = <<>> /\ DOMAIN found = Streams
  BY StreamOrderIs DEF AskStream, Listing, request
<1>2. PICK a \in Answers(stream) :
        /\ found' = [found EXCEPT ![stream] = a]
        /\ listed' = listed \o HitsOf(stream, a)
        /\ stream \notin Asked(mode) => a = <<>>
  BY NoAnswer DEF AskStream
<1>3. PICK hs : hs = HitsOf(stream, a)
  OBVIOUS
<1>4. /\ a \in Seq(Rows(stream))
      /\ listed \in Seq(Hits) /\ listed' = listed \o hs
      /\ found'[stream] = a
      /\ \A st \in Streams \ {stream} : found'[st] = found[st]
      /\ DOMAIN found' = Streams
  BY <1>1, <1>2, <1>3, AnswerParts DEF Listing, AnswerOf
<1>5. /\ hs \in Seq(Hits)
      /\ \A n \in DOMAIN hs : \E i \in DOMAIN a : hs[n] \in RowHits(stream, a, i)
      /\ \A i \in DOMAIN a : \A h \in RowHits(stream, a, i) : \E n \in DOMAIN hs : hs[n] = h
      /\ \A n, m \in DOMAIN hs : n < m =>
           hs[n].rank <= hs[m].rank /\ (stream \notin Speech => hs[n].rank < hs[m].rank)
  BY <1>1, <1>3, <1>4, HitsOfAre
<1> HIDE DEF stream
<1>6. /\ listed' \in Seq(Hits)
      /\ Len(listed') = Len(listed) + Len(hs)
      /\ \A n \in 1..Len(listed) : listed'[n] = listed[n]
      /\ \A n \in 1..Len(hs) : listed'[Len(listed) + n] = hs[n]
  BY <1>4, <1>5, ConcatParts
<1>7. /\ DOMAIN listed = 1..Len(listed) /\ DOMAIN hs = 1..Len(hs)
      /\ DOMAIN listed' = 1..Len(listed) + Len(hs) /\ Len(listed) \in Nat /\ Len(hs) \in Nat
  BY <1>4, <1>5, <1>6, SequenceParts
<1>8. ASSUME NEW n \in DOMAIN listed'
      PROVE  \/ n \in DOMAIN listed /\ listed'[n] = listed[n]
             \/ \E k \in DOMAIN hs : n = Len(listed) + k /\ listed'[n] = hs[k]
  <2>1. CASE n <= Len(listed)
    BY <1>6, <1>7, <2>1
  <2>2. CASE n > Len(listed)
    <3>1. n - Len(listed) \in 1..Len(hs) /\ n = Len(listed) + (n - Len(listed))
      BY <1>7, <2>2
    <3> QED
      BY <1>6, <1>7, <3>1
  <2> QED
    BY <1>7, <2>1, <2>2
<1>9. \A st \in Streams : found'[st] \in Answers(st)'
  <2>1. \A st \in Streams : Answers(st)' = Answers(st)
    BY <1>1 DEF Answers, Passes
  <2> QED
    BY <1>2, <1>4, <2>1 DEF Listing
<1>10. \A k \in asked' + 1..Len(StreamOrder) : found'[StreamOrder[k]] = <<>>
  <2> SUFFICES ASSUME NEW k \in asked' + 1..Len(StreamOrder)
               PROVE  found'[StreamOrder[k]] = <<>>
    OBVIOUS
  <2>1. k \in 1..6 /\ k # asked + 1 /\ k \in asked + 1..Len(StreamOrder)
    BY <1>1, StreamOrderIs DEF Listing
  <2>2. StreamOrder[k] \in Streams \ {stream}
    BY <1>1, <2>1, StreamOrderIs DEF stream
  <2> QED
    BY <1>4, <2>1, <2>2 DEF Listing
<1>11. \A n \in DOMAIN listed : \E st \in Streams \ {stream} : \E i \in DOMAIN found[st] :
         listed[n] \in RowHits(st, found[st], i)
  BY <1>1 DEF Listing
<1>12. ASSUME NEW n \in DOMAIN listed'
       PROVE  \E st \in Streams : \E i \in DOMAIN found'[st] : listed'[n] \in RowHits(st, found'[st], i)
  <2>1. CASE n \in DOMAIN listed /\ listed'[n] = listed[n]
    BY <1>4, <1>11, <2>1
  <2>2. CASE \E k \in DOMAIN hs : n = Len(listed) + k /\ listed'[n] = hs[k]
    BY <1>1, <1>4, <1>5, <2>2
  <2> QED
    BY <1>8, <2>1, <2>2
<1>13. ASSUME NEW st \in Streams, NEW i \in DOMAIN found'[st], NEW h \in RowHits(st, found'[st], i)
       PROVE  \E n \in DOMAIN listed' : listed'[n] = h
  <2>1. CASE st = stream
    <3>1. PICK k \in DOMAIN hs : hs[k] = h
      BY <1>4, <1>5, <2>1
    <3>2. Len(listed) + k \in DOMAIN listed'
      BY <1>7
    <3> QED
      BY <1>6, <1>7, <3>1, <3>2
  <2>2. CASE st # stream
    <3>1. PICK n \in DOMAIN listed : listed[n] = h
      BY <1>4, <2>2 DEF Listing
    <3>2. n \in DOMAIN listed'
      BY <1>7
    <3> QED
      BY <1>6, <1>7, <3>1, <3>2
  <2> QED
    BY <2>1, <2>2
<1>14. \A n \in DOMAIN listed : listed[n].source # stream
  <2> SUFFICES ASSUME NEW n \in DOMAIN listed
               PROVE  listed[n].source # stream
    OBVIOUS
  <2>1. PICK st \in Streams \ {stream} : \E i \in DOMAIN found[st] : listed[n] \in RowHits(st, found[st], i)
    BY <1>11
  <2>2. PICK i \in DOMAIN found[st] : listed[n] \in RowHits(st, found[st], i)
    BY <2>1
  <2>3. found[st] \in Seq(Rows(st))
    BY AnswerParts DEF Listing, AnswerOf
  <2>4. listed[n].source = st
    BY <2>2, <2>3, RowHitsAre DEF HitFor
  <2> QED
    BY <2>4
<1>15. \A k \in DOMAIN hs : hs[k].source = stream
  BY <1>1, <1>4, <1>5, RowHitsAre DEF HitFor
<1>16. ASSUME NEW n \in DOMAIN listed', NEW m \in DOMAIN listed', n < m,
              listed'[n].source = listed'[m].source
       PROVE  /\ listed'[n].rank <= listed'[m].rank
              /\ listed'[n].source \notin Speech => listed'[n].rank < listed'[m].rank
  <2>1. CASE m \in DOMAIN listed /\ listed'[m] = listed[m]
    <3>1. n \in DOMAIN listed /\ listed'[n] = listed[n]
      BY <1>6, <1>7, <1>16, <2>1
    <3> QED
      BY <1>16, <2>1, <3>1 DEF Listing
  <2>2. CASE \E k \in DOMAIN hs : m = Len(listed) + k /\ listed'[m] = hs[k]
    <3>1. PICK k \in DOMAIN hs : m = Len(listed) + k /\ listed'[m] = hs[k]
      BY <2>2
    <3>2. PICK l \in DOMAIN hs : n = Len(listed) + l /\ listed'[n] = hs[l]
      BY <1>8, <1>14, <1>15, <1>16, <3>1
    <3>3. l < k
      BY <1>7, <1>16, <3>1, <3>2
    <3> QED
      BY <1>5, <1>15, <3>1, <3>2, <3>3
  <2> QED
    BY <1>8, <2>1, <2>2
<1>17. asked' \in 0..Len(StreamOrder)
  BY <1>1, StreamOrderIs
<1>18. \A st \in Streams \ Asked(mode)' : found'[st] = <<>>
  <2>1. mode' = mode /\ Asked(mode)' = Asked(mode)
    BY DEF AskStream, request, Asked
  <2>2. stream \notin Asked(mode) => a = <<>>
    BY <1>2 DEF stream
  <2> QED
    BY <1>4, <2>1, <2>2 DEF Listing
<1> QED
  BY <1>4, <1>6, <1>9, <1>10, <1>12, <1>13, <1>16, <1>17, <1>18 DEF Listing

\* The request stays, and what is answered of it.
LEMMA InvariantBegins ==
  ASSUME Init
  PROVE  SearchInvariant
<1>1. Listing
  BY ListingBegins
<1>2. Request
  BY DEF Init, Request
<1>3. <<>> \in Seq(DOMAIN Item)
  OBVIOUS
<1>4. Answered
  BY <1>3 DEF Init, Answered
<1> QED
  BY <1>1, <1>2, <1>4 DEF SearchInvariant

LEMMA FreshStands ==
  ASSUME base' = base, topK' = topK
  PROVE  /\ \A rows : Fresh(rows)' = Fresh(rows)
         /\ \A fresh : Blend(fresh)' = Blend(fresh)
<1>1. \A rows : Fresh(rows)' = Fresh(rows)
  BY DEF Fresh
<1>2. \A fresh : Blend(fresh)' = Blend(fresh)
  BY DEF Blend, GraphQuota
<1> QED
  BY <1>1, <1>2

LEMMA InvariantStays ==
  ASSUME SearchInvariant, [Next]_vars
  PROVE  SearchInvariant'
<1> USE DEF SearchInvariant
<1>1. CASE AskStream
  <2>1. Request'
    BY <1>1 DEF AskStream, Request, request
  <2>2. Answered'
    BY <1>1 DEF AskStream, Answered, request
  <2> QED
    BY <1>1, <2>1, <2>2, ListingGrows
<1>2. ASSUME UNCHANGED <<request, asked, found, listed>>
      PROVE  Listing'
  <2>1. \A stream : Answers(stream)' = Answers(stream)
    BY <1>2 DEF Answers, Passes, request
  <2>2. Asked(mode)' = Asked(mode)
    BY <1>2 DEF Asked, request
  <2> QED
    BY <1>2, <2>1, <2>2 DEF Listing
<1>3. ASSUME NEW result, Answer(result), pc' \in {"done", "expand"},
             pc' = "expand" <=> mode = "hybrid_graph",
             result = CASE mode = "fts" -> Fts [] mode = "vector" -> Vector [] OTHER -> Hybrid
      PROVE  SearchInvariant'
  <2>1. Listing'
    BY <1>2, <1>3 DEF Answer
  <2>2. Request'
    BY <1>3 DEF Answer, Request, request
  <2>3. Fts' = Fts /\ Vector' = Vector /\ Hybrid' = Hybrid
    BY <1>3, AnswersStand DEF Answer, request
  <2>4. /\ mode' = mode /\ neighbours' = neighbours /\ base' = result /\ hits' = result
    BY <1>3 DEF Answer, request
  <2>5. Answered'
    BY <1>3, <2>3, <2>4 DEF Answered
  <2> QED
    BY <2>1, <2>2, <2>5
<1>4. CASE AnswerFts
  BY <1>3, <1>4 DEF AnswerFts
<1>5. CASE AnswerVector
  BY <1>3, <1>5 DEF AnswerVector
<1>6. CASE AnswerHybrid
  BY <1>3, <1>6 DEF AnswerHybrid
<1>7. CASE AnswerBeforeGraph
  BY <1>3, <1>7 DEF AnswerBeforeGraph
<1>8. CASE ExpandGraph
  <2>1. UNCHANGED <<request, asked, found, listed, base>> /\ pc = "expand" /\ pc' = "done"
    BY <1>8 DEF ExpandGraph
  <2>2. mode = "hybrid_graph" /\ mode' = mode
    BY <2>1 DEF Request, request
  <2>3. Fts' = Fts /\ Vector' = Vector /\ Hybrid' = Hybrid
    BY <2>1, AnswersStand DEF request
  <2>4. neighbours' \in Seq(DOMAIN Item)
    <3> DEFINE T == {c \in DOMAIN Item : Passes("content_items", c)}
    <3>1. neighbours' = <<>> \/ neighbours' \in SeqOf(T, topK)
      BY <1>8 DEF ExpandGraph
    <3>2. topK \in Nat
      BY SearchAssumption DEF Request
    <3>3. CASE neighbours' \in SeqOf(T, topK)
      <4>1. PICK m \in 0..topK : neighbours' \in [1..m -> T]
        BY <3>3 DEF SeqOf
      <4> QED
        BY <3>2, <4>1, IsSequence
    <3>4. CASE neighbours' = <<>>
      BY <3>4
    <3> HIDE DEF T
    <3> QED
      BY <3>1, <3>3, <3>4
  <2>5. hits' = IF Fresh(neighbours') = <<>> THEN base ELSE Blend(Fresh(neighbours'))
    BY <1>8 DEF ExpandGraph
  <2>6. /\ Fresh(neighbours)' = Fresh(neighbours')
        /\ Blend(Fresh(neighbours))' = Blend(Fresh(neighbours'))
    BY <2>1, FreshStands DEF request
  <2>7. Answered'
    BY <2>1, <2>2, <2>3, <2>4, <2>5, <2>6 DEF Answered
  <2>8. Request'
    BY <2>1, <2>2 DEF Request, request
  <2> QED
    BY <1>2, <2>1, <2>7, <2>8
<1>9. CASE UNCHANGED vars
  <2>1. UNCHANGED <<request, asked, found, listed, base, neighbours, pc, hits>>
    BY <1>9 DEF vars
  <2>2. Fts' = Fts /\ Vector' = Vector /\ Hybrid' = Hybrid
    BY <2>1, AnswersStand DEF request
  <2>3. /\ Fresh(neighbours)' = Fresh(neighbours)
        /\ Blend(Fresh(neighbours))' = Blend(Fresh(neighbours))
    BY <2>1 DEF Fresh, Blend, GraphQuota, request
  <2>4. Answered'
    BY <2>1, <2>2, <2>3 DEF Answered, request
  <2>5. Request'
    BY <2>1 DEF Request, request
  <2> QED
    BY <1>2, <2>1, <2>4, <2>5
<1> QED
  BY <1>1, <1>4, <1>5, <1>6, <1>7, <1>8, <1>9 DEF Next

-----------------------------------------------------------------------------
(* The hits listed.                                                        *)

\* Each is of a row of its stream, and each row found has its hits.
LEMMA ListedAre ==
  ASSUME Listing
  PROVE  /\ DOMAIN listed = 1..Len(listed) /\ Len(listed) \in Nat
         /\ \A n \in DOMAIN listed :
              /\ listed[n] \in Hits /\ listed[n].source \in Streams
              /\ \E i \in DOMAIN found[listed[n].source] :
                   HitFor(listed[n], listed[n].source, found[listed[n].source][i].row,
                          found[listed[n].source][i].score, i - 1)
         /\ \A stream \in Streams : \A i \in DOMAIN found[stream] :
              \A key \in RowKeys(stream, found[stream][i].row) : \E n \in DOMAIN listed :
                /\ HitFor(listed[n], stream, found[stream][i].row, found[stream][i].score, i - 1)
                /\ Key(listed[n]) = key
         /\ \A stream \in Speech : \A i \in DOMAIN found[stream] :
              \A s \in Attributed(found[stream][i].row) : \E n \in DOMAIN listed :
                listed[n].source = stream /\ listed[n].scene = s
<1>1. DOMAIN listed = 1..Len(listed) /\ Len(listed) \in Nat
  BY SequenceParts DEF Listing
<1>2. \A stream \in Streams : found[stream] \in Seq(Rows(stream))
  BY AnswerParts DEF Listing, AnswerOf
<1>3. ASSUME NEW n \in DOMAIN listed
      PROVE  /\ listed[n] \in Hits /\ listed[n].source \in Streams
             /\ \E i \in DOMAIN found[listed[n].source] :
                  HitFor(listed[n], listed[n].source, found[listed[n].source][i].row,
                         found[listed[n].source][i].score, i - 1)
  <2>1. PICK stream \in Streams : \E i \in DOMAIN found[stream] :
          listed[n] \in RowHits(stream, found[stream], i)
    BY DEF Listing
  <2>2. PICK i \in DOMAIN found[stream] : listed[n] \in RowHits(stream, found[stream], i)
    BY <2>1
  <2>3. HitFor(listed[n], stream, found[stream][i].row, found[stream][i].score, i - 1)
    BY <1>2, <2>2, RowHitsAre
  <2>4. listed[n] \in Hits /\ listed[n].source = stream
    BY <2>3 DEF HitFor
  <2> QED
    BY <2>3, <2>4
<1>4. ASSUME NEW stream \in Streams, NEW i \in DOMAIN found[stream],
             NEW key \in RowKeys(stream, found[stream][i].row)
      PROVE  \E n \in DOMAIN listed :
               /\ HitFor(listed[n], stream, found[stream][i].row, found[stream][i].score, i - 1)
               /\ Key(listed[n]) = key
  <2>0. found[stream] \in Seq(Rows(stream))
    BY <1>2
  <2>1. \A k \in RowKeys(stream, found[stream][i].row) :
          \E h \in RowHits(stream, found[stream], i) : Key(h) = k
    BY <2>0, RowHitsAre
  <2>a. PICK h \in RowHits(stream, found[stream], i) : Key(h) = key
    BY <2>1
  <2>2. HitFor(h, stream, found[stream][i].row, found[stream][i].score, i - 1)
    BY <1>2, RowHitsAre
  <2>3. PICK n \in DOMAIN listed : listed[n] = h
    BY DEF Listing
  <2> QED
    BY <2>a, <2>2, <2>3
<1>5. ASSUME NEW stream \in Speech, NEW i \in DOMAIN found[stream],
             NEW s \in Attributed(found[stream][i].row)
      PROVE  \E n \in DOMAIN listed : listed[n].source = stream /\ listed[n].scene = s
  <2>0. stream \in Streams
    BY DEF Speech, Streams
  <2>a. found[stream] \in Seq(Rows(stream))
    BY <1>2, <2>0
  <2>b. \A r \in Attributed(found[stream][i].row) :
          \E h \in RowHits(stream, found[stream], i) : h.scene = r
    BY <2>0, <2>a, RowHitsAre
  <2>1. PICK h \in RowHits(stream, found[stream], i) : h.scene = s
    BY <2>b
  <2>2. HitFor(h, stream, found[stream][i].row, found[stream][i].score, i - 1)
    BY <1>2, <2>0, RowHitsAre
  <2>3. PICK n \in DOMAIN listed : listed[n] = h
    BY <2>0 DEF Listing
  <2> QED
    BY <2>1, <2>2, <2>3 DEF HitFor
<1> QED
  BY <1>1, <1>3, <1>4, <1>5

\* Of the places of the greatest values of f there is a first.
LEMMA FirstGreatest ==
  ASSUME NEW S \in SUBSET Int, IsFiniteSet(S), S # {}, NEW f, \A n \in S : f[n] \in Int
  PROVE  \E n \in S : \A m \in S : f[n] > f[m] \/ (f[n] = f[m] /\ n <= m)
<1> DEFINE R == {p \in S \X S : Outranks(f, [n \in S |-> n], p[1], p[2])}
<1>1. \A a, b \in S : <<a, b>> \in R <=> (f[a] > f[b] \/ (f[a] = f[b] /\ a < b))
  BY DEF Outranks
<1>2. S # {} /\ \A n \in S : n \in Int
  OBVIOUS
<1> HIDE DEF R
<1>3. Orders(R, S)
  <2>1. \A a, b \in S : a # b => <<a, b>> \in R \/ <<b, a>> \in R
    BY <1>1, <1>2
  <2>2. \A a \in S : <<a, a>> \notin R
    BY <1>1, <1>2
  <2>3. \A a, b, c \in S : <<a, b>> \in R /\ <<b, c>> \in R => <<a, c>> \in R
    BY <1>1, <1>2
  <2> QED
    BY <2>1, <2>2, <2>3 DEF Orders
<1>4. PICK a \in S : \A b \in S : a = b \/ <<a, b>> \in R
  BY <1>3, OrderedFirst
<1>5. ASSUME NEW b \in S
      PROVE  f[a] > f[b] \/ (f[a] = f[b] /\ a <= b)
  <2>1. a \in Int /\ b \in Int
    OBVIOUS
  <2>2. CASE a = b
    BY <2>1, <2>2
  <2>3. CASE <<a, b>> \in R
    BY <1>1, <2>1, <2>3
  <2> QED
    BY <1>4, <2>2, <2>3
<1> QED
  BY <1>5

\* The image of a finite set is finite.
LEMMA ImageFinite ==
  ASSUME NEW S, IsFiniteSet(S), NEW f
  PROVE  IsFiniteSet({f[x] : x \in S}) /\ Cardinality({f[x] : x \in S}) <= Cardinality(S)
<1> DEFINE T == {f[x] : x \in S}
           g == [x \in S |-> f[x]]
<1>1. g \in Surjection(S, T)
  BY DEF Surjection
<1> QED
  BY <1>1, FS_Surjection

\* The best score of a stream is 0 or that of a row of it.
LEMMA TopScoreIs ==
  ASSUME Listing, NEW stream \in Streams
  PROVE  /\ TopScore(stream) \in Nat
         /\ \A i \in DOMAIN found[stream] : TopScore(stream) >= found[stream][i].score
         /\ TopScore(stream) # 0 => TopScore(stream) \in FtsScores \cup VecScores
<1> DEFINE a == found[stream]
           score == [i \in DOMAIN a |-> a[i].score]
           scores == {score[i] : i \in DOMAIN a}
<1>1. AnswerOf(a, stream)
  BY AnswerParts DEF Listing
<1>2. /\ DOMAIN a = 1..Len(a) /\ Len(a) \in Nat
      /\ \A i \in DOMAIN a : a[i].score \in Int /\ a[i].score \in FtsScores \cup VecScores
  BY <1>1, SequenceParts, ScoresAre DEF AnswerOf
<1>3. IsFiniteSet(scores)
  <2> HIDE DEF score
  <2>1. IsFiniteSet(DOMAIN a)
    BY <1>2, FS_Interval
  <2> QED
    BY <2>1, ImageFinite
<1>4. IsFiniteSet({0} \cup scores)
  <2>1. IsFiniteSet({0})
    BY FS_Singleton
  <2> QED
    BY <1>3, <2>1, FS_Union
<1>5. {0} \cup scores \in SUBSET Int /\ {0} \cup scores # {}
  <2>1. \A x \in scores : x \in Int
    BY <1>2
  <2> HIDE DEF scores
  <2> QED
    BY <2>1
<1>6. /\ TopScore(stream) \in {0} \cup scores
      /\ \A b \in {0} \cup scores : TopScore(stream) >= b
  <2> HIDE DEF scores
  <2>1. Max({0} \cup scores) \in {0} \cup scores /\ \A b \in {0} \cup scores : Max({0} \cup scores) >= b
    BY <1>4, <1>5, MaxOf
  <2> QED
    BY <2>1 DEF TopScore, scores, score
<1>7. TopScore(stream) \in Int /\ TopScore(stream) >= 0
  BY <1>5, <1>6
<1>8. \A x \in scores : x \in FtsScores \cup VecScores
  BY <1>2
<1>9. \A i \in DOMAIN a : TopScore(stream) >= a[i].score
  BY <1>6
<1> HIDE DEF scores
<1>10. TopScore(stream) # 0 => TopScore(stream) \in FtsScores \cup VecScores
  BY <1>6, <1>8
<1> QED
  BY <1>7, <1>9, <1>10

LEMMA ProductPositive ==
  ASSUME NEW a \in Nat \ {0}, NEW b \in Nat \ {0}
  PROVE  a * b \in Nat \ {0}
  OBVIOUS

LEMMA PositivePart ==
  ASSUME NEW a \in Int
  PROVE  Max({a, 0}) = IF a > 0 THEN a ELSE 0
  BY DEF Max

LEMMA QuotientIs ==
  ASSUME NEW a \in Nat, NEW d \in Nat \ {0}
  PROVE  a \div d \in Nat
  OBVIOUS

\* What a hit contributes is a number.
LEMMA ContributionIs ==
  ASSUME Listing, NEW n \in DOMAIN listed
  PROVE  Contribution(listed[n]) \in Nat
<1> DEFINE h == listed[n]
           top == TopScore(h.source)
           d == RrfK + h.rank + 1
<1>1. h.rank \in Nat /\ h.score \in Int /\ h.source \in Streams
  BY ListedAre DEF Hits
<1>2. d \in Nat \ {0}
  BY <1>1 DEF RrfK
<1>3. top \in Nat
  BY <1>1, TopScoreIs
<1>4. Max({h.score, 0}) \in Nat
  BY <1>1, PositivePart
<1>5. Unit \in Nat
  BY SearchAssumption
<1>6. Contribution(h) = IF top > 0 THEN (Unit \div (top * d)) * Max({h.score, 0}) ELSE Unit \div d
  BY DEF Contribution
<1> HIDE DEF h, top, d
<1>7. CASE top > 0
  <2>1. top * d \in Nat \ {0}
    BY <1>2, <1>3, <1>7, ProductPositive
  <2>2. Unit \div (top * d) \in Nat
    BY <1>5, <2>1, QuotientIs
  <2>3. (Unit \div (top * d)) * Max({h.score, 0}) \in Nat
    BY <1>4, <2>2
  <2> QED
    BY <1>6, <1>7, <2>3 DEF h
<1>8. CASE ~(top > 0)
  <2>1. Unit \div d \in Nat
    BY <1>2, <1>5, QuotientIs
  <2> QED
    BY <1>6, <1>8, <2>1 DEF h
<1> QED
  BY <1>7, <1>8

\* The best of some hits is one of them, and none contributes more.
LEMMA BestIs ==
  ASSUME Listing, NEW ns \in SUBSET DOMAIN listed, ns # {}
  PROVE  /\ Best(ns) \in ns
         /\ \A m \in ns : Contribution(listed[Best(ns)]) >= Contribution(listed[m])
<1> DEFINE f == [n \in ns |-> Contribution(listed[n])]
<1>1. DOMAIN listed = 1..Len(listed) /\ Len(listed) \in Nat
  BY ListedAre
<1>2. IsFiniteSet(ns) /\ ns \in SUBSET Int
  BY <1>1, PlacesFinite
<1>3. \A n \in ns : f[n] = Contribution(listed[n]) /\ f[n] \in Int
  BY ContributionIs
<1> HIDE DEF f
<1>4. PICK n \in ns : \A m \in ns : f[n] > f[m] \/ (f[n] = f[m] /\ n <= m)
  BY <1>2, <1>3, FirstGreatest
<1>5. \A m \in ns : \/ Contribution(listed[n]) > Contribution(listed[m])
                    \/ Contribution(listed[n]) = Contribution(listed[m]) /\ n <= m
  BY <1>3, <1>4
<1>6. /\ Best(ns) \in ns
      /\ \A m \in ns : \/ Contribution(listed[Best(ns)]) > Contribution(listed[m])
                       \/ Contribution(listed[Best(ns)]) = Contribution(listed[m]) /\ Best(ns) <= m
  BY <1>5 DEF Best
<1>7. \A n1 \in ns : Contribution(listed[n1]) \in Int
  BY <1>3
<1> QED
  BY <1>6, <1>7

LEMMA HighestIs ==
  ASSUME Listing, NEW ns \in SUBSET DOMAIN listed, ns # {}
  PROVE  /\ Highest(ns) \in ns
         /\ \A m \in ns : listed[Highest(ns)].score >= listed[m].score
<1> DEFINE f == [n \in ns |-> listed[n].score]
<1>1. DOMAIN listed = 1..Len(listed) /\ Len(listed) \in Nat
  BY ListedAre
<1>2. IsFiniteSet(ns) /\ ns \in SUBSET Int
  BY <1>1, PlacesFinite
<1>3. \A n \in ns : f[n] = listed[n].score /\ f[n] \in Int
  <2>1. \A n \in ns : listed[n] \in Hits
    BY ListedAre
  <2>2. \A n \in ns : listed[n].score \in Int
    BY <2>1 DEF Hits
  <2> QED
    BY <2>2
<1> HIDE DEF f
<1>4. PICK n \in ns : \A m \in ns : f[n] > f[m] \/ (f[n] = f[m] /\ n <= m)
  BY <1>2, <1>3, FirstGreatest
<1>5. \A m \in ns : \/ listed[n].score > listed[m].score
                    \/ listed[n].score = listed[m].score /\ n <= m
  BY <1>3, <1>4
<1>6. /\ Highest(ns) \in ns
      /\ \A m \in ns : \/ listed[Highest(ns)].score > listed[m].score
                       \/ listed[Highest(ns)].score = listed[m].score /\ Highest(ns) <= m
  BY <1>5 DEF Highest
<1>7. \A n1 \in ns : listed[n1].score \in Int
  BY <1>3
<1> QED
  BY <1>6, <1>7

-----------------------------------------------------------------------------
(* The answer of hybrid.                                                   *)

\* Every key has a hit, and every hit a key.
LEMMA KeysAre ==
  ASSUME Listing
  PROVE  /\ IsFiniteSet(Keys)
         /\ \A key \in Keys : At(key) \in SUBSET DOMAIN listed /\ At(key) # {}
         /\ \A key \in Keys : \A n \in At(key) : Key(listed[n]) = key
         /\ \A n \in DOMAIN listed : Key(listed[n]) \in Keys
         /\ \A key \in Keys : Min(At(key)) \in At(key)
<1>1. DOMAIN listed = 1..Len(listed) /\ Len(listed) \in Nat
  BY ListedAre
<1>2. IsFiniteSet(Keys)
  <2> DEFINE key == [n \in DOMAIN listed |-> Key(listed[n])]
  <2>1. Keys = {key[n] : n \in DOMAIN listed}
    BY DEF Keys
  <2> HIDE DEF key
  <2>2. IsFiniteSet(DOMAIN listed)
    BY <1>1, FS_Interval
  <2> QED
    BY <2>1, <2>2, ImageFinite
<1>3. \A key \in Keys : At(key) \in SUBSET DOMAIN listed /\ At(key) # {}
  BY DEF Keys, At
<1>4. \A key \in Keys : Min(At(key)) \in At(key)
  <2> SUFFICES ASSUME NEW key \in Keys
               PROVE  Min(At(key)) \in At(key)
    OBVIOUS
  <2>1. IsFiniteSet(At(key)) /\ At(key) \in SUBSET Int
    BY <1>1, <1>3, PlacesFinite
  <2> QED
    BY <1>3, <2>1, MinOf
<1> QED
  BY <1>2, <1>3, <1>4 DEF Keys, At

LEMMA FirstInIs ==
  ASSUME Listing, NEW stream, NEW key \in Keys
  PROVE  FirstIn(stream, key) \in Nat
<1> DEFINE mine == {n \in At(key) : listed[n].source = stream}
<1>1. DOMAIN listed = 1..Len(listed) /\ Len(listed) \in Nat
  BY ListedAre
<1>2. mine \in SUBSET DOMAIN listed
  BY KeysAre
<1>3. IsFiniteSet(mine) /\ mine \in SUBSET Int
  BY <1>1, <1>2, PlacesFinite
<1>4. CASE mine = {}
  BY <1>4 DEF FirstIn
<1>5. CASE mine # {}
  <2>1. Min(mine) \in mine
    BY <1>3, <1>5, MinOf
  <2>2. Contribution(listed[Min(mine)]) \in Nat
    BY <1>2, <2>1, ContributionIs
  <2> QED
    BY <1>5, <2>2 DEF FirstIn
<1> QED
  BY <1>4, <1>5

LEMMA FusedIs ==
  ASSUME Listing, NEW key \in Keys
  PROVE  Fused(key) \in Nat
<1> DEFINE f == [stream \in Streams |-> FirstIn(stream, key)]
<1>1. \A stream \in Streams : f[stream] \in Nat
  BY FirstInIs
<1>2. Fused(key) = Total(f)
  BY DEF Fused
<1> HIDE DEF f
<1> QED
  BY <1>1, <1>2 DEF Total, Streams

\* What is known of the hit made for a key.
HybridFor(h, key) ==
  /\ h \in Hits /\ h.source \in Streams /\ Key(h) = key /\ h.score = Fused(key)
  /\ h.scene # 0 => h.start = Scene[h.scene].start /\ h.end = Scene[h.scene].end
  /\ \E n \in At(key) :
       /\ h.source = listed[n].source
       /\ IF WithSnippet(key) = {} THEN h.snippet = "visual match"
          ELSE h.snippet = listed[n].snippet

\* A hit with the frame and the score of its key, the times of its scene, and text.
Made(r, score, frame) == Visual(SceneTimed([r EXCEPT !.score = score, !.frame = frame]))

MadeOf(h, r, score, frame) ==
  /\ h \in Hits /\ h.source = r.source /\ Key(h) = Key(r) /\ h.score = score
  /\ h.frame = frame /\ h.scene = r.scene /\ h.item = r.item
  /\ h.scene # 0 => h.start = Scene[h.scene].start /\ h.end = Scene[h.scene].end
  /\ h.snippet = IF r.snippet = "" THEN "visual match" ELSE r.snippet

LEMMA MadeHit ==
  ASSUME NEW r \in Hits, NEW score \in Int, NEW frame \in FrameIds,
         NEW h, h = Made(r, score, frame)
  PROVE  MadeOf(h, r, score, frame)
<1>1. /\ r.scene \in SceneIds /\ r.item \in ItemIds /\ r.asset \in Assets /\ r.start \in Nat
      /\ r.end \in Nat /\ r.rank \in Nat /\ r.source \in Streams \cup {"graph"} /\ r.snippet \in Texts
      /\ r.frame \in FrameIds /\ r.score \in Int
  BY DEF Hits
<1>2. PICK asset \in Assets, start \in Nat, end \in Nat :
        /\ asset = IF r.scene = 0 THEN r.asset ELSE Scene[r.scene].asset
        /\ start = IF r.scene = 0 THEN r.start ELSE Scene[r.scene].start
        /\ end = IF r.scene = 0 THEN r.end ELSE Scene[r.scene].end
  BY <1>1, SceneParts DEF SceneIds
<1>3. PICK text \in Texts : text = IF r.snippet = "" THEN "visual match" ELSE r.snippet
  BY <1>1 DEF Texts
<1>4. PICK s : s = r.scene
  OBVIOUS
<1>5. r = HitOf(s, r.frame, r.item, r.asset, r.start, r.end, r.score, r.rank, r.source, r.snippet)
  BY <1>4 DEF Hits, HitOf
<1>6. h = HitOf(s, frame, r.item, asset, start, end, score, r.rank, r.source, text)
  BY <1>2, <1>3, <1>4, <1>5 DEF Made, Visual, SceneTimed, HitOf
<1>7. /\ h.scene = s /\ h.frame = frame /\ h.item = r.item /\ h.asset = asset /\ h.start = start
      /\ h.end = end /\ h.score = score /\ h.source = r.source /\ h.snippet = text
  BY <1>6 DEF HitOf
<1>8. h \in Hits
  BY <1>1, <1>4, <1>6 DEF HitOf, Hits
<1>9. Key(h) = Key(r)
  BY <1>4, <1>7 DEF Key
<1> QED
  BY <1>2, <1>3, <1>4, <1>7, <1>8, <1>9 DEF MadeOf

LEMMA HybridHitIs ==
  ASSUME Listing, NEW key \in Keys, NEW h, h = HybridHit(key)
  PROVE  HybridFor(h, key)
<1> DEFINE ns == IF WithSnippet(key) # {} THEN WithSnippet(key) ELSE At(key)
           framed == {n \in At(key) : listed[n].frame # 0}
<1>1. At(key) \in SUBSET DOMAIN listed /\ At(key) # {} /\ \A n \in At(key) : Key(listed[n]) = key
  BY KeysAre
<1>2. ns \in SUBSET At(key) /\ ns # {}
  BY <1>1 DEF WithSnippet
<1>3. \A n \in DOMAIN listed : listed[n] \in Hits /\ listed[n].source \in Streams
  BY ListedAre
<1> HIDE DEF ns
<1>4. PICK b \in At(key) : b = Best(ns) /\ b \in ns
  BY <1>1, <1>2, BestIs
<1>5. PICK r \in Hits : r = Representative(key) /\ r = listed[b]
  BY <1>1, <1>3, <1>4 DEF Representative, ns
<1>6. FrameFor(key) \in FrameIds
  <2>1. CASE framed = {}
    BY <2>1 DEF FrameFor, FrameIds
  <2>2. CASE framed # {}
    <3>1. framed \in SUBSET DOMAIN listed
      BY <1>1
    <3>2. Best(framed) \in DOMAIN listed
      BY <2>2, <3>1, BestIs
    <3>3. listed[Best(framed)].frame \in FrameIds
      BY <1>3, <3>2 DEF Hits
    <3> QED
      BY <2>2, <3>3 DEF FrameFor
  <2> QED
    BY <2>1, <2>2
<1>7. Fused(key) \in Int
  BY FusedIs
<1>a. PICK x \in Int, f \in FrameIds : x = Fused(key) /\ f = FrameFor(key)
  BY <1>6, <1>7
<1>8. h = Made(r, x, f)
  BY <1>5, <1>a DEF HybridHit, Made
<1>b. MadeOf(h, r, x, f)
  BY <1>8, MadeHit
<1>9. /\ h \in Hits /\ h.source = r.source /\ Key(h) = Key(r) /\ h.score = Fused(key)
      /\ h.scene # 0 => h.start = Scene[h.scene].start /\ h.end = Scene[h.scene].end
      /\ h.snippet = IF r.snippet = "" THEN "visual match" ELSE r.snippet
  BY <1>a, <1>b DEF MadeOf
<1>10. WithSnippet(key) = {} => r.snippet = ""
  BY <1>4, <1>5 DEF WithSnippet
<1>11. WithSnippet(key) # {} => r.snippet # ""
  BY <1>4, <1>5 DEF WithSnippet, ns
<1>12. h.source \in Streams /\ Key(h) = key
  BY <1>1, <1>3, <1>4, <1>5, <1>9
<1>13. IF WithSnippet(key) = {} THEN h.snippet = "visual match" ELSE h.snippet = listed[b].snippet
  BY <1>5, <1>9, <1>10, <1>11
<1> QED
  BY <1>4, <1>5, <1>9, <1>12, <1>13 DEF HybridFor

\* The keys in order, and the answer made of the first of them.
LEMMA KeyOrderIs ==
  ASSUME Listing
  PROVE  /\ DOMAIN KeyOrder = 1..Cardinality(Keys) /\ Cardinality(Keys) \in Nat
         /\ \A i \in 1..Cardinality(Keys) : KeyOrder[i] \in Keys
         /\ \A key \in Keys : \E i \in 1..Cardinality(Keys) : KeyOrder[i] = key
         /\ \A i, k \in 1..Cardinality(Keys) :
              i < k => KeyOrder[i] # KeyOrder[k] /\ Fused(KeyOrder[i]) >= Fused(KeyOrder[k])
         /\ KeyOrder \in Seq(Keys) /\ Len(KeyOrder) = Cardinality(Keys)
<1> DEFINE score == [key \in Keys |-> Fused(key)]
           place == [key \in Keys |-> Min(At(key))]
           N == Cardinality(Keys)
<1>1. IsFiniteSet(Keys) /\ DOMAIN listed = 1..Len(listed) /\ Len(listed) \in Nat
  BY KeysAre, ListedAre
<1>2. \A key \in Keys : score[key] = Fused(key) /\ score[key] \in Int
  BY FusedIs
<1>3. \A key \in Keys : place[key] \in At(key) /\ place[key] \in Int
  BY <1>1, KeysAre
<1>4. \A a, b \in Keys : place[a] = place[b] => a = b
  BY <1>3, KeysAre
<1>5. KeyOrder = ByScore(Keys, score, place)
  BY DEF KeyOrder
<1> HIDE DEF score, place
<1>6. /\ DOMAIN KeyOrder = 1..N /\ N \in Nat
      /\ \A i \in 1..N : KeyOrder[i] \in Keys
      /\ \A a \in Keys : \E i \in 1..N : KeyOrder[i] = a
      /\ \A i, k \in 1..N : i < k => /\ KeyOrder[i] # KeyOrder[k]
                                     /\ score[KeyOrder[i]] >= score[KeyOrder[k]]
  BY <1>1, <1>2, <1>3, <1>4, <1>5, ByScoreEnumerates
<1>7. KeyOrder = [i \in 1..N |-> KeyOrder[i]]
  BY <1>5, <1>6, ByScoreIsFunction
<1> HIDE DEF N
<1>8. KeyOrder \in [1..N -> Keys]
  BY <1>6, <1>7
<1>9. KeyOrder \in Seq(Keys) /\ Len(KeyOrder) = N
  BY <1>6, <1>8, IsSequence
<1>10. \A i, k \in 1..N : i < k => KeyOrder[i] # KeyOrder[k] /\ Fused(KeyOrder[i]) >= Fused(KeyOrder[k])
  BY <1>2, <1>6
<1> QED
  BY <1>6, <1>9, <1>10 DEF N

LEMMA HybridIs ==
  ASSUME Listing, Request
  PROVE  /\ Hybrid \in Seq(Hits) /\ DOMAIN Hybrid = 1..Len(Hybrid)
         /\ Len(Hybrid) = Min({topK, Cardinality(Keys)}) /\ Len(Hybrid) \in Nat /\ Len(Hybrid) <= topK
         /\ \A i \in DOMAIN Hybrid : i \in 1..Cardinality(Keys) /\ HybridFor(Hybrid[i], KeyOrder[i])
         /\ Len(Hybrid) < topK => Len(Hybrid) = Cardinality(Keys)
<1> DEFINE N == Cardinality(Keys)
           M == Min({topK, N})
<1>1. topK \in Nat
  BY SearchAssumption DEF Request
<1>2. N \in Nat /\ KeyOrder \in Seq(Keys) /\ Len(KeyOrder) = N /\ \A i \in 1..N : KeyOrder[i] \in Keys
  BY KeyOrderIs
<1>3. PICK top : top = First(topK, KeyOrder)
  OBVIOUS
<1>4. M = (IF topK <= N THEN topK ELSE N) /\ M \in Nat /\ M <= topK /\ M <= N
  BY <1>1, <1>2, MinIs
<1>5. top \in Seq(Keys) /\ Len(top) = M /\ \A i \in 1..Len(top) : top[i] = KeyOrder[i]
  BY <1>1, <1>2, <1>3, <1>4, FirstParts
<1> HIDE DEF M, N
<1>6. DOMAIN top = 1..M /\ \A i \in 1..M : i \in 1..N
  BY <1>2, <1>4, <1>5, SequenceParts
<1>7. Hybrid = [i \in 1..M |-> HybridHit(KeyOrder[i])]
  BY <1>3, <1>5, <1>6 DEF Hybrid
<1>8. \A i \in 1..M : HybridFor(Hybrid[i], KeyOrder[i])
  <2> SUFFICES ASSUME NEW i \in 1..M
               PROVE  HybridFor(Hybrid[i], KeyOrder[i])
    OBVIOUS
  <2>1. Hybrid[i] = HybridHit(KeyOrder[i]) /\ KeyOrder[i] \in Keys
    BY <1>2, <1>6, <1>7
  <2> QED
    BY <2>1, HybridHitIs
<1>9. Hybrid \in [1..M -> Hits]
  BY <1>7, <1>8 DEF HybridFor
<1>10. Hybrid \in Seq(Hits) /\ Len(Hybrid) = M /\ DOMAIN Hybrid = 1..M
  BY <1>4, <1>9, IsSequence
<1>11. M < topK => M = N
  BY <1>1, <1>2, <1>4
<1> QED
  BY <1>4, <1>6, <1>8, <1>10, <1>11 DEF M, N

-----------------------------------------------------------------------------
(* The answers of vector and fts.                                          *)

\* A hit of SceneStreams is for a scene, but for the speech of an asset without any.
LEMMA SceneStreamsAre ==
  ASSUME Listing
  PROVE  /\ SceneStreams \in SUBSET DOMAIN listed
         /\ ListedScenes \in SUBSET SceneIds /\ IsFiniteSet(ListedScenes)
         /\ \A s \in ListedScenes :
              /\ AtScene(s) \in SUBSET SceneStreams /\ AtScene(s) # {}
              /\ Min(AtScene(s)) \in AtScene(s)
              /\ \A n \in AtScene(s) : listed[n].scene = s
         /\ \A n \in SceneStreams : listed[n].scene \in ListedScenes
         /\ ~SceneLess => 0 \notin ListedScenes
<1>1. DOMAIN listed = 1..Len(listed) /\ Len(listed) \in Nat /\ SceneStreams \in SUBSET DOMAIN listed
  BY ListedAre DEF SceneStreams
<1>2. \A n \in SceneStreams : listed[n].scene \in SceneIds
  <2>1. \A n \in SceneStreams : listed[n] \in Hits
    BY <1>1, ListedAre
  <2> QED
    BY <2>1 DEF Hits
<1>3. ListedScenes \in SUBSET SceneIds
  BY <1>2 DEF ListedScenes
<1>4. IsFiniteSet(ListedScenes)
  BY <1>3, ScenesFinite
<1>5. \A s \in ListedScenes : /\ AtScene(s) \in SUBSET SceneStreams /\ AtScene(s) # {}
                              /\ \A n \in AtScene(s) : listed[n].scene = s
  BY DEF ListedScenes, AtScene
<1>6. ASSUME NEW s \in ListedScenes
      PROVE  Min(AtScene(s)) \in AtScene(s)
  <2>1. AtScene(s) \in SUBSET (1..Len(listed)) /\ AtScene(s) # {}
    BY <1>1, <1>5
  <2>2. IsFiniteSet(AtScene(s)) /\ AtScene(s) \in SUBSET Int
    BY <1>1, <2>1, PlacesFinite
  <2> QED
    BY <2>1, <2>2, MinOf
<1>7. ASSUME ~SceneLess, NEW n \in SceneStreams
      PROVE  listed[n].scene # 0
  <2>1. PICK stream \in Streams : stream = listed[n].source /\ stream # "content_items"
    BY <1>1, ListedAre DEF SceneStreams
  <2>2. PICK i \in DOMAIN found[stream] :
          HitFor(listed[n], stream, found[stream][i].row, found[stream][i].score, i - 1)
    BY <1>1, <2>1, ListedAre
  <2>3. CASE stream \notin Speech
    BY <2>1, <2>2, <2>3 DEF HitFor
  <2>4. CASE stream \in Speech
    <3>1. AnswerOf(found[stream], stream)
      BY <2>1, AnswerParts DEF Listing
    <3>2. found[stream][i] \in Rows(stream)
      BY <3>1, SequenceParts DEF AnswerOf
    <3>3. PICK g \in DOMAIN Segment : g = found[stream][i].row
      BY <2>4, <3>2 DEF Rows, RowsOf, Speech
    <3>4. ScenesOf(Segment[g].asset) # {}
      BY <1>7, <2>4, <3>3 DEF SceneLess, Speech
    <3>5. listed[n].scene \in Attributed(g)
      BY <2>2, <2>4, <3>3 DEF HitFor
    <3>6. listed[n].scene \in DOMAIN Scene
      BY <3>4, <3>5, AttributedScenes DEF ScenesOf
    <3> QED
      BY <3>6, SceneParts
  <2> QED
    BY <2>3, <2>4
<1>8. ~SceneLess => 0 \notin ListedScenes
  BY <1>7 DEF ListedScenes
<1>9. \A n \in SceneStreams : listed[n].scene \in ListedScenes
  BY DEF ListedScenes
<1> QED
  BY <1>1, <1>3, <1>4, <1>5, <1>6, <1>8, <1>9

LEMMA ChosenIs ==
  ASSUME Listing, NEW ns \in SUBSET DOMAIN listed, ns # {}
  PROVE  Chosen(ns) \in ns
<1> DEFINE speech == {n \in ns : listed[n].source = "fts_transcript"}
<1>1. CASE speech # {}
  <2>1. Highest(speech) \in speech
    BY <1>1, HighestIs
  <2> QED
    BY <1>1, <2>1 DEF Chosen
<1>2. CASE speech = {}
  <2>1. Highest(ns) \in ns
    BY HighestIs
  <2> QED
    BY <1>2, <2>1 DEF Chosen
<1> QED
  BY <1>1, <1>2

\* The hit for a scene is one of those listed for it.
LEMMA SceneHitIs ==
  ASSUME Listing, NEW s \in ListedScenes
  PROVE  /\ Chosen(AtScene(s)) \in SceneStreams
         /\ listed[Chosen(AtScene(s))] \in Hits
         /\ listed[Chosen(AtScene(s))].scene = s
<1>1. /\ AtScene(s) \in SUBSET DOMAIN listed /\ AtScene(s) # {}
      /\ AtScene(s) \in SUBSET SceneStreams /\ \A n \in AtScene(s) : listed[n].scene = s
  BY SceneStreamsAre
<1>2. Chosen(AtScene(s)) \in AtScene(s)
  BY <1>1, ChosenIs
<1> QED
  BY <1>1, <1>2, ListedAre

SceneScore(s) == listed[Chosen(AtScene(s))].score

LEMMA SceneOrderIs ==
  ASSUME Listing
  PROVE  /\ SceneOrder \in Seq(ListedScenes)
         /\ \A s \in ListedScenes : \E i \in DOMAIN SceneOrder : SceneOrder[i] = s
         /\ \A i, k \in DOMAIN SceneOrder : i < k =>
              /\ SceneOrder[i] # SceneOrder[k]
              /\ SceneScore(SceneOrder[i]) >= SceneScore(SceneOrder[k])
<1> DEFINE score == [s \in ListedScenes |-> listed[Chosen(AtScene(s))].score]
           place == [s \in ListedScenes |-> Min(AtScene(s))]
           N == Cardinality(ListedScenes)
<1>1. IsFiniteSet(ListedScenes) /\ DOMAIN listed = 1..Len(listed) /\ Len(listed) \in Nat
  BY SceneStreamsAre, ListedAre
<1>2. \A s \in ListedScenes : score[s] = SceneScore(s) /\ score[s] \in Int
  <2>1. \A s \in ListedScenes : listed[Chosen(AtScene(s))] \in Hits
    BY SceneHitIs
  <2>2. \A h \in Hits : h.score \in Int
    BY DEF Hits
  <2> QED
    BY <2>1, <2>2 DEF SceneScore
<1>3. \A s \in ListedScenes : place[s] \in AtScene(s) /\ place[s] \in Int
  BY <1>1, SceneStreamsAre
<1>4. \A a, b \in ListedScenes : place[a] = place[b] => a = b
  BY <1>3, SceneStreamsAre
<1>5. SceneOrder = ByScore(ListedScenes, score, place)
  BY DEF SceneOrder
<1> HIDE DEF score, place
<1>6. /\ DOMAIN SceneOrder = 1..N /\ N \in Nat
      /\ \A i \in 1..N : SceneOrder[i] \in ListedScenes
      /\ \A a \in ListedScenes : \E i \in 1..N : SceneOrder[i] = a
      /\ \A i, k \in 1..N : i < k => /\ SceneOrder[i] # SceneOrder[k]
                                     /\ score[SceneOrder[i]] >= score[SceneOrder[k]]
  BY <1>1, <1>2, <1>3, <1>4, <1>5, ByScoreEnumerates
<1>7. SceneOrder = [i \in 1..N |-> SceneOrder[i]]
  BY <1>5, <1>6, ByScoreIsFunction
<1> HIDE DEF N
<1>8. SceneOrder \in [1..N -> ListedScenes]
  BY <1>6, <1>7
<1>9. SceneOrder \in Seq(ListedScenes)
  BY <1>6, <1>8, IsSequence
<1>10. \A i, k \in 1..N : i < k => /\ SceneOrder[i] # SceneOrder[k]
                                /\ SceneScore(SceneOrder[i]) >= SceneScore(SceneOrder[k])
  BY <1>2, <1>6
<1> QED
  BY <1>6, <1>9, <1>10

\* One hit for each scene listed, as far as there is room.
LEMMA FlatIs ==
  ASSUME Listing, Request
  PROVE  /\ Flat \in Seq(Hits) /\ DOMAIN Flat = 1..Len(Flat) /\ Len(Flat) \in Nat
         /\ Len(Flat) <= topK
         /\ \A i \in DOMAIN Flat : \E n \in SceneStreams : Flat[i] = listed[n] /\ Flat[i].scene # 0
         /\ Len(Flat) < topK /\ 0 \notin ListedScenes =>
              \A s \in ListedScenes : \E i \in DOMAIN Flat : Flat[i].scene = s
         /\ 0 \notin ListedScenes =>
              /\ Len(Flat) = IF topK <= Len(SceneOrder) THEN topK ELSE Len(SceneOrder)
              /\ \A i \in DOMAIN Flat : Flat[i] = listed[Chosen(AtScene(SceneOrder[i]))]
<1>1. topK \in Nat
  BY SearchAssumption DEF Request
<1>2. PICK first : first = First(topK, SceneOrder)
  OBVIOUS
<1>3. /\ first \in Seq(ListedScenes) /\ Len(first) = (IF topK <= Len(SceneOrder) THEN topK ELSE Len(SceneOrder))
      /\ \A i \in 1..Len(first) : first[i] = SceneOrder[i]
  BY <1>1, <1>2, SceneOrderIs, FirstParts
<1>4. PICK I : I = {i \in DOMAIN first : first[i] # 0}
  OBVIOUS
<1>5. DOMAIN first = 1..Len(first) /\ Len(first) \in Nat /\ Len(first) <= topK /\ I \in SUBSET (1..Len(first))
  <2>1. DOMAIN SceneOrder = 1..Len(SceneOrder) /\ Len(SceneOrder) \in Nat
    BY SceneOrderIs, SequenceParts
  <2> QED
    BY <1>1, <1>3, <1>4, <2>1, SequenceParts
<1>6. PICK top : top = Places(first, I)
  OBVIOUS
<1>7. /\ top \in Seq(ListedScenes) /\ Len(top) <= Len(first)
      /\ \A k \in 1..Len(top) : \E i \in I : top[k] = first[i]
  BY <1>3, <1>5, <1>6, PlacesParts
<1>8. DOMAIN top = 1..Len(top) /\ Len(top) \in Nat /\ \A k \in DOMAIN top : top[k] \in ListedScenes
  BY <1>7, SequenceParts
<1>9. \A k \in 1..Len(top) : top[k] # 0
  BY <1>4, <1>7
<1>10. Flat = [i \in 1..Len(top) |-> listed[Chosen(AtScene(top[i]))]]
  BY <1>2, <1>4, <1>6, <1>8 DEF Flat
<1>11. ASSUME NEW i \in 1..Len(top)
       PROVE  /\ Flat[i] \in Hits /\ Flat[i].scene = top[i] /\ Flat[i].scene # 0
              /\ \E n \in SceneStreams : Flat[i] = listed[n]
  <2>1. top[i] \in ListedScenes /\ top[i] # 0 /\ Flat[i] = listed[Chosen(AtScene(top[i]))]
    BY <1>8, <1>9, <1>10
  <2> QED
    BY <2>1, SceneHitIs
<1>12. Flat \in [1..Len(top) -> Hits]
  BY <1>10, <1>11
<1>13. Flat \in Seq(Hits) /\ Len(Flat) = Len(top) /\ DOMAIN Flat = 1..Len(top)
  BY <1>8, <1>12, IsSequence
<1>a. ASSUME 0 \notin ListedScenes
      PROVE  /\ Len(Flat) = IF topK <= Len(SceneOrder) THEN topK ELSE Len(SceneOrder)
             /\ \A i \in DOMAIN Flat : Flat[i] = listed[Chosen(AtScene(SceneOrder[i]))]
  <2>1. \A i \in DOMAIN first : first[i] \in ListedScenes
    BY <1>3, SequenceParts
  <2>2. I = 1..Len(first)
    BY <1>4, <1>5, <1>a, <2>1
  <2>3. Len(top) = Len(first) /\ \A k \in 1..Len(first) : top[k] = first[k]
    BY <1>3, <1>5, <1>6, <2>2, PlacesOfFirst
  <2>4. \A i \in 1..Len(top) : Flat[i] = listed[Chosen(AtScene(top[i]))]
    BY <1>10
  <2>5. \A i \in DOMAIN Flat : i \in 1..Len(first) /\ top[i] = SceneOrder[i]
    BY <1>3, <1>13, <2>3
  <2> QED
    BY <1>3, <1>13, <2>3, <2>4, <2>5
<1>14. ASSUME Len(Flat) < topK, 0 \notin ListedScenes, NEW s \in ListedScenes
       PROVE  \E i \in DOMAIN Flat : Flat[i].scene = s
  <2>1. DOMAIN SceneOrder = 1..Len(SceneOrder) /\ Len(SceneOrder) \in Nat
    BY SceneOrderIs, SequenceParts
  <2>2. Len(Flat) = IF topK <= Len(SceneOrder) THEN topK ELSE Len(SceneOrder)
    BY <1>a, <1>14
  <2>3. Len(Flat) = Len(SceneOrder)
    <3>1. CASE topK <= Len(SceneOrder)
      BY <1>1, <1>14, <2>2, <3>1
    <3> QED
      BY <2>2, <3>1
  <2>4. PICK i \in DOMAIN SceneOrder : SceneOrder[i] = s
    BY SceneOrderIs
  <2>5. i \in DOMAIN Flat
    BY <1>8, <1>13, <2>1, <2>3, <2>4
  <2>6. Flat[i] = listed[Chosen(AtScene(s))]
    BY <1>a, <1>14, <2>4, <2>5
  <2>7. Flat[i].scene = s
    BY <2>6, SceneHitIs
  <2> QED
    BY <2>5, <2>7
<1>15. Len(Flat) <= topK /\ Len(Flat) \in Nat /\ DOMAIN Flat = 1..Len(Flat)
  BY <1>1, <1>5, <1>7, <1>8, <1>13
<1>16. \A i \in DOMAIN Flat : \E n \in SceneStreams : Flat[i] = listed[n] /\ Flat[i].scene # 0
  BY <1>11, <1>13
<1> QED
  BY <1>13, <1>a, <1>14, <1>15, <1>16

\* A hit with the times of its scene and text.
LEMMA TimedHit ==
  ASSUME NEW r \in Hits, NEW h, h = Visual(SceneTimed(r))
  PROVE  MadeOf(h, r, r.score, r.frame)
<1>1. PICK x \in Int, f \in FrameIds : x = r.score /\ f = r.frame
  BY DEF Hits
<1>2. r = HitOf(r.scene, r.frame, r.item, r.asset, r.start, r.end, r.score, r.rank, r.source, r.snippet)
  BY DEF Hits, HitOf
<1>3. [r EXCEPT !.score = x, !.frame = f] = r
  BY <1>1, <1>2 DEF HitOf
<1>4. h = Made(r, x, f)
  BY <1>3 DEF Made
<1>5. MadeOf(h, r, x, f)
  BY <1>4, MadeHit
<1> QED
  BY <1>1, <1>5

\* A hit of an answer, and the listed hit it is made of.
MadeFrom(h, n) ==
  /\ h \in Hits /\ h.source = listed[n].source
  /\ h.snippet = IF listed[n].snippet = "" THEN "visual match" ELSE listed[n].snippet

LEMMA VectorIs ==
  ASSUME Listing, Request
  PROVE  /\ Vector \in Seq(Hits) /\ DOMAIN Vector = 1..Len(Vector) /\ Len(Vector) \in Nat
         /\ Len(Vector) <= topK
         /\ \A i \in DOMAIN Vector : \E n \in DOMAIN listed : MadeFrom(Vector[i], n)
         /\ Len(Vector) < topK /\ 0 \notin ListedScenes =>
              \A s \in ListedScenes : \E i \in DOMAIN Vector : Vector[i].scene = s
<1>1. /\ Flat \in Seq(Hits) /\ DOMAIN Flat = 1..Len(Flat) /\ Len(Flat) \in Nat /\ Len(Flat) <= topK
      /\ \A i \in DOMAIN Flat : \E n \in DOMAIN listed : Flat[i] = listed[n]
  BY FlatIs, SceneStreamsAre
<1>2. ASSUME NEW i \in DOMAIN Flat
      PROVE  MadeOf(Vector[i], Flat[i], Flat[i].score, Flat[i].frame)
  <2>1. Flat[i] \in Hits
    BY <1>1, SequenceParts
  <2>2. Vector[i] = Visual(SceneTimed(Flat[i]))
    BY DEF Vector
  <2> QED
    BY <2>1, <2>2, TimedHit
<1>3. Vector = [i \in 1..Len(Flat) |-> Vector[i]]
  BY <1>1 DEF Vector
<1>4. Vector \in [1..Len(Flat) -> Hits]
  BY <1>1, <1>2, <1>3 DEF MadeOf
<1>5. Vector \in Seq(Hits) /\ Len(Vector) = Len(Flat) /\ DOMAIN Vector = DOMAIN Flat
  BY <1>1, <1>4, IsSequence
<1>6. ASSUME NEW i \in DOMAIN Vector
      PROVE  \E n \in DOMAIN listed : MadeFrom(Vector[i], n)
  <2>1. PICK n \in DOMAIN listed : Flat[i] = listed[n]
    BY <1>1, <1>5
  <2>2. MadeOf(Vector[i], Flat[i], Flat[i].score, Flat[i].frame)
    BY <1>2, <1>5
  <2>3. MadeFrom(Vector[i], n)
    BY <2>1, <2>2 DEF MadeOf, MadeFrom
  <2> QED
    BY <2>3
<1>7. ASSUME Len(Vector) < topK, 0 \notin ListedScenes, NEW s \in ListedScenes
      PROVE  \E i \in DOMAIN Vector : Vector[i].scene = s
  <2>1. Len(Flat) < topK
    BY <1>5, <1>7
  <2>2. PICK i \in DOMAIN Flat : Flat[i].scene = s
    BY <1>7, <2>1, FlatIs
  <2>3. Vector[i].scene = Flat[i].scene
    BY <1>2 DEF MadeOf
  <2> QED
    BY <1>5, <2>2, <2>3
<1> QED
  BY <1>1, <1>5, <1>6, <1>7

\* The hits of fts are listed ones, and all of Flat while there is room.
LEMMA FtsIs ==
  ASSUME Listing, Request
  PROVE  /\ Fts \in Seq(Hits) /\ DOMAIN Fts = 1..Len(Fts) /\ Len(Fts) \in Nat
         /\ Len(Fts) <= topK
         /\ \A i \in DOMAIN Fts : \E n \in DOMAIN listed : Fts[i] = listed[n]
         /\ Len(Fts) < topK =>
              Len(Flat) < topK /\ \A i \in DOMAIN Flat : \E k \in DOMAIN Fts : Fts[k] = Flat[i]
<1> DEFINE T == {h \in Hits : \E n \in DOMAIN listed : h = listed[n]}
           I == DOMAIN listed \ SceneStreams
           items == First(topK, Places(listed, I))
           both == Flat \o items
           score == [i \in DOMAIN both |-> both[i].score]
           place == [i \in DOMAIN both |-> i]
           order == ByScore(DOMAIN both, score, place)
<1>0. topK \in Nat
  BY SearchAssumption DEF Request
<1>1. /\ Flat \in Seq(Hits) /\ DOMAIN Flat = 1..Len(Flat) /\ Len(Flat) \in Nat
      /\ \A i \in DOMAIN Flat : Flat[i] \in T
  <2>1. Flat \in Seq(Hits) /\ DOMAIN Flat = 1..Len(Flat) /\ Len(Flat) \in Nat
    BY FlatIs
  <2>2. \A i \in DOMAIN Flat : \E n \in DOMAIN listed : Flat[i] = listed[n]
    BY FlatIs, SceneStreamsAre
  <2>3. \A i \in DOMAIN Flat : Flat[i] \in Hits
    BY <2>1, SequenceParts
  <2> QED
    BY <2>1, <2>2, <2>3
<1>2. listed \in Seq(T) /\ I \in SUBSET (1..Len(listed)) /\ \A h \in T : h \in Hits
  <2>1. DOMAIN listed = 1..Len(listed) /\ Len(listed) \in Nat
    BY ListedAre
  <2>2. \A n \in DOMAIN listed : listed[n] \in T
    BY ListedAre
  <2>3. listed = [n \in 1..Len(listed) |-> listed[n]]
    BY <2>1 DEF Listing
  <2> HIDE DEF T
  <2>4. listed \in [1..Len(listed) -> T]
    BY <2>1, <2>2, <2>3
  <2>5. \A h \in T : h \in Hits
    BY DEF T
  <2> QED
    BY <2>1, <2>4, <2>5, IsSequence
<1> HIDE DEF T, I
<1>3. Flat \in Seq(T)
  <2>1. Flat = [n \in 1..Len(Flat) |-> Flat[n]]
    BY <1>1
  <2>2. Flat \in [1..Len(Flat) -> T]
    BY <1>1, <2>1
  <2> QED
    BY <1>1, <2>2, IsSequence
<1>4. items \in Seq(T)
  <2>1. Places(listed, I) \in Seq(T)
    BY <1>2, PlacesParts
  <2> QED
    BY <1>0, <2>1, FirstParts
<1> HIDE DEF items
<1>5. /\ both \in Seq(T) /\ Len(both) = Len(Flat) + Len(items)
      /\ \A i \in 1..Len(Flat) : both[i] = Flat[i]
  BY <1>3, <1>4, ConcatParts
<1>6. Len(items) \in Nat
  BY <1>4, SequenceParts
<1> HIDE DEF both
<1>7. /\ DOMAIN both = 1..Len(both) /\ Len(both) \in Nat /\ \A i \in DOMAIN both : both[i] \in T
  BY <1>5, SequenceParts
<1>8. IsFiniteSet(DOMAIN both) /\ Cardinality(DOMAIN both) = Len(both)
  BY <1>7, FS_Interval
<1>9. \A i \in DOMAIN both : score[i] \in Int /\ place[i] \in Int /\ place[i] = i
  <2>1. \A h \in T : h.score \in Int
    BY <1>2 DEF Hits
  <2> QED
    BY <1>7, <2>1
<1>10. \A a, b \in DOMAIN both : place[a] = place[b] => a = b
  BY <1>9
<1> HIDE DEF score, place
<1>11. /\ DOMAIN order = 1..Len(both)
       /\ \A i \in 1..Len(both) : order[i] \in DOMAIN both
       /\ \A i \in DOMAIN both : \E k \in 1..Len(both) : order[k] = i
  BY <1>8, <1>9, <1>10, ByScoreEnumerates
<1>12. Sorted = [i \in 1..Len(both) |-> both[order[i]]]
  BY <1>11 DEF Sorted, both, items, I, score, place
<1> HIDE DEF order
<1>13. Sorted \in [1..Len(both) -> T]
  BY <1>7, <1>11, <1>12
<1>14. Sorted \in Seq(T) /\ Len(Sorted) = Len(both)
  BY <1>7, <1>13, IsSequence
<1>15. /\ Fts \in Seq(T) /\ Len(Fts) = (IF topK <= Len(both) THEN topK ELSE Len(both))
       /\ \A i \in 1..Len(Fts) : Fts[i] = Sorted[i]
  BY <1>0, <1>14, FirstParts DEF Fts
<1>16. DOMAIN Fts = 1..Len(Fts) /\ Len(Fts) \in Nat /\ \A i \in DOMAIN Fts : Fts[i] \in T
  BY <1>15, SequenceParts
<1>17. Len(Fts) <= topK
  BY <1>0, <1>7, <1>15
<1>18. \A i \in DOMAIN Fts : Fts[i] \in Hits /\ \E n \in DOMAIN listed : Fts[i] = listed[n]
  BY <1>16 DEF T
<1>19. Fts \in Seq(Hits)
  <2>1. Fts = [n \in 1..Len(Fts) |-> Fts[n]]
    BY <1>15, <1>16
  <2>2. Fts \in [1..Len(Fts) -> Hits]
    BY <1>16, <1>18, <2>1
  <2> QED
    BY <1>16, <2>2, IsSequence
<1>20. ASSUME Len(Fts) < topK
       PROVE  Len(Flat) < topK /\ \A i \in DOMAIN Flat : \E k \in DOMAIN Fts : Fts[k] = Flat[i]
  <2>1. Len(Fts) = Len(both) /\ Len(both) < topK
    <3>1. CASE topK <= Len(both)
      BY <1>0, <1>15, <1>20, <3>1
    <3> QED
      BY <1>15, <1>20, <3>1
  <2>2. Len(Flat) < topK
    BY <1>0, <1>1, <1>5, <1>6, <2>1
  <2>3. ASSUME NEW i \in DOMAIN Flat
        PROVE  \E k \in DOMAIN Fts : Fts[k] = Flat[i]
    <3>1. i \in DOMAIN both /\ both[i] = Flat[i]
      BY <1>1, <1>5, <1>6, <1>7
    <3>2. PICK k \in 1..Len(both) : order[k] = i
      BY <1>11, <3>1
    <3>3. Sorted[k] = Flat[i]
      BY <1>12, <3>1, <3>2
    <3> QED
      BY <1>15, <1>16, <2>1, <3>3
  <2> QED
    BY <2>2, <2>3
<1> QED
  BY <1>16, <1>17, <1>18, <1>19, <1>20

-----------------------------------------------------------------------------
(* The answer of the graph.                                                *)

\* The direct hits stay in front, behind them is a quota of the neighbours, and
\* nothing else: what would follow is always cut.
LEMMA BlendIs ==
  ASSUME Request, base \in Seq(Hits), Len(base) <= topK, NEW fresh \in Seq(Hits)
  PROVE  LET q == Min({Len(fresh), GraphQuota})
             A == IF topK - q <= Len(base) THEN topK - q ELSE Len(base)
         IN  /\ q \in Nat /\ q <= GraphQuota /\ (Len(fresh) # 0 => q # 0)
             /\ A \in 0..Len(base) /\ A + q <= topK
             /\ A < Len(base) => A + q = topK
             /\ Blend(fresh) \in Seq(Hits) /\ Len(Blend(fresh)) = A + q
             /\ \A i \in 1..A : Blend(fresh)[i] = base[i]
             /\ \A i \in 1..q : Blend(fresh)[A + i] = fresh[i]
<1> DEFINE q == Min({Len(fresh), GraphQuota})
           A == IF topK - q <= Len(base) THEN topK - q ELSE Len(base)
           P1 == First(topK - q, base)
           P2 == First(q, fresh)
           P3 == SubSeq(base, topK - q + 1, Len(base))
<1>1. topK \in Nat \ {0} /\ Len(base) \in Nat /\ Len(fresh) \in Nat
  BY SearchAssumption DEF Request
<1>2. GraphQuota \in Nat \ {0} /\ GraphQuota <= topK
  <2>1. topK \div 4 \in Nat /\ topK \div 4 <= topK
    BY <1>1
  <2>2. GraphQuota = IF topK \div 4 > 1 THEN topK \div 4 ELSE 1
    BY <2>1 DEF GraphQuota, Max
  <2> QED
    BY <1>1, <2>1, <2>2
<1>3. q = (IF Len(fresh) <= GraphQuota THEN Len(fresh) ELSE GraphQuota)
  BY <1>1, <1>2, MinIs
<1>4. q \in Nat /\ q <= GraphQuota /\ q <= topK /\ q <= Len(fresh) /\ (Len(fresh) # 0 => q # 0)
  BY <1>1, <1>2, <1>3
<1>5. Blend(fresh) = First(topK, P1 \o P2 \o P3)
  BY DEF Blend
<1> HIDE DEF q
<1>6. A \in 0..Len(base) /\ A + q <= topK /\ (A < Len(base) => A + q = topK)
  BY <1>1, <1>4
<1>7. topK - q \in Nat
  BY <1>1, <1>4
<1>8. P1 \in Seq(Hits) /\ Len(P1) = A /\ \A i \in 1..A : P1[i] = base[i]
  BY <1>7, FirstParts
<1>9. P2 \in Seq(Hits) /\ Len(P2) = q /\ \A i \in 1..q : P2[i] = fresh[i]
  BY <1>1, <1>4, FirstParts
<1>10. P3 \in Seq(Hits)
  BY <1>1, <1>7
<1>11. Len(P3) \in Nat /\ (A + q < topK => Len(P3) = 0)
  BY <1>1, <1>4, <1>6, <1>7
<1> HIDE DEF A, P1, P2, P3
<1>12. /\ P1 \o P2 \in Seq(Hits) /\ Len(P1 \o P2) = A + q
       /\ \A i \in 1..A : (P1 \o P2)[i] = base[i]
       /\ \A i \in 1..q : (P1 \o P2)[A + i] = fresh[i]
  <2>1. /\ P1 \o P2 \in Seq(Hits) /\ Len(P1 \o P2) = Len(P1) + Len(P2)
        /\ \A i \in 1..Len(P1) : (P1 \o P2)[i] = P1[i]
        /\ \A i \in 1..Len(P2) : (P1 \o P2)[Len(P1) + i] = P2[i]
    <3>1. P1 \in Seq(Hits) /\ P2 \in Seq(Hits)
      BY <1>8, <1>9
    <3> QED
      BY <3>1, ConcatParts
  <2>2. \A i \in 1..A : (P1 \o P2)[i] = base[i]
    BY <1>8, <2>1
  <2>3. \A i \in 1..q : (P1 \o P2)[A + i] = fresh[i]
    BY <1>8, <1>9, <2>1
  <2> QED
    BY <1>8, <1>9, <2>1, <2>2, <2>3
<1>13. PICK Q \in Seq(Hits) : Q = P1 \o P2
  BY <1>12
<1>14. /\ Q \o P3 \in Seq(Hits) /\ Len(Q \o P3) = A + q + Len(P3)
       /\ \A i \in 1..A + q : (Q \o P3)[i] = Q[i]
  BY <1>10, <1>12, <1>13, ConcatParts
<1>15. PICK R \in Seq(Hits) : R = Q \o P3
  BY <1>14
<1>16. Blend(fresh) = First(topK, R)
  BY <1>5, <1>13, <1>15
<1>17. /\ Blend(fresh) \in Seq(Hits)
       /\ Len(Blend(fresh)) = (IF topK <= Len(R) THEN topK ELSE Len(R))
       /\ \A i \in 1..Len(Blend(fresh)) : Blend(fresh)[i] = R[i]
  BY <1>1, <1>16, FirstParts
<1>18. Len(Blend(fresh)) = A + q
  <2>1. Len(R) = A + q + Len(P3)
    BY <1>14, <1>15
  <2>2. A + q <= topK /\ A + q \in Nat /\ topK \in Nat
    BY <1>1, <1>4, <1>6
  <2>3. CASE A + q < topK
    BY <1>11, <1>17, <2>1, <2>2, <2>3
  <2>4. CASE A + q = topK
    BY <1>11, <1>17, <2>1, <2>2, <2>4
  <2> QED
    BY <2>2, <2>3, <2>4
<1>19. \A i \in 1..A + q : Blend(fresh)[i] = (P1 \o P2)[i]
  BY <1>13, <1>14, <1>15, <1>17, <1>18
<1>20. A \in Nat /\ q \in Nat
  BY <1>1, <1>4, <1>6
<1>21. ASSUME NEW i \in 1..A
       PROVE  Blend(fresh)[i] = base[i]
  <2>1. i \in 1..A + q
    BY <1>20
  <2> QED
    BY <1>12, <1>19, <2>1
<1>22. ASSUME NEW i \in 1..q
       PROVE  Blend(fresh)[A + i] = fresh[i]
  <2>1. A + i \in 1..A + q
    BY <1>20
  <2> QED
    BY <1>12, <1>19, <2>1
<1>23. Blend(fresh) \in Seq(Hits)
  BY <1>17
<1> QED
  BY <1>4, <1>6, <1>18, <1>21, <1>22, <1>23 DEF q, A

\* A node of the graph is the hit of an item.
Node(c) == [ItemHit(c) EXCEPT !.source = "graph"]

LEMMA NodeIs ==
  ASSUME NEW c \in DOMAIN Item, NEW h, h = Node(c)
  PROVE  h \in Hits /\ h.source = "graph" /\ Identity(h) = Identity(ItemHit(c))
<1>1. /\ Item[c].asset \in Assets /\ Item[c].scene \in SceneIds
      /\ Item[c].frame \in FrameIds /\ Item[c].start \in Nat
      /\ Item[c].end \in Nat /\ Item[c].text \in {"page", "speech", "screen"}
  BY ItemParts
<1>2. h = HitOf(Item[c].scene, Item[c].frame, c, Item[c].asset,
                Item[c].start, Item[c].end, 0, 0, "graph", Item[c].text)
  BY DEF Node, ItemHit, Hit, HitOf
<1>a. PICK g : g = ItemHit(c)
  OBVIOUS
<1>3. g = HitOf(Item[c].scene, Item[c].frame, c, Item[c].asset,
                Item[c].start, Item[c].end, 0, 0, "content_items", Item[c].text)
  BY <1>a DEF ItemHit, Hit, HitOf
<1>4. PICK text \in Texts : text = Item[c].text
  BY <1>1 DEF Texts
<1>5. c \in ItemIds
  BY DEF ItemIds
<1>6. h \in Hits
  BY <1>1, <1>2, <1>4, <1>5 DEF HitOf, Hits
<1>7. h.source = "graph" /\ Identity(h) = Identity(g)
  BY <1>2, <1>3 DEF HitOf, Identity
<1> QED
  BY <1>6, <1>7, <1>a

\* The neighbours that are not in the answer: there are some if there is one.
LEMMA FreshIs ==
  ASSUME NEW rows \in Seq(DOMAIN Item)
  PROVE  /\ Fresh(rows) \in Seq(Hits)
         /\ \A i \in 1..Len(Fresh(rows)) : Fresh(rows)[i].source = "graph"
         /\ (\E i \in DOMAIN rows : \A h \in Range(base) : Identity(h) # Identity(ItemHit(rows[i])))
              => Len(Fresh(rows)) # 0
         /\ \A i \in 1..Len(Fresh(rows)) : \A h \in Range(base) : Identity(h) # Identity(Fresh(rows)[i])
         /\ \A i, k \in 1..Len(Fresh(rows)) :
              i < k => Identity(Fresh(rows)[i]) # Identity(Fresh(rows)[k])
<1> DEFINE nodes == [i \in DOMAIN rows |-> Node(rows[i])]
           new == {i \in DOMAIN nodes :
                     /\ \A h \in Range(base) : Identity(h) # Identity(nodes[i])
                     /\ \A k \in 1..i - 1 : Identity(nodes[k]) # Identity(nodes[i])}
<1>1. /\ DOMAIN rows = 1..Len(rows) /\ Len(rows) \in Nat
      /\ \A i \in DOMAIN rows : rows[i] \in DOMAIN Item
  BY SequenceParts
<1>2. Fresh(rows) = Places(nodes, new)
  BY DEF Fresh, Node
<1>3. \A i \in 1..Len(rows) : nodes[i] = Node(rows[i]) /\ nodes[i] \in Hits
                              /\ nodes[i].source = "graph"
                              /\ Identity(nodes[i]) = Identity(ItemHit(rows[i]))
  BY <1>1, NodeIs
<1>4. DOMAIN nodes = 1..Len(rows) /\ nodes = [i \in 1..Len(rows) |-> nodes[i]]
  BY <1>1
<1> HIDE DEF nodes
<1>5. nodes \in [1..Len(rows) -> Hits]
  BY <1>3, <1>4
<1>6. nodes \in Seq(Hits) /\ Len(nodes) = Len(rows)
  BY <1>1, <1>5, IsSequence
<1>7. new \in SUBSET (1..Len(nodes))
  BY <1>4, <1>6
<1>8. /\ Fresh(rows) \in Seq(Hits)
      /\ \A k \in 1..Len(Fresh(rows)) : \E i \in new : Fresh(rows)[k] = nodes[i]
      /\ \A i \in new : \E k \in 1..Len(Fresh(rows)) : Fresh(rows)[k] = nodes[i]
      /\ \A k, l \in 1..Len(Fresh(rows)) : k < l =>
           \E i, j \in new : i < j /\ Fresh(rows)[k] = nodes[i] /\ Fresh(rows)[l] = nodes[j]
  <2>1. PICK I \in SUBSET (1..Len(nodes)) : I = new
    BY <1>7
  <2> HIDE DEF new
  <2>2. nodes \in Seq(Hits) /\ Fresh(rows) = Places(nodes, I)
    BY <1>2, <1>6, <2>1
  <2>3. /\ Places(nodes, I) \in Seq(Hits)
        /\ \A k \in 1..Len(Places(nodes, I)) : \E i \in I : Places(nodes, I)[k] = nodes[i]
        /\ \A i \in I : \E k \in 1..Len(Places(nodes, I)) : Places(nodes, I)[k] = nodes[i]
        /\ \A k, l \in 1..Len(Places(nodes, I)) : k < l =>
             \E i, j \in I : i < j /\ Places(nodes, I)[k] = nodes[i] /\ Places(nodes, I)[l] = nodes[j]
    BY <2>2, PlacesParts
  <2>4. /\ Fresh(rows) \in Seq(Hits)
        /\ \A k \in 1..Len(Fresh(rows)) : \E i \in new : Fresh(rows)[k] = nodes[i]
        /\ \A i \in new : \E k \in 1..Len(Fresh(rows)) : Fresh(rows)[k] = nodes[i]
    BY <2>1, <2>2, <2>3
  <2>5. ASSUME NEW k \in 1..Len(Fresh(rows)), NEW l \in 1..Len(Fresh(rows)), k < l
        PROVE  \E i, j \in new : i < j /\ Fresh(rows)[k] = nodes[i] /\ Fresh(rows)[l] = nodes[j]
    <3>1. k \in 1..Len(Places(nodes, I)) /\ l \in 1..Len(Places(nodes, I))
      BY <2>2
    <3>2. PICK i \in I, j \in I : i < j /\ Places(nodes, I)[k] = nodes[i] /\ Places(nodes, I)[l] = nodes[j]
      BY <2>3, <2>5, <3>1
    <3>3. i \in new /\ j \in new /\ Fresh(rows)[k] = nodes[i] /\ Fresh(rows)[l] = nodes[j]
      BY <2>1, <2>2, <3>2
    <3> QED
      BY <3>2, <3>3
  <2> QED
    BY <2>4, <2>5
<1>9. ASSUME NEW i \in DOMAIN rows, \A h \in Range(base) : Identity(h) # Identity(ItemHit(rows[i]))
      PROVE  Len(Fresh(rows)) # 0
  <2> DEFINE same == {k \in DOMAIN rows : Identity(nodes[k]) = Identity(nodes[i])}
  <2>1. IsFiniteSet(same) /\ same \in SUBSET Int /\ same # {}
    BY <1>1, PlacesFinite
  <2>2. Min(same) \in same /\ \A k \in same : Min(same) <= k
    BY <2>1, MinOf
  <2>3. PICK k \in same : k = Min(same)
    BY <2>2
  <2>4. k \in 1..Len(rows) /\ Identity(nodes[k]) = Identity(nodes[i])
    BY <1>1, <2>3
  <2>5. ASSUME NEW l \in 1..k - 1
        PROVE  Identity(nodes[l]) # Identity(nodes[k])
    <3>1. l \in DOMAIN rows /\ l < k /\ l \in Int /\ k \in Int
      BY <1>1, <2>4
    <3>2. ASSUME l \in same
          PROVE  FALSE
      <4>1. Min(same) <= l
        BY <2>2, <3>2
      <4> HIDE DEF same
      <4> QED
        BY <2>3, <3>1, <4>1
    <3> QED
      BY <2>4, <3>1, <3>2
  <2>6. \A h \in Range(base) : Identity(h) # Identity(nodes[k])
    BY <1>1, <1>3, <1>9, <2>4
  <2>7. k \in new
    BY <1>4, <2>4, <2>5, <2>6
  <2>8. PICK l \in 1..Len(Fresh(rows)) : Fresh(rows)[l] = nodes[k]
    BY <1>8, <2>7
  <2>9. Len(Fresh(rows)) \in Nat
    BY <1>8, SequenceParts
  <2> QED
    BY <2>8, <2>9
<1>10. \A k \in 1..Len(Fresh(rows)) : Fresh(rows)[k].source = "graph"
  BY <1>3, <1>6, <1>7, <1>8
<1>11. \A j \in new : /\ j \in 1..Len(rows)
                      /\ \A h \in Range(base) : Identity(h) # Identity(nodes[j])
                      /\ \A i \in 1..j - 1 : Identity(nodes[i]) # Identity(nodes[j])
  BY <1>4
<1> HIDE DEF new
<1>12. \A k \in 1..Len(Fresh(rows)) : \A h \in Range(base) : Identity(h) # Identity(Fresh(rows)[k])
  BY <1>8, <1>11
<1>13. ASSUME NEW k \in 1..Len(Fresh(rows)), NEW l \in 1..Len(Fresh(rows)), k < l
       PROVE  Identity(Fresh(rows)[k]) # Identity(Fresh(rows)[l])
  <2>1. PICK i \in new, j \in new : i < j /\ Fresh(rows)[k] = nodes[i] /\ Fresh(rows)[l] = nodes[j]
    BY <1>8, <1>13
  <2>2. i \in 1..j - 1
    BY <1>1, <1>11, <2>1
  <2>3. Identity(nodes[i]) # Identity(nodes[j])
    BY <1>11, <2>2
  <2> QED
    BY <2>1, <2>3
<1> QED
  BY <1>8, <1>9, <1>10, <1>12, <1>13

-----------------------------------------------------------------------------
(* The answer of each mode.                                                *)

LEMMA BaseIs ==
  ASSUME SearchInvariant
  PROVE  /\ base \in Seq(Hits) /\ DOMAIN base = 1..Len(base) /\ Len(base) \in Nat
         /\ Len(base) <= topK
         /\ \A i \in DOMAIN base : base[i] \in Hits /\ base[i].source \in Streams
<1> USE DEF SearchInvariant
<1>1. topK \in Nat
  BY SearchAssumption DEF Request
<1>2. CASE pc = "ask"
  <2>1. base = <<>>
    BY <1>2 DEF Answered
  <2> QED
    BY <1>1, <2>1
<1>3. CASE pc # "ask" /\ mode = "fts"
  <2>1. base = Fts
    BY <1>3 DEF Answered
  <2>2. ASSUME NEW i \in DOMAIN base
        PROVE  base[i].source \in Streams
    <3>1. PICK n \in DOMAIN listed : base[i] = listed[n]
      BY <2>1, FtsIs
    <3> QED
      BY <3>1, ListedAre
  <2>3. base \in Seq(Hits) /\ DOMAIN base = 1..Len(base) /\ Len(base) \in Nat /\ Len(base) <= topK
    BY <2>1, FtsIs
  <2> QED
    BY <2>2, <2>3, SequenceParts
<1>4. CASE pc # "ask" /\ mode = "vector"
  <2>1. base = Vector
    BY <1>4 DEF Answered
  <2>2. ASSUME NEW i \in DOMAIN base
        PROVE  base[i].source \in Streams
    <3>1. PICK n \in DOMAIN listed : MadeFrom(base[i], n)
      BY <2>1, VectorIs
    <3>2. base[i].source = listed[n].source
      BY <3>1 DEF MadeFrom
    <3> QED
      BY <3>2, ListedAre
  <2>3. base \in Seq(Hits) /\ DOMAIN base = 1..Len(base) /\ Len(base) \in Nat /\ Len(base) <= topK
    BY <2>1, VectorIs
  <2> QED
    BY <2>2, <2>3, SequenceParts
<1>5. CASE pc # "ask" /\ mode \notin {"fts", "vector"}
  <2>1. base = Hybrid
    BY <1>5 DEF Answered
  <2>2. ASSUME NEW i \in DOMAIN base
        PROVE  base[i].source \in Streams
    <3>1. HybridFor(base[i], KeyOrder[i])
      BY <2>1, HybridIs
    <3> QED
      BY <3>1 DEF HybridFor
  <2>3. base \in Seq(Hits) /\ DOMAIN base = 1..Len(base) /\ Len(base) \in Nat /\ Len(base) <= topK
    BY <2>1, HybridIs
  <2> QED
    BY <2>2, <2>3, SequenceParts
<1> QED
  BY <1>2, <1>3, <1>4, <1>5

\* The answer is base, or base with neighbours, which are marked as such.
LEMMA AnswerIs ==
  ASSUME SearchInvariant
  PROVE  /\ hits \in Seq(Hits) /\ DOMAIN hits = 1..Len(hits) /\ Len(hits) <= topK
         /\ \A i \in DOMAIN hits :
              /\ hits[i] \in Hits
              /\ \/ \E k \in DOMAIN base : hits[i] = base[k]
                 \/ mode = "hybrid_graph" /\ hits[i].source = "graph"
<1> USE DEF SearchInvariant
<1>1. /\ base \in Seq(Hits) /\ DOMAIN base = 1..Len(base) /\ Len(base) \in Nat
      /\ Len(base) <= topK
  BY BaseIs
<1>2. CASE hits = base
  BY <1>1, <1>2, SequenceParts
<1>3. CASE mode = "hybrid_graph" /\ hits = Blend(Fresh(neighbours))
  <2>1. PICK fresh \in Seq(Hits) : /\ fresh = Fresh(neighbours)
                                   /\ \A i \in 1..Len(fresh) : fresh[i].source = "graph"
    BY FreshIs DEF Answered
  <2>2. PICK q, A : /\ q \in Nat /\ q <= Len(fresh) /\ A \in 0..Len(base) /\ A + q <= topK
                    /\ hits \in Seq(Hits) /\ Len(hits) = A + q
                    /\ \A i \in 1..A : hits[i] = base[i]
                    /\ \A i \in 1..q : hits[A + i] = fresh[i]
    <3> DEFINE q == Min({Len(fresh), GraphQuota})
               A == IF topK - q <= Len(base) THEN topK - q ELSE Len(base)
    <3>1. /\ q \in Nat /\ A \in 0..Len(base) /\ A + q <= topK
          /\ Blend(fresh) \in Seq(Hits) /\ Len(Blend(fresh)) = A + q
          /\ \A i \in 1..A : Blend(fresh)[i] = base[i]
          /\ \A i \in 1..q : Blend(fresh)[A + i] = fresh[i]
      BY <1>1, BlendIs
    <3>2. q <= Len(fresh)
      <4>1. Len(fresh) \in Nat /\ GraphQuota \in Int
        <5>1. topK \in Nat
          BY SearchAssumption DEF Request
        <5>2. topK \div 4 \in Int
          BY <5>1
        <5> QED
          BY <5>2, SequenceParts DEF GraphQuota, Max
      <4> QED
        BY <4>1, MinIs
    <3> HIDE DEF q, A
    <3> QED
      BY <1>3, <2>1, <3>1, <3>2
  <2>3. DOMAIN hits = 1..Len(hits) /\ \A i \in DOMAIN hits : hits[i] \in Hits
    BY <2>2, SequenceParts
  <2>4. ASSUME NEW i \in DOMAIN hits
        PROVE  (\E k \in DOMAIN base : hits[i] = base[k]) \/ hits[i].source = "graph"
    <3>1. CASE i <= A
      <4>1. i \in 1..A /\ i \in DOMAIN base
        BY <1>1, <2>2, <2>3, <3>1
      <4> QED
        BY <2>2, <4>1
    <3>2. CASE i > A
      <4>1. i - A \in 1..q /\ i = A + (i - A) /\ i - A \in 1..Len(fresh)
        <5>1. Len(fresh) \in Nat
          BY SequenceParts
        <5> QED
          BY <1>1, <2>2, <2>3, <3>2, <5>1
      <4>2. hits[i] = fresh[i - A]
        BY <2>2, <4>1
      <4> QED
        BY <2>1, <4>1, <4>2
    <3> QED
      BY <1>1, <2>2, <2>3, <3>1, <3>2
  <2>5. Len(hits) <= topK
    BY <2>2
  <2>6. hits \in Seq(Hits)
    BY <2>2
  <2> QED
    BY <1>3, <2>3, <2>4, <2>5, <2>6
<1>4. hits = base \/ (mode = "hybrid_graph" /\ hits = Blend(Fresh(neighbours)))
  BY DEF Answered
<1> QED
  BY <1>2, <1>3, <1>4

\* Whatever the streams and the graph answer, the list is the hits of the rows found,
\* in the order of the streams, and an answer is what the mode makes of the list.
THEOREM InvariantHolds == Spec => []SearchInvariant
  BY InvariantBegins, InvariantStays, PTL DEF Spec

\* An answer keeps its types whatever the streams and the graph answer: no more
\* than top_k hits, each of an asset and with ids of the index.
THEOREM SearchTypeCorrect == Spec => []SearchTypeOK
<1>1. ASSUME SearchInvariant
      PROVE  SearchTypeOK
  <2>1. mode \in Modes /\ topK \in TopKs /\ within \in Ranges /\ asked \in 0..Len(StreamOrder)
    BY <1>1 DEF SearchInvariant, Request, Listing
  <2>2. pc \in {"ask", "expand", "done"}
    BY <1>1 DEF SearchInvariant, Request
  <2>3. ASSUME NEW h \in Range(hits)
        PROVE  /\ h.scene \in DOMAIN Scene \cup {0} /\ h.frame \in DOMAIN Frame \cup {0}
               /\ h.item \in DOMAIN Item \cup {0} /\ h.asset # ""
    <3>1. h \in Hits
      BY <1>1, AnswerIs DEF Range
    <3>2. /\ h.scene \in SceneIds /\ h.frame \in FrameIds /\ h.item \in ItemIds /\ h.asset \in Assets
      BY <3>1 DEF Hits
    <3> QED
      BY <3>2 DEF SceneIds, FrameIds, ItemIds, Assets
  <2>4. Len(hits) <= topK
    BY <1>1, AnswerIs
  <2> QED
    BY <2>1, <2>2, <2>3, <2>4 DEF SearchTypeOK
<1> QED
  BY <1>1, InvariantHolds, PTL

-----------------------------------------------------------------------------
(* The neighbours.                                                         *)

\* The neighbours in an answer are a quota of them behind the first direct hits.
LEMMA DirectIs ==
  ASSUME hits \in Seq(Hits), base \in Seq(Hits),
         \A i \in DOMAIN base : base[i].source # "graph",
         NEW A \in 0..Len(base), NEW q \in Nat, Len(hits) = A + q,
         \A i \in 1..A : hits[i] = base[i],
         \A i \in 1..q : hits[A + i].source = "graph",
         NEW direct, direct = Places(hits, {i \in DOMAIN hits : hits[i].source # "graph"})
  PROVE  Len(direct) = A /\ IsPrefix(direct, base)
<1>1. /\ DOMAIN hits = 1..Len(hits) /\ Len(hits) \in Nat
      /\ DOMAIN base = 1..Len(base) /\ Len(base) \in Nat
  BY SequenceParts
<1>2. A \in Nat /\ A <= Len(base)
  BY <1>1
<1>3. ASSUME NEW i \in DOMAIN hits
      PROVE  hits[i].source # "graph" <=> i <= A
  <2>1. CASE i <= A
    <3>1. i \in 1..A /\ i \in DOMAIN base
      BY <1>1, <1>2, <2>1
    <3> QED
      BY <2>1, <3>1
  <2>2. CASE i > A
    <3>1. i - A \in 1..q /\ i = A + (i - A)
      BY <1>1, <1>2, <2>2
    <3>2. hits[A + (i - A)].source = "graph"
      BY <3>1
    <3>3. ~(i <= A)
      BY <1>1, <1>2, <2>2
    <3> QED
      BY <3>1, <3>2, <3>3
  <2> QED
    BY <1>1, <1>2, <2>1, <2>2
<1>4. {i \in DOMAIN hits : hits[i].source # "graph"} = 1..A
  <2>1. \A i : i \in 1..A => i \in DOMAIN hits /\ i <= A
    BY <1>1, <1>2
  <2>2. \A i \in DOMAIN hits : i <= A => i \in 1..A
    BY <1>1, <1>2
  <2> QED
    BY <1>3, <2>1, <2>2
<1>5. direct = Places(hits, 1..A)
  BY <1>4
<1>6. A \in 0..Len(hits)
  BY <1>1, <1>2
<1>7. Len(direct) = A /\ \A k \in 1..A : direct[k] = hits[k]
  BY <1>5, <1>6, PlacesOfFirst
<1>8. direct \in Seq(Hits)
  BY <1>1, <1>2, <1>5, PlacesParts
<1>9. \A k \in 1..A : direct[k] = base[k]
  BY <1>7
<1>10. SubSeq(direct, 1, A) = SubSeq(base, 1, A)
  <2>1. SubSeq(direct, 1, A) = [k \in 1..A |-> direct[k]]
    BY <1>2, <1>7, <1>8
  <2>2. SubSeq(base, 1, A) = [k \in 1..A |-> base[k]]
    BY <1>2
  <2> QED
    BY <1>9, <2>1, <2>2
<1> QED
  BY <1>2, <1>7, <1>10 DEF IsPrefix

Distinct(hs) == \A i, k \in DOMAIN hs : i < k => Identity(hs[i]) # Identity(hs[k])

\* No neighbour of fresh is a hit of hs, or there twice.
NewTo(fresh, hs) ==
  /\ \A i \in 1..Len(fresh) : \A h \in Range(hs) : Identity(h) # Identity(fresh[i])
  /\ \A i, k \in 1..Len(fresh) : i < k => Identity(fresh[i]) # Identity(fresh[k])

\* Hits of different keys are different.
LEMMA HybridDistinct ==
  ASSUME SearchInvariant, pc = "done", mode = "hybrid_graph"
  PROVE  Distinct(base)
<1> USE DEF SearchInvariant
<1>1. base = Hybrid
  BY DEF Answered
<1>2. \A i \in DOMAIN base : i \in 1..Cardinality(Keys) /\ Key(base[i]) = KeyOrder[i]
  BY <1>1, HybridIs DEF HybridFor
<1>3. \A i, k \in DOMAIN base : i < k => Key(base[i]) # Key(base[k])
  BY <1>2, KeyOrderIs
<1>4. \A g, h : Identity(g) = Identity(h) => Key(g) = Key(h)
  BY DEF Identity, Key
<1> QED
  BY <1>3, <1>4 DEF Distinct

\* Some of hs, and behind them some that are new to hs.
LEMMA BlendDistinct ==
  ASSUME base \in Seq(Hits), hits \in Seq(Hits), Distinct(base), NEW fresh \in Seq(Hits),
         NewTo(fresh, base), NEW A \in 0..Len(base), NEW q \in Nat, q <= Len(fresh), Len(hits) = A + q,
         \A i \in 1..A : hits[i] = base[i], \A i \in 1..q : hits[A + i] = fresh[i]
  PROVE  Distinct(hits)
<1>1. /\ DOMAIN base = 1..Len(base) /\ Len(base) \in Nat /\ DOMAIN hits = 1..Len(hits)
      /\ Len(fresh) \in Nat
  BY SequenceParts
<1>2. ASSUME NEW i \in DOMAIN hits
      PROVE  IF i <= A THEN i \in DOMAIN base /\ hits[i] = base[i] /\ hits[i] \in Range(base)
             ELSE i - A \in 1..Len(fresh) /\ hits[i] = fresh[i - A]
  <2>1. CASE i <= A
    <3>1. i \in DOMAIN base /\ hits[i] = base[i]
      BY <1>1, <2>1
    <3>2. hits[i] \in Range(base)
      BY <3>1 DEF Range
    <3> QED
      BY <2>1, <3>1, <3>2
  <2>2. CASE ~(i <= A)
    <3>1. i - A \in 1..q /\ i = A + (i - A) /\ i - A \in 1..Len(fresh)
      BY <1>1, <2>2
    <3>2. hits[A + (i - A)] = fresh[i - A]
      BY <3>1
    <3> QED
      BY <2>2, <3>1, <3>2
  <2> QED
    BY <2>1, <2>2
<1>3. ASSUME NEW i \in DOMAIN hits, NEW k \in DOMAIN hits, i < k
      PROVE  Identity(hits[i]) # Identity(hits[k])
  <2>0. i \in Int /\ k \in Int /\ A \in Int
    BY <1>1
  <2>1. CASE k <= A
    <3>1. i <= A
      BY <1>3, <2>0, <2>1
    <3>2. Identity(base[i]) # Identity(base[k])
      BY <1>2, <1>3, <2>1, <3>1 DEF Distinct
    <3> QED
      BY <1>2, <2>1, <3>1, <3>2
  <2>2. CASE i <= A /\ ~(k <= A)
    BY <1>2, <2>2 DEF NewTo
  <2>3. CASE ~(i <= A)
    <3>1. ~(k <= A) /\ i - A < k - A
      BY <1>3, <2>0, <2>3
    <3>2. Identity(fresh[i - A]) # Identity(fresh[k - A])
      BY <1>2, <2>3, <3>1 DEF NewTo
    <3> QED
      BY <1>2, <2>3, <3>1, <3>2
  <2> QED
    BY <2>1, <2>2, <2>3
<1> QED
  BY <1>3 DEF Distinct

\* However the streams and the graph answer, a neighbour that is not in the answer
\* makes the graph heard, displaces no more than its quota of a full answer, and is
\* not there twice.
THEOREM NeighboursHeard == Spec => []GraphIsHeard
<1>1. ASSUME SearchInvariant
      PROVE  GraphIsHeard
  <2> SUFFICES ASSUME Done, mode = "hybrid_graph"
               PROVE  LET direct == Places(hits, {i \in DOMAIN hits : hits[i].source # "graph"})
                          heard == Len(hits) - Len(direct)
                      IN  /\ heard <= GraphQuota
                          /\ (\E i \in DOMAIN neighbours :
                                \A h \in Range(base) : Identity(h) # Identity(ItemHit(neighbours[i])))
                               => heard > 0
                          /\ IsPrefix(direct, base)
                          /\ Len(direct) < Len(base) => Len(hits) = topK
                          /\ \A i, k \in DOMAIN hits : i < k => Identity(hits[i]) # Identity(hits[k])
    BY DEF GraphIsHeard
  <2> DEFINE known == \E i \in DOMAIN neighbours :
                        \A h \in Range(base) : Identity(h) # Identity(ItemHit(neighbours[i]))
  <2>1. PICK direct : direct = Places(hits, {i \in DOMAIN hits : hits[i].source # "graph"})
    OBVIOUS
  <2>2. /\ base \in Seq(Hits) /\ Len(base) \in Nat /\ Len(base) <= topK
        /\ \A i \in DOMAIN base : base[i].source # "graph"
    BY <1>1, BaseIs DEF Streams
  <2>3. neighbours \in Seq(DOMAIN Item) /\ topK \in Nat \ {0}
    BY <1>1, SearchAssumption DEF SearchInvariant, Answered, Request
  <2>4. PICK fresh \in Seq(Hits) : /\ fresh = Fresh(neighbours)
                                   /\ \A i \in 1..Len(fresh) : fresh[i].source = "graph"
                                   /\ known => Len(fresh) # 0
                                   /\ NewTo(fresh, base)
    BY <2>3, FreshIs DEF NewTo
  <2>5. hits = IF fresh = <<>> THEN base ELSE Blend(fresh)
    BY <1>1, <2>4 DEF SearchInvariant, Answered, Done
  <2>6. Len(fresh) \in Nat
    BY SequenceParts
  <2>7. GraphQuota \in Nat \ {0}
    <3>1. topK \div 4 \in Nat
      BY <2>3
    <3>2. GraphQuota = IF topK \div 4 > 1 THEN topK \div 4 ELSE 1
      BY <3>1 DEF GraphQuota, Max
    <3> QED
      BY <3>1, <3>2
  <2> HIDE DEF known
  <2>8. \E q \in Nat, A \in 0..Len(base) :
          /\ hits \in Seq(Hits) /\ Len(hits) = A + q
          /\ \A i \in 1..A : hits[i] = base[i]
          /\ \A i \in 1..q : hits[A + i].source = "graph"
          /\ q <= GraphQuota /\ (known => q # 0)
          /\ A < Len(base) => A + q = topK
          /\ q <= Len(fresh) /\ \A i \in 1..q : hits[A + i] = fresh[i]
    <3>1. CASE fresh = <<>>
      <4>1. hits = base /\ ~known
        BY <2>4, <2>5, <3>1
      <4>2. 0 \in Nat /\ Len(base) \in 0..Len(base) /\ Len(hits) = Len(base) + 0 /\ 0 <= GraphQuota
        BY <2>2, <2>7, <4>1
      <4>3. /\ \A i \in 1..0 : hits[Len(base) + i].source = "graph" /\ hits[Len(base) + i] = fresh[i]
            /\ 0 <= Len(fresh)
        BY <2>6
      <4>4. ~(Len(base) < Len(base))
        BY <2>2
      <4> QED
        BY <2>2, <4>1, <4>2, <4>3, <4>4
    <3>2. CASE fresh # <<>>
      <4> DEFINE q == Min({Len(fresh), GraphQuota})
                 A == IF topK - q <= Len(base) THEN topK - q ELSE Len(base)
      <4>1. /\ q \in Nat /\ q <= GraphQuota /\ (Len(fresh) # 0 => q # 0)
            /\ A \in 0..Len(base) /\ A + q <= topK
            /\ A < Len(base) => A + q = topK
            /\ Blend(fresh) \in Seq(Hits) /\ Len(Blend(fresh)) = A + q
            /\ \A i \in 1..A : Blend(fresh)[i] = base[i]
            /\ \A i \in 1..q : Blend(fresh)[A + i] = fresh[i]
        BY <1>1, <2>2, BlendIs DEF SearchInvariant
      <4>2. q <= Len(fresh)
        BY <2>6, <2>7, MinIs
      <4> HIDE DEF q, A
      <4>3. \A i \in 1..q : i \in 1..Len(fresh)
        BY <2>6, <4>1, <4>2
      <4>4. hits = Blend(fresh)
        BY <2>5, <3>2
      <4> QED
        BY <2>4, <4>1, <4>2, <4>3, <4>4
    <3> QED
      BY <3>1, <3>2
  <2>9. PICK q \in Nat, A \in 0..Len(base) :
          /\ hits \in Seq(Hits) /\ Len(hits) = A + q
          /\ \A i \in 1..A : hits[i] = base[i]
          /\ \A i \in 1..q : hits[A + i].source = "graph"
          /\ q <= GraphQuota /\ (known => q # 0)
          /\ A < Len(base) => A + q = topK
          /\ q <= Len(fresh) /\ \A i \in 1..q : hits[A + i] = fresh[i]
    BY <2>8
  <2>10. Len(direct) = A /\ IsPrefix(direct, base)
    BY <2>1, <2>2, <2>9, DirectIs
  <2>11. A \in Int /\ Len(hits) - Len(direct) = q
    BY <2>2, <2>9, <2>10
  <2>12. known => Len(hits) - Len(direct) > 0
    BY <2>9, <2>11
  <2>13. Len(hits) - Len(direct) <= GraphQuota
    BY <2>9, <2>11
  <2>14. Len(direct) < Len(base) => Len(hits) = topK
    BY <2>9, <2>10
  <2>15. \A i, k \in DOMAIN hits : i < k => Identity(hits[i]) # Identity(hits[k])
    <3>1. Distinct(base)
      BY <1>1, HybridDistinct DEF Done
    <3>2. Distinct(hits)
      BY <2>2, <2>4, <2>9, <3>1, BlendDistinct
    <3> QED
      BY <3>2 DEF Distinct
  <2> QED
    BY <2>1, <2>10, <2>12, <2>13, <2>14, <2>15 DEF known
<1> QED
  BY <1>1, InvariantHolds, PTL

-----------------------------------------------------------------------------
(* What a snippet is filed as.                                             *)

LEMMA SnippetsAre ==
  ASSUME NEW stream \in Streams, NEW text \in SnippetsOf(stream)
  PROVE  /\ text # "visual match"
         /\ stream # "vec_frames" => text # ""
         /\ stream \in Speech => text = "speech"
         /\ stream = "fts_scenes" => text = "screen"
         /\ stream = "vec_frames" => text = ""
  BY DEF SnippetsOf, Streams, Speech

LEMMA ListedSnippet ==
  ASSUME Listing, NEW n \in DOMAIN listed
  PROVE  listed[n].source \in Streams /\ listed[n].snippet \in SnippetsOf(listed[n].source)
<1>1. listed[n].source \in Streams
  BY ListedAre
<1>2. PICK i \in DOMAIN found[listed[n].source] :
        HitFor(listed[n], listed[n].source, found[listed[n].source][i].row,
               found[listed[n].source][i].score, i - 1)
  BY ListedAre
<1> QED
  BY <1>1, <1>2 DEF HitFor

\* The rows that speak for a key are those with a hit of that key.
LEMMA RowsForAre ==
  ASSUME NEW stream \in Streams, NEW key
  PROVE  RowsFor(stream, key) = {i \in DOMAIN found[stream] : key \in RowKeys(stream, found[stream][i].row)}
<1> SUFFICES ASSUME NEW i \in DOMAIN found[stream]
             PROVE  i \in RowsFor(stream, key) <=> key \in RowKeys(stream, found[stream][i].row)
  BY DEF RowsFor
<1>1. CASE stream \in Speech
  BY <1>1 DEF RowsFor, RowKeys, Speech
<1>2. CASE stream = "content_items"
  BY <1>2 DEF RowsFor, RowKeys, Speech
<1>3. CASE stream = "vec_frames"
  BY <1>3 DEF RowsFor, RowKeys, Speech
<1>4. CASE stream \in {"fts_scenes", "vec_scenes"}
  BY <1>4 DEF RowsFor, RowKeys, Speech
<1> QED
  BY <1>1, <1>2, <1>3, <1>4 DEF Streams, Speech

\* The snippet of a hit of an answer goes with its source.
FiledRight(h) == SpeechFiled(h) \in {"", "speech"} /\ ScreenFiled(h) \in {"", "screen"}

LEMMA MadeSnippet ==
  ASSUME NEW h, NEW stream \in Streams, NEW text \in SnippetsOf(stream), h.source = stream,
         h.snippet = text \/ (h.snippet = "visual match" /\ text = "")
  PROVE  FiledRight(h)
<1>1. CASE stream \in Speech
  <2>1. text = "speech" /\ h.snippet = "speech"
    BY <1>1, SnippetsAre
  <2> QED
    BY <1>1, <2>1 DEF FiledRight, SpeechFiled, ScreenFiled, Speech
<1>2. CASE stream = "fts_scenes"
  <2>1. h.snippet = "screen"
    BY <1>2, SnippetsAre
  <2> QED
    BY <1>2, <2>1 DEF FiledRight, SpeechFiled, ScreenFiled
<1>3. CASE stream = "vec_frames"
  <2>1. h.snippet = "" \/ h.snippet = "visual match"
    BY <1>3, SnippetsAre
  <2> QED
    BY <1>3, <2>1 DEF FiledRight, SpeechFiled, ScreenFiled
<1>4. CASE stream \in {"vec_scenes", "content_items"}
  BY <1>4 DEF FiledRight, SpeechFiled, ScreenFiled
<1> QED
  BY <1>1, <1>2, <1>3, <1>4 DEF Streams, Speech

\* A hybrid hit shows text whenever a hit of its key has some.
LEMMA HybridSnippet ==
  ASSUME Listing, NEW key, NEW h, HybridFor(h, key)
  PROVE  /\ FiledRight(h)
         /\ h.snippet = "visual match" => WithSnippet(key) = {}
<1>1. PICK n \in At(key) :
        /\ h.source = listed[n].source
        /\ IF WithSnippet(key) = {} THEN h.snippet = "visual match" ELSE h.snippet = listed[n].snippet
  BY DEF HybridFor
<1>2. n \in DOMAIN listed
  BY DEF At
<1>3a. PICK stream \in Streams : stream = listed[n].source
  BY <1>2, ListedSnippet
<1>3. PICK text \in SnippetsOf(stream) : stream = listed[n].source /\ text = listed[n].snippet
  BY <1>2, ListedSnippet, <1>3a
<1>4. WithSnippet(key) = {} => text = ""
  BY <1>3 DEF WithSnippet
<1>5. h.snippet = text \/ (h.snippet = "visual match" /\ text = "")
  BY <1>1, <1>3, <1>4
<1>6. FiledRight(h)
  BY <1>1, <1>3, <1>5, MadeSnippet
<1>7. text # "visual match"
  BY SnippetsAre
<1>8. h.snippet = "visual match" => WithSnippet(key) = {}
  BY <1>1, <1>3, <1>7
<1> QED
  BY <1>6, <1>8

\* Whatever the streams answer, speech and screen text are never filed as each
\* other, and a hybrid hit without text has none in any stream.
THEOREM EvidenceWellFiled == Spec => []EvidenceFiled
<1>1. ASSUME SearchInvariant
      PROVE  EvidenceFiled
  <2> USE <1>1
  <2> USE DEF SearchInvariant
  <2> SUFFICES ASSUME Done, NEW h \in Range(hits)
               PROVE  /\ FiledRight(h)
                      /\ mode = "hybrid" /\ h.snippet = "visual match" =>
                           \A stream \in Streams \ {"vec_frames"} : RowsFor(stream, Key(h)) = {}
    BY DEF EvidenceFiled, FiledRight
  <2>1. /\ \/ \E k \in DOMAIN base : h = base[k]
           \/ mode = "hybrid_graph" /\ h.source = "graph"
    BY AnswerIs DEF Range
  <2>2. CASE mode = "hybrid_graph" /\ h.source = "graph"
    BY <2>2 DEF FiledRight, SpeechFiled, ScreenFiled
  <2>3. CASE mode = "fts" /\ \E k \in DOMAIN base : h = base[k]
    <3>1. base = Fts
      BY <2>3 DEF Answered, Done
    <3>2. PICK n \in DOMAIN listed : h = listed[n]
      BY <2>3, <3>1, FtsIs
    <3>3a. PICK stream \in Streams : stream = h.source
      BY <3>2, ListedSnippet
    <3>3. PICK text \in SnippetsOf(stream) : stream = h.source /\ text = h.snippet
      BY <3>2, ListedSnippet, <3>3a
    <3> QED
      BY <2>3, <3>3, MadeSnippet
  <2>4. CASE mode = "vector" /\ \E k \in DOMAIN base : h = base[k]
    <3>1. base = Vector
      BY <2>4 DEF Answered, Done
    <3>2. PICK n \in DOMAIN listed : MadeFrom(h, n)
      BY <2>4, <3>1, VectorIs
    <3>3a. PICK stream \in Streams : stream = listed[n].source
      BY <3>2, ListedSnippet
    <3>3. PICK text \in SnippetsOf(stream) : stream = listed[n].source /\ text = listed[n].snippet
      BY <3>2, ListedSnippet, <3>3a
    <3>4. h.source = stream /\ (h.snippet = text \/ (h.snippet = "visual match" /\ text = ""))
      BY <3>2, <3>3 DEF MadeFrom
    <3> QED
      BY <2>4, <3>3, <3>4, MadeSnippet
  <2>5. CASE mode \notin {"fts", "vector"} /\ \E k \in DOMAIN base : h = base[k]
    <3>1. base = Hybrid
      BY <2>5 DEF Answered, Done
    <3>2. PICK i \in DOMAIN Hybrid : h = Hybrid[i]
      BY <2>5, <3>1
    <3>3. PICK key : HybridFor(h, key) /\ key = Key(h)
      BY <3>2, HybridIs DEF HybridFor
    <3>4. FiledRight(h) /\ (h.snippet = "visual match" => WithSnippet(key) = {})
      BY <3>3, HybridSnippet
    <3>5. ASSUME h.snippet = "visual match", NEW stream \in Streams \ {"vec_frames"},
                 NEW k \in RowsFor(stream, key)
          PROVE  FALSE
      <4>1. k \in DOMAIN found[stream] /\ key \in RowKeys(stream, found[stream][k].row)
        BY RowsForAre
      <4>2. PICK n \in DOMAIN listed :
              /\ HitFor(listed[n], stream, found[stream][k].row, found[stream][k].score, k - 1)
              /\ Key(listed[n]) = key
        BY <4>1, ListedAre
      <4>3. listed[n].snippet # ""
        <5>1. PICK text \in SnippetsOf(stream) : text = listed[n].snippet
          BY <4>2 DEF HitFor
        <5> QED
          BY <5>1, SnippetsAre
      <4>4. n \in WithSnippet(key)
        BY <4>2, <4>3 DEF WithSnippet, At
      <4> QED
        BY <3>4, <3>5, <4>4
    <3> QED
      BY <3>3, <3>4, <3>5
  <2> QED
    BY <2>1, <2>2, <2>3, <2>4, <2>5
<1> QED
  BY <1>1, InvariantHolds, PTL

-----------------------------------------------------------------------------
(* The scenes that are reached.                                            *)

\* A segment found is listed for each scene it is attributed to.
LEMMA FoundSegment ==
  ASSUME Listing, NEW stream \in Speech, NEW i \in DOMAIN found[stream],
         NEW g, g = found[stream][i].row
  PROVE  /\ g \in DOMAIN Segment /\ Overlaps(Segment[g].start, Segment[g].end, within)
         /\ \A s \in Attributed(g) : s \in ListedScenes /\ (s # 0 => <<"scene", s>> \in Keys)
<1>1. AnswerOf(found[stream], stream)
  BY AnswerParts DEF Listing, Speech, Streams
<1>2. found[stream][i] \in Rows(stream) /\ Passes(stream, g)
  BY <1>1, SequenceParts DEF AnswerOf
<1>3. g \in DOMAIN Segment /\ Overlaps(Segment[g].start, Segment[g].end, within)
  BY <1>2 DEF Rows, RowsOf, Passes, Speech
<1>4. ASSUME NEW s \in Attributed(g)
      PROVE  s \in ListedScenes /\ (s # 0 => <<"scene", s>> \in Keys)
  <2>1. PICK n \in DOMAIN listed : listed[n].source = stream /\ listed[n].scene = s
    BY ListedAre
  <2>2. n \in SceneStreams
    BY <2>1 DEF SceneStreams, Speech
  <2>3. s # 0 => Key(listed[n]) = <<"scene", s>>
    BY <2>1 DEF Key
  <2>4. s # 0 => <<"scene", s>> \in Keys
    BY <2>3, KeysAre
  <2> QED
    BY <2>1, <2>2, <2>4 DEF ListedScenes
<1> QED
  BY <1>3, <1>4

\* While there is room every scene listed is in a hybrid answer, with its times.
LEMMA HybridReaches ==
  ASSUME Listing, Request, Len(Hybrid) < topK, NEW s, s # 0, <<"scene", s>> \in Keys
  PROVE  \E i \in DOMAIN Hybrid : /\ Hybrid[i].scene = s
                                  /\ Hybrid[i].start = Scene[s].start
                                  /\ Hybrid[i].end = Scene[s].end
<1>1. PICK key \in Keys : key = <<"scene", s>>
  OBVIOUS
<1>2. PICK i \in 1..Cardinality(Keys) : KeyOrder[i] = key
  BY KeyOrderIs
<1>3. i \in DOMAIN Hybrid /\ HybridFor(Hybrid[i], key)
  BY <1>2, HybridIs
<1>4. PICK h : h = Hybrid[i] /\ Key(h) = <<"scene", s>>
  BY <1>1, <1>3 DEF HybridFor
<1>5. h.scene = s
  BY <1>4 DEF Key
<1>6. h.scene # 0 => h.start = Scene[h.scene].start /\ h.end = Scene[h.scene].end
  BY <1>3, <1>4 DEF HybridFor
<1> QED
  BY <1>3, <1>4, <1>5, <1>6

\* In every index whose scenes tile their video, attribution adds reach and takes
\* none: the stored scene of a found segment is answered while there is room.
THEOREM StoredSceneStaysReached == Spec => []StoredSceneReached
<1>1. ASSUME SearchInvariant
      PROVE  StoredSceneReached
  <2> USE <1>1
  <2> USE DEF SearchInvariant
  <2> SUFFICES ASSUME Done, Len(base) < topK, mode \in {"fts", "vector"} => ~SceneLess,
                      NEW stream \in Speech, NEW i \in DOMAIN found[stream],
                      ScenesOf(Segment[found[stream][i].row].asset) # {}
               PROVE  \E h \in Range(base) :
                        h.scene = AssignScene(Segment[found[stream][i].row].asset,
                                              Segment[found[stream][i].row].start)
    BY DEF StoredSceneReached, Speech
  <2>1. PICK g : g = found[stream][i].row
    OBVIOUS
  <2>2. /\ g \in DOMAIN Segment
        /\ \A r \in Attributed(g) : r \in ListedScenes /\ (r # 0 => <<"scene", r>> \in Keys)
    BY <2>1, FoundSegment
  <2>3. PICK s : s = AssignScene(Segment[g].asset, Segment[g].start)
    OBVIOUS
  <2>4. s \in Attributed(g) /\ s \in ScenesOf(Segment[g].asset)
    BY <2>1, <2>2, <2>3, AttributedScenes
  <2>5. s \in ListedScenes /\ s # 0 /\ <<"scene", s>> \in Keys
    BY <2>2, <2>4, SceneParts DEF ScenesOf
  <2>6. CASE mode = "fts"
    <3>1. base = Fts /\ 0 \notin ListedScenes
      BY <2>6, SceneStreamsAre DEF Answered, Done
    <3>2. Len(Flat) < topK /\ \A j \in DOMAIN Flat : \E k \in DOMAIN Fts : Fts[k] = Flat[j]
      BY <3>1, FtsIs
    <3>3. PICK j \in DOMAIN Flat : Flat[j].scene = s
      BY <2>5, <3>1, <3>2, FlatIs
    <3>4. PICK k \in DOMAIN base : base[k].scene = s
      BY <3>1, <3>2, <3>3
    <3> QED
      BY <2>1, <2>3, <3>4 DEF Range
  <2>7. CASE mode = "vector"
    <3>1. base = Vector /\ 0 \notin ListedScenes
      BY <2>7, SceneStreamsAre DEF Answered, Done
    <3>2. PICK k \in DOMAIN base : base[k].scene = s
      BY <2>5, <3>1, VectorIs
    <3> QED
      BY <2>1, <2>3, <3>2 DEF Range
  <2>8. CASE mode \notin {"fts", "vector"}
    <3>1. base = Hybrid
      BY <2>8 DEF Answered, Done
    <3>2. PICK k \in DOMAIN base : base[k].scene = s
      BY <2>5, <3>1, HybridReaches
    <3> QED
      BY <2>1, <2>3, <3>2 DEF Range
  <2> QED
    BY <2>6, <2>7, <2>8
<1> QED
  BY <1>1, InvariantHolds, PTL

\* A segment in the range asked for is attributed to a scene in it.
LEMMA SceneInRange ==
  ASSUME Request, NEW g \in DOMAIN Segment, Overlaps(Segment[g].start, Segment[g].end, within),
         NEW s \in ScenesOf(Segment[g].asset), Segment[g].start < Scene[s].end,
         within # NoRange => within[1] <= Scene[s].end
  PROVE  \E r \in Attributed(g) : r # 0 /\ Overlaps(Scene[r].start, Scene[r].end, within)
<1> DEFINE S == Segment[g].start
           E == Segment[g].end
           mine == ScenesOf(Segment[g].asset)
<1>1. S \in Nat /\ E \in Nat /\ S <= E
  BY SegmentParts
<1>2. \A r \in mine : /\ r \in DOMAIN Scene /\ r # 0 /\ Scene[r].start \in Nat /\ Scene[r].end \in Nat
                      /\ Scene[r].asset = Segment[g].asset
  BY SceneParts DEF ScenesOf
<1>3. PICK b : b = AssignScene(Segment[g].asset, S)
  OBVIOUS
<1>4. b \in Attributed(g) /\ b \in mine /\ Scene[b].start <= S
  BY <1>3, StoredScene, AttributedScenes
<1>5. S < Scene[b].end
  <2>1. S < Scene[b].end \/ \A r \in mine : Scene[r].end <= S
    BY <1>3, <1>4, StoredScene
  <2>2. ~(Scene[s].end <= S)
    BY <1>1, <1>2
  <2> QED
    BY <2>1, <2>2
<1>6. CASE within = NoRange
  BY <1>2, <1>4, <1>6 DEF Overlaps
<1>7. CASE within # NoRange
  <2>1. within \in Nat \X Nat /\ within[1] <= within[2]
    BY <1>7, SearchAssumption DEF Request
  <2>2. PICK u \in Nat, v \in Nat : u = within[1] /\ v = within[2] /\ u <= v
    BY <2>1
  <2>3. E >= u /\ S <= v /\ u <= Scene[s].end
    BY <1>7, <2>2 DEF Overlaps
  <2>4. CASE u <= S
    <3>1. Scene[b].end >= u /\ Scene[b].start <= v
      BY <1>1, <1>2, <1>4, <1>5, <2>3, <2>4
    <3> QED
      BY <1>2, <1>4, <2>2, <3>1 DEF Overlaps
  <2>5. CASE u > S
    <3>1. u - 1 \in 0..Scene[s].end - 1 /\ Scene[s].asset = Segment[g].asset /\ s \in DOMAIN Scene
      BY <1>1, <1>2, <2>3, <2>5
    <3>2. PICK r \in mine : Scene[r].start <= u - 1 /\ u - 1 < Scene[r].end
      BY <3>1, ScenesTile
    <3>3. /\ Scene[r].start \in Nat /\ Scene[r].end \in Nat
          /\ Scene[r].end > S /\ Scene[r].start < E /\ Scene[r].end >= u /\ Scene[r].start <= v
      BY <1>1, <1>2, <2>2, <2>3, <2>5, <3>2
    <3>4. r \in Attributed(g)
      BY <3>3 DEF Attributed
    <3> QED
      BY <1>2, <2>2, <3>3, <3>4 DEF Overlaps
  <2> QED
    BY <1>1, <2>2, <2>4, <2>5
<1> QED
  BY <1>6, <1>7

\* In every index whose scenes tile their video, an ask about a time range shows
\* a scene of each segment found in it while there is room.
THEOREM SpeechIsKept == Spec => []AskKeepsSpeech
<1>1. ASSUME SearchInvariant
      PROVE  AskKeepsSpeech
  <2> USE <1>1
  <2> USE DEF SearchInvariant
  <2> SUFFICES ASSUME Done, mode = "hybrid", Len(hits) < topK,
                      NEW stream \in Speech, NEW i \in DOMAIN found[stream],
                      NEW g, g = found[stream][i].row, NEW s \in ScenesOf(Segment[g].asset),
                      Segment[g].start < Scene[s].end,
                      within # NoRange => within[1] <= Scene[s].end
               PROVE  \E h \in Range(Evidence) : h.scene \in Attributed(g)
    BY DEF AskKeepsSpeech, Speech
  <2>1. hits = Hybrid
    BY DEF Answered, Done
  <2>2. /\ g \in DOMAIN Segment /\ Overlaps(Segment[g].start, Segment[g].end, within)
        /\ \A r \in Attributed(g) : r # 0 => <<"scene", r>> \in Keys
    BY FoundSegment
  <2>3. PICK r \in Attributed(g) : r # 0 /\ Overlaps(Scene[r].start, Scene[r].end, within)
    BY <2>2, SceneInRange
  <2>4. PICK k \in DOMAIN hits : /\ hits[k].scene = r
                                 /\ hits[k].start = Scene[r].start /\ hits[k].end = Scene[r].end
    BY <2>1, <2>2, <2>3, HybridReaches
  <2>5. Shown(hits[k], within)
    BY <2>3, <2>4 DEF Shown
  <2>6. PICK I : I = {j \in DOMAIN hits : Shown(hits[j], within)}
    OBVIOUS
  <2>7. k \in I /\ I \in SUBSET (1..Len(hits)) /\ hits \in Seq(Hits)
    BY <2>5, <2>6, AnswerIs
  <2>8. Evidence = Places(hits, I)
    BY <2>6 DEF Evidence
  <2>9. PICK l \in 1..Len(Evidence) : Evidence[l] = hits[k]
    BY <2>7, <2>8, PlacesParts
  <2>10. DOMAIN Evidence = 1..Len(Evidence)
    <3>1. Evidence \in Seq(Hits)
      BY <2>7, <2>8, PlacesParts
    <3> QED
      BY <3>1, SequenceParts
  <2> QED
    BY <2>4, <2>9, <2>10 DEF Range
<1> QED
  BY <1>1, InvariantHolds, PTL

-----------------------------------------------------------------------------
(* Quotients.                                                              *)

LEMMA DivIs ==
  ASSUME NEW u \in Nat, NEW d \in Nat \ {0}
  PROVE  u \div d \in Nat /\ (u \div d) * d <= u /\ u < (u \div d) * d + d
  OBVIOUS

LEMMA DivExact ==
  ASSUME NEW u \in Nat, NEW d \in Nat \ {0}, u % d = 0
  PROVE  u = (u \div d) * d
  OBVIOUS

LEMMA TimesGrows ==
  ASSUME NEW a \in Nat, NEW b \in Nat, NEW c \in Nat, a <= b
  PROVE  a * c <= b * c /\ a * c \in Nat /\ b * c \in Nat
  OBVIOUS

LEMMA TimesBothGrow ==
  ASSUME NEW a \in Nat, NEW b \in Nat, NEW x \in Nat, NEW y \in Nat, a <= b, x <= y
  PROVE  x * a <= y * b
<1>1. x * a <= y * a /\ x * a \in Nat /\ y * a \in Nat
  BY TimesGrows
<1>2. a * y <= b * y /\ a * y \in Nat /\ b * y \in Nat
  BY TimesGrows
<1>3. a * y = y * a /\ b * y = y * b
  OBVIOUS
<1> QED
  BY <1>1, <1>2, <1>3

LEMMA StepOfTimes ==
  ASSUME NEW a \in Nat, NEW b \in Nat, NEW d \in Nat, a < b
  PROVE  a * d + d <= b * d
<1>1. a + 1 <= b /\ a + 1 \in Nat
  OBVIOUS
<1>2. (a + 1) * d <= b * d
  BY <1>1, TimesGrows
<1>3. (a + 1) * d = a * d + d
  OBVIOUS
<1> QED
  BY <1>2, <1>3

LEMMA DivUnique ==
  ASSUME NEW u \in Nat, NEW d \in Nat \ {0}, NEW k \in Nat, k * d <= u, u < k * d + d
  PROVE  u \div d = k
<1>1. PICK q \in Nat : q = u \div d
  BY DivIs
<1>2. q * d <= u /\ u < q * d + d
  BY <1>1, DivIs
<1>3. q * d \in Nat /\ k * d \in Nat
  OBVIOUS
<1>4. ~(q < k)
  <2> SUFFICES ASSUME q < k
               PROVE  FALSE
    OBVIOUS
  <2>1. q * d + d <= k * d
    BY StepOfTimes
  <2> QED
    BY <1>2, <1>3, <2>1
<1>5. ~(k < q)
  <2> SUFFICES ASSUME k < q
               PROVE  FALSE
    OBVIOUS
  <2>1. k * d + d <= q * d
    BY StepOfTimes
  <2> QED
    BY <1>2, <1>3, <2>1
<1> QED
  BY <1>1, <1>4, <1>5

\* It is the same to divide first when nothing remains.
LEMMA ScaledQuotient ==
  ASSUME NEW u \in Nat, NEW d \in Nat \ {0}, u % d = 0, NEW x \in Nat
  PROVE  (x * u) \div d = (u \div d) * x
<1>1. PICK q \in Nat : q = u \div d
  BY DivIs
<1>2. u = q * d
  BY <1>1, DivExact
<1>3. PICK k \in Nat : k = q * x
  OBVIOUS
<1>4. x * u = k * d
  BY <1>2, <1>3
<1>5. x * u \in Nat /\ k * d <= x * u /\ x * u < k * d + d
  <2>1. k * d \in Nat
    OBVIOUS
  <2> QED
    BY <1>4, <2>1
<1>6. (x * u) \div d = k
  BY <1>5, DivUnique
<1> QED
  BY <1>1, <1>3, <1>6

LEMMA QuotientFalls ==
  ASSUME NEW u \in Nat, NEW d \in Nat \ {0}, NEW e \in Nat \ {0}, d <= e
  PROVE  u \div e <= u \div d
<1>1. PICK k \in Nat, q \in Nat : k = u \div e /\ q = u \div d
  BY DivIs
<1>2. k * e <= u /\ u < q * d + d
  BY <1>1, DivIs
<1>3. d * k <= e * k /\ d * k = k * d /\ e * k = k * e /\ k * d \in Nat /\ k * e \in Nat
  BY TimesGrows
<1>4. ~(q < k)
  <2> SUFFICES ASSUME q < k
               PROVE  FALSE
    OBVIOUS
  <2>1. q * d + d <= k * d
    BY StepOfTimes
  <2>2. q * d \in Nat
    OBVIOUS
  <2> QED
    BY <1>2, <1>3, <2>1, <2>2
<1> QED
  BY <1>1, <1>4

LEMMA MaxIs ==
  ASSUME NEW S \in SUBSET Int, NEW m \in S, \A y \in S : m >= y
  PROVE  Max(S) = m
<1>1. Max(S) \in S /\ \A y \in S : Max(S) >= y
  BY DEF Max
<1>2. Max(S) >= m /\ m >= Max(S) /\ m \in Int /\ Max(S) \in Int
  BY <1>1
<1> QED
  BY <1>2

-----------------------------------------------------------------------------
(* What a key deserves.                                                    *)

\* What row i of a stream is worth.
Worth(stream, i) ==
  IF TopScore(stream) = 0 THEN Unit \div (RrfK + i)
  ELSE (Max({found[stream][i].score, 0}) * Unit) \div (TopScore(stream) * (RrfK + i))

\* The same, divided before it is weighted.
Gain(stream, i) ==
  IF TopScore(stream) = 0 THEN Unit \div (RrfK + i)
  ELSE (Unit \div (TopScore(stream) * (RrfK + i))) * Max({found[stream][i].score, 0})

\* A row is worth a number, and not less than the rows behind it.
LEMMA WorthFalls ==
  ASSUME Listing, NEW stream \in Streams, NEW i \in DOMAIN found[stream]
  PROVE  /\ Worth(stream, i) \in Nat /\ Worth(stream, i) = Gain(stream, i)
         /\ \A k \in DOMAIN found[stream] : i <= k => Gain(stream, i) >= Gain(stream, k)
<1> DEFINE a == found[stream]
           top == TopScore(stream)
           x(k) == Max({a[k].score, 0})
<1>1. AnswerOf(a, stream)
  BY AnswerParts DEF Listing
<1>2. /\ DOMAIN a = 1..Len(a) /\ Len(a) \in Nat /\ Len(a) <= MaxRows
      /\ \A k \in DOMAIN a : a[k].score \in Int
  BY <1>1, SequenceParts, ScoresAre DEF AnswerOf
<1>3. top \in Nat /\ (top # 0 => top \in FtsScores \cup VecScores)
  BY TopScoreIs
<1>4. Unit \in Nat /\ MaxRows \in Nat
  BY SearchAssumption
<1>5. \A k \in DOMAIN a : x(k) = (IF a[k].score > 0 THEN a[k].score ELSE 0) /\ x(k) \in Nat
  BY <1>2, PositivePart
<1>6. \A k \in DOMAIN a : k \in 1..MaxRows /\ RrfK + k \in Nat \ {0} /\ k \in Nat
  BY <1>2, <1>4 DEF RrfK
<1>7. \A k \in DOMAIN a : i < k => a[i].score >= a[k].score
  BY <1>1 DEF AnswerOf
<1>8. ASSUME NEW k \in DOMAIN a, i <= k
      PROVE  x(i) >= x(k)
  <2>1. a[i].score >= a[k].score
    BY <1>2, <1>6, <1>7, <1>8
  <2> QED
    BY <1>2, <1>5, <2>1
<1> HIDE DEF x, top, a
<1>9. ASSUME top = 0
      PROVE  /\ Worth(stream, i) \in Nat /\ Worth(stream, i) = Gain(stream, i)
             /\ \A k \in DOMAIN a : i <= k => Gain(stream, i) >= Gain(stream, k)
  <2>1. \A k \in DOMAIN a : Worth(stream, k) = Unit \div (RrfK + k) /\ Gain(stream, k) = Unit \div (RrfK + k)
    BY <1>9 DEF Worth, Gain, top
  <2>2. ASSUME NEW k \in DOMAIN a, i <= k
        PROVE  Unit \div (RrfK + i) >= Unit \div (RrfK + k)
    <3>1. PICK d \in Nat \ {0}, e \in Nat \ {0} : d = RrfK + i /\ e = RrfK + k /\ d <= e
      BY <1>6, <2>2 DEF a, RrfK
    <3>2. Unit \div e <= Unit \div d /\ Unit \div e \in Nat /\ Unit \div d \in Nat
      <4>1. Unit \div e <= Unit \div d
        BY <1>4, <3>1, QuotientFalls
      <4> QED
        BY <1>4, <4>1, QuotientIs
    <3> QED
      BY <3>1, <3>2
  <2>3. Unit \div (RrfK + i) \in Nat
    BY <1>4, <1>6, QuotientIs DEF a
  <2> QED
    BY <2>1, <2>2, <2>3 DEF a
<1>10. ASSUME top # 0
       PROVE  /\ Worth(stream, i) \in Nat /\ Worth(stream, i) = Gain(stream, i)
              /\ \A k \in DOMAIN a : i <= k => Gain(stream, i) >= Gain(stream, k)
  <2> DEFINE d(k) == top * (RrfK + k)
  <2>1. \A k \in DOMAIN a : /\ Worth(stream, k) = (x(k) * Unit) \div d(k)
                            /\ Gain(stream, k) = (Unit \div d(k)) * x(k)
    BY <1>10 DEF Worth, Gain, top, x, a
  <2>2. top \in Nat \ {0} /\ top > 0 /\ top \in FtsScores \cup VecScores
    BY <1>3, <1>10
  <2>3. ASSUME NEW k \in DOMAIN a
        PROVE  d(k) \in Nat \ {0} /\ Unit % d(k) = 0
    <3>1. d(k) \in Nat \ {0}
      BY <1>6, <2>2, ProductPositive
    <3>2. \A n \in 1..MaxRows, t \in FtsScores \cup VecScores : t > 0 => Unit % (t * (RrfK + n)) = 0
      BY SearchAssumption
    <3>3. Unit % (top * (RrfK + k)) = 0
      BY <1>6, <2>2, <3>2
    <3> QED
      BY <3>1, <3>3
  <2>4. ASSUME NEW k \in DOMAIN a, i <= k
        PROVE  d(i) <= d(k)
    <3>1. i \in DOMAIN a
      BY DEF a
    <3>2. PICK m \in Nat, n \in Nat : m = RrfK + i /\ n = RrfK + k /\ m <= n
      BY <1>6, <2>4, <3>1 DEF RrfK
    <3>3. m * top <= n * top /\ m * top = top * m /\ n * top = top * n
      BY <1>3, <3>2, TimesGrows
    <3> QED
      BY <3>2, <3>3
  <2> HIDE DEF d
  <2>5. i \in DOMAIN a
    BY DEF a
  <2>6. (x(i) * Unit) \div d(i) = (Unit \div d(i)) * x(i)
    BY <1>4, <1>5, <2>3, <2>5, ScaledQuotient
  <2>7. \A k \in DOMAIN a : Unit \div d(k) \in Nat
    BY <1>4, <2>3, QuotientIs
  <2>8. ASSUME NEW k \in DOMAIN a, i <= k
        PROVE  (Unit \div d(i)) * x(i) >= (Unit \div d(k)) * x(k)
    <3>1. Unit \div d(k) <= Unit \div d(i)
      BY <1>4, <2>3, <2>4, <2>5, <2>8, QuotientFalls
    <3>2. PICK p \in Nat, q \in Nat, y \in Nat, z \in Nat :
            /\ p = Unit \div d(k) /\ q = Unit \div d(i) /\ y = x(k) /\ z = x(i)
            /\ p <= q /\ y <= z
      BY <1>5, <1>8, <2>5, <2>7, <2>8, <3>1
    <3>3. p * y <= q * z
      BY <3>2, TimesBothGrow
    <3>4. p * y \in Nat /\ q * z \in Nat
      OBVIOUS
    <3> QED
      BY <3>2, <3>3, <3>4
  <2>9. (Unit \div d(i)) * x(i) \in Nat
    BY <1>5, <2>5, <2>7
  <2> QED
    BY <2>1, <2>5, <2>6, <2>8, <2>9
<1> QED
  BY <1>9, <1>10 DEF a

\* The first hit of a stream for a key is that of its best row for the key: the
\* hits of a stream are listed in the order of its ranks, and a row which is ahead
\* is never worth less.
LEMMA FirstIsBestRow ==
  ASSUME Listing, NEW stream \in Streams, NEW key \in Keys
  PROVE  FirstIn(stream, key) = BestRow(stream, key)
<1> DEFINE a == found[stream]
           R == RowsFor(stream, key)
           mine == {n \in At(key) : listed[n].source = stream}
           worths == {Worth(stream, i) : i \in R}
<1>1. AnswerOf(a, stream)
  BY AnswerParts DEF Listing
<1>2. DOMAIN a = 1..Len(a) /\ Len(a) \in Nat
  BY <1>1, SequenceParts DEF AnswerOf
<1>3. R = {i \in DOMAIN a : key \in RowKeys(stream, a[i].row)}
  BY RowsForAre
<1>4. BestRow(stream, key) = Max({0} \cup worths)
  BY DEF BestRow, Worth, TopScore
<1>5. FirstIn(stream, key) = IF mine = {} THEN 0 ELSE Contribution(listed[Min(mine)])
  BY DEF FirstIn
<1>6. \A n \in mine : n \in DOMAIN listed /\ listed[n].source = stream /\ Key(listed[n]) = key
  BY DEF At
<1>7. ASSUME NEW n \in mine
      PROVE  \E i \in R : /\ listed[n].rank = i - 1 /\ listed[n].score = a[i].score
  <2>1. PICK i \in DOMAIN a : HitFor(listed[n], stream, a[i].row, a[i].score, i - 1)
    BY <1>6, ListedAre
  <2>2. i \in R
    BY <1>3, <1>6, <2>1 DEF HitFor
  <2> QED
    BY <2>1, <2>2 DEF HitFor
<1>8. ASSUME NEW i \in R
      PROVE  \E n \in mine : listed[n].rank = i - 1
  <2>1. PICK n \in DOMAIN listed : HitFor(listed[n], stream, a[i].row, a[i].score, i - 1) /\ Key(listed[n]) = key
    BY <1>3, ListedAre
  <2>2. n \in mine /\ listed[n].rank = i - 1
    BY <2>1 DEF HitFor, At
  <2> QED
    BY <2>2
<1>9. \A i \in R : i \in DOMAIN a /\ i \in Nat /\ Worth(stream, i) \in Nat
  BY <1>2, <1>3, WorthFalls
<1>10. DOMAIN listed = 1..Len(listed) /\ Len(listed) \in Nat
  BY ListedAre
<1>11. IsFiniteSet(mine) /\ mine \in SUBSET Int
  <2>1. mine \in SUBSET (1..Len(listed))
    BY <1>6, <1>10
  <2> QED
    BY <1>10, <2>1, PlacesFinite
<1> HIDE DEF R, mine, a
<1>12. {0} \cup worths \in SUBSET Int
  BY <1>9
<1>13. CASE R = {}
  <2>1. mine = {}
    BY <1>7, <1>13
  <2>2. worths = {}
    BY <1>13
  <2>3. Max({0} \cup worths) = 0
    <3>1. {0} \cup worths = {0}
      BY <2>2
    <3>2. Max({0}) = 0
      BY MaxIs
    <3> QED
      BY <3>1, <3>2
  <2> QED
    BY <1>4, <1>5, <2>1, <2>3
<1>14. CASE R # {}
  <2>1. mine # {}
    BY <1>8, <1>14
  <2>2. Min(mine) \in mine /\ \A n \in mine : Min(mine) <= n
    BY <1>11, <2>1, MinOf
  <2>3. PICK n \in mine : n = Min(mine) /\ \A m \in mine : n <= m
    BY <2>2
  <2>4. PICK i \in R : listed[n].rank = i - 1 /\ listed[n].score = a[i].score
    BY <1>7
  <2>5. ASSUME NEW k \in R
        PROVE  i <= k
    <3>1. PICK m \in mine : listed[m].rank = k - 1
      BY <1>8
    <3>2. n <= m /\ n \in Int /\ m \in Int
      BY <1>11, <2>3
    <3>3. CASE n < m
      <4>1. listed[n].rank <= listed[m].rank
        BY <1>6, <3>3 DEF Listing
      <4> QED
        BY <1>9, <2>4, <3>1, <4>1
    <3>4. CASE n = m
      BY <1>9, <2>4, <3>1, <3>4
    <3> QED
      BY <3>2, <3>3, <3>4
  <2>6. Contribution(listed[n]) = Gain(stream, i)
    <3>1. listed[n].source = stream /\ listed[n].rank = i - 1 /\ listed[n].score = found[stream][i].score
      BY <1>6, <2>4 DEF a
    <3>2. RrfK + listed[n].rank + 1 = RrfK + i
      BY <1>9, <3>1 DEF RrfK
    <3>3. TopScore(stream) \in Nat
      BY TopScoreIs
    <3>4. CASE TopScore(stream) = 0
      BY <3>1, <3>2, <3>4 DEF Contribution, Gain
    <3>5. CASE TopScore(stream) # 0
      <4>1. TopScore(stream) > 0
        BY <3>3, <3>5
      <4> QED
        BY <3>1, <3>2, <3>5, <4>1 DEF Contribution, Gain
    <3> QED
      BY <3>4, <3>5
  <2>7. \A k \in R : Worth(stream, i) >= Worth(stream, k)
    <3> SUFFICES ASSUME NEW k \in R
                 PROVE  Worth(stream, i) >= Worth(stream, k)
      OBVIOUS
    <3>1. i \in DOMAIN found[stream] /\ k \in DOMAIN found[stream] /\ i <= k
      BY <1>9, <2>5 DEF a
    <3>2. Worth(stream, i) = Gain(stream, i) /\ Worth(stream, k) = Gain(stream, k)
      BY <3>1, WorthFalls
    <3>3. Gain(stream, i) >= Gain(stream, k)
      BY <3>1, WorthFalls
    <3> QED
      BY <3>2, <3>3
  <2>8. Worth(stream, i) \in {0} \cup worths
    OBVIOUS
  <2>9. \A y \in {0} \cup worths : Worth(stream, i) >= y
    BY <1>9, <2>7
  <2> HIDE DEF worths
  <2>10. Max({0} \cup worths) = Worth(stream, i)
    BY <1>12, <2>8, <2>9, MaxIs
  <2>11. Worth(stream, i) = Gain(stream, i)
    BY <1>9, WorthFalls DEF a
  <2> QED
    BY <1>4, <1>5, <2>1, <2>3, <2>6, <2>10, <2>11
<1> QED
  BY <1>13, <1>14

LEMMA FusedIsDeserved ==
  ASSUME Listing, NEW key \in Keys
  PROVE  Fused(key) = Deserved(key)
<1>1. \A stream \in Streams : FirstIn(stream, key) = BestRow(stream, key)
  BY FirstIsBestRow
<1>2. [stream \in Streams |-> FirstIn(stream, key)] = [stream \in Streams |-> BestRow(stream, key)]
  BY <1>1
<1> QED
  BY <1>2 DEF Fused, Deserved

\* The keys listed are those of the rows found.
LEMMA KeysAreFound ==
  ASSUME Listing
  PROVE  FoundKeys = Keys
<1>1. ASSUME NEW key \in FoundKeys
      PROVE  key \in Keys
  <2>1. PICK stream \in Streams : RowsFor(stream, key) # {}
    BY DEF FoundKeys
  <2>2. PICK i \in DOMAIN found[stream] : key \in RowKeys(stream, found[stream][i].row)
    BY <2>1, RowsForAre
  <2>3. PICK n \in DOMAIN listed : Key(listed[n]) = key
    BY <2>2, ListedAre
  <2> QED
    BY <2>3, KeysAre
<1>2. ASSUME NEW key \in Keys
      PROVE  key \in FoundKeys
  <2>1. PICK n \in DOMAIN listed : Key(listed[n]) = key
    BY DEF Keys
  <2>2. PICK stream \in Streams : stream = listed[n].source
    BY ListedAre
  <2>3. PICK i \in DOMAIN found[stream] :
          HitFor(listed[n], stream, found[stream][i].row, found[stream][i].score, i - 1)
    BY <2>2, ListedAre
  <2>4. i \in RowsFor(stream, key)
    BY <2>1, <2>3, RowsForAre DEF HitFor
  <2>5. listed[n].scene \in SceneIds /\ listed[n].item \in ItemIds
    <3>1. listed[n] \in Hits
      BY ListedAre
    <3> QED
      BY <3>1 DEF Hits
  <2>6. key \in ({"scene"} \X DOMAIN Scene) \cup ({"item"} \X (DOMAIN Item \cup {0}))
    BY <2>1, <2>5 DEF Key, SceneIds, ItemIds
  <2> QED
    BY <2>4, <2>6 DEF FoundKeys
<1> QED
  BY <1>1, <1>2

-----------------------------------------------------------------------------
(* The best of what is offered.                                            *)

\* e lists N of E, each once and the highest value V first.
Falls(e, N, E, V) ==
  /\ N \in Nat
  /\ \A i \in 1..N : e[i] \in E
  /\ \A i, j \in 1..N : i < j => e[i] # e[j] /\ V[e[i]] >= V[e[j]]

Lists(e, N, x) == \E i \in 1..N : e[i] = x
ListsAll(e, N, d, m) == \A j \in 1..m : Lists(e, N, d[j])
Values(E, V) == \A x \in E : V[x] \in Int

\* They are k, or all of E, and none that is left out is above one that is listed.
BestOf(e, n, k, E, V) ==
  /\ Falls(e, n, E, V) /\ n <= k
  /\ \A x \in E : Lists(e, n, x) \/ (n = k /\ \A i \in 1..n : V[e[i]] >= V[x])

\* They are as many as there can be.
LEMMA BestCounts ==
  ASSUME NEW E, IsFiniteSet(E), NEW V, NEW e, NEW n, NEW k \in Nat, BestOf(e, n, k, E, V)
  PROVE  n = Min({k, Cardinality(E)})
<1> DEFINE f == [i \in 1..n |-> e[i]]
<1>1. /\ n \in Nat /\ n <= k /\ \A i \in 1..n : e[i] \in E
      /\ \A i, j \in 1..n : i < j => e[i] # e[j]
      /\ n # k => \A x \in E : \E i \in 1..n : e[i] = x
  BY DEF BestOf, Falls, Lists
<1>2. IsFiniteSet(1..n) /\ Cardinality(1..n) = n /\ Cardinality(E) \in Nat
  BY <1>1, FS_Interval, FS_CardinalityType
<1>3. f \in Injection(1..n, E)
  <2>1. \A i, j \in 1..n : i < j \/ j < i \/ i = j
    BY <1>1
  <2> QED
    BY <1>1, <2>1 DEF Injection, IsInjective
<1>4. n <= Cardinality(E)
  BY <1>2, <1>3, FS_Injection
<1>5. CASE n < k
  <2>1. f \in Surjection(1..n, E)
    BY <1>1, <1>5 DEF Surjection
  <2>2. Cardinality(E) <= n
    BY <1>2, <2>1, FS_Surjection
  <2> QED
    BY <1>1, <1>2, <1>4, <1>5, <2>2, MinIs
<1>6. CASE n = k
  BY <1>1, <1>2, <1>4, <1>6, MinIs
<1> QED
  BY <1>1, <1>5, <1>6

\* Of the first k in the order of V none that is left out is above one of them.
LEMMA FirstAreBest ==
  ASSUME NEW E, NEW V, NEW e, NEW N, Falls(e, N, E, V),
         NEW k \in Nat, NEW n, n = (IF k <= N THEN k ELSE N), NEW x \in E, Lists(e, N, x)
  PROVE  Lists(e, n, x) \/ (n = k /\ \A i \in 1..n : V[e[i]] >= V[x])
<1> SUFFICES ASSUME ~Lists(e, n, x)
             PROVE  n = k /\ \A i \in 1..n : V[e[i]] >= V[x]
  OBVIOUS
<1>1. N \in Nat /\ n \in Nat /\ n <= N /\ (n # k => n = N)
  BY DEF Falls
<1>2. PICK j \in 1..N : e[j] = x
  BY DEF Lists
<1>3. ~(j \in 1..n)
  BY <1>2 DEF Lists
<1>4. \A i \in 1..n : i \in 1..N /\ i < j
  BY <1>1, <1>3
<1> QED
  BY <1>1, <1>2, <1>3, <1>4 DEF Falls

LEMMA UpTo ==
  ASSUME NEW n \in Nat
  PROVE  IsFiniteSet(1..n) /\ Cardinality(1..n) = n
  BY FS_Interval

\* Where k places of a falling sequence are no less than x, the first k are not.
LEMMA EnoughAbove ==
  ASSUME NEW N \in Nat, NEW k \in Nat, NEW v, \A i \in 1..N : v[i] \in Int,
         \A i, j \in 1..N : i < j => v[i] >= v[j],
         NEW x \in Int, NEW q, \A j \in 1..k : q[j] \in 1..N /\ v[q[j]] >= x,
         \A i, j \in 1..k : q[i] = q[j] => i = j,
         NEW i \in 1..N, i <= k
  PROVE  v[i] >= x
<1> SUFFICES ASSUME v[i] < x
             PROVE  FALSE
  OBVIOUS
<1> DEFINE f == [j \in 1..k |-> q[j]]
<1>1. ASSUME NEW j \in 1..k
      PROVE  q[j] \in 1..i - 1
  <2>1. q[j] \in 1..N /\ v[q[j]] >= x /\ v[q[j]] \in Int /\ v[i] \in Int
    OBVIOUS
  <2>2. q[j] # i
    BY <2>1
  <2>3. ~(i < q[j])
    <3> SUFFICES ASSUME i < q[j]
                 PROVE  FALSE
      OBVIOUS
    <3>1. v[i] >= v[q[j]]
      BY <2>1
    <3> QED
      BY <2>1, <3>1
  <2> QED
    BY <2>1, <2>2, <2>3
<1>2. f \in Injection(1..k, 1..i - 1)
  BY <1>1 DEF Injection, IsInjective
<1>3. /\ IsFiniteSet(1..k) /\ Cardinality(1..k) = k
      /\ IsFiniteSet(1..i - 1) /\ Cardinality(1..i - 1) = i - 1
  <2>1. i \in Int /\ i >= 1 /\ i - 1 \in Int
    OBVIOUS
  <2>2. IsFiniteSet(1..k) /\ Cardinality(1..k) = k
    BY UpTo
  <2>3. i - 1 \in Nat
    BY <2>1
  <2>4. IsFiniteSet(1..i - 1) /\ Cardinality(1..i - 1) = i - 1
    BY <2>3, UpTo
  <2> QED
    BY <2>2, <2>4
<1>4. k <= i - 1
  BY <1>2, <1>3, FS_Injection
<1> QED
  BY <1>4

\* An order that lists the best k of a part keeps, in its first k, the best of the part.
LEMMA BestOfPart ==
  ASSUME NEW E, NEW V, Values(E, V), NEW e, NEW N, Falls(e, N, E, V),
         NEW k \in Nat, NEW n, n = (IF k <= N THEN k ELSE N),
         NEW D \in SUBSET E, NEW d, NEW m, BestOf(d, m, k, D, V),
         ListsAll(e, N, d, m), NEW x \in D
  PROVE  Lists(e, n, x) \/ (n = k /\ \A i \in 1..n : V[e[i]] >= V[x])
<1>1. /\ N \in Nat /\ n \in Nat /\ n <= N /\ n <= k /\ \A i \in 1..n : i \in 1..N
      /\ \A i \in 1..N : V[e[i]] \in Int
      /\ \A i, j \in 1..N : i < j => V[e[i]] >= V[e[j]]
  BY DEF Falls, Values
<1>2. CASE Lists(e, N, x)
  BY <1>2, FirstAreBest
<1>3. CASE ~Lists(e, N, x)
  <2>1. ~Lists(d, m, x)
    BY <1>3 DEF Lists, ListsAll
  <2>2. m = k /\ \A j \in 1..k : V[d[j]] >= V[x]
    BY <2>1 DEF BestOf
  <2> DEFINE q == [j \in 1..k |-> CHOOSE i \in 1..N : e[i] = d[j]]
             v == [i \in 1..N |-> V[e[i]]]
  <2>3. \A j \in 1..k : q[j] \in 1..N /\ e[q[j]] = d[j]
    BY <2>2 DEF Lists, ListsAll
  <2>4. \A i \in 1..N : v[i] = V[e[i]]
    OBVIOUS
  <2> HIDE DEF q, v
  <2>5. ASSUME NEW i \in 1..k, NEW j \in 1..k, q[i] = q[j]
        PROVE  i = j
    <3>1. d[i] = d[j]
      BY <2>3, <2>5
    <3>2. ~(i < j) /\ ~(j < i)
      BY <2>2, <3>1 DEF BestOf, Falls
    <3> QED
      BY <3>2
  <2>6. \A j \in 1..k : q[j] \in 1..N /\ v[q[j]] >= V[x]
    BY <2>2, <2>3, <2>4
  <2>7. V[x] \in Int
    BY DEF Values
  <2>8. \A i \in 1..N : v[i] \in Int
    BY <1>1, <2>4
  <2>9. \A i, j \in 1..N : i < j => v[i] >= v[j]
    BY <1>1, <2>4
  <2>10. ASSUME NEW i \in 1..n
         PROVE  v[i] >= V[x]
    <3>1. i \in 1..N /\ i <= k
      BY <1>1
    <3> QED
      BY <1>1, <2>5, <2>6, <2>7, <2>8, <2>9, <3>1, EnoughAbove
  <2>11. k <= N
    <3> DEFINE f == [j \in 1..k |-> q[j]]
    <3>1. f \in Injection(1..k, 1..N)
      BY <2>3, <2>5 DEF Injection, IsInjective
    <3>2. /\ IsFiniteSet(1..k) /\ Cardinality(1..k) = k
          /\ IsFiniteSet(1..N) /\ Cardinality(1..N) = N
      BY <1>1, FS_Interval
    <3> QED
      BY <3>1, <3>2, FS_Injection
  <2> QED
    BY <1>1, <2>4, <2>10, <2>11
<1> QED
  BY <1>2, <1>3

\* Of two parts, each given by its best k, the first k in order are the best of both.
LEMMA BestOfBoth ==
  ASSUME NEW E, NEW V, Values(E, V), NEW e, NEW N, Falls(e, N, E, V),
         NEW k \in Nat, NEW n, n = (IF k <= N THEN k ELSE N),
         NEW D1 \in SUBSET E, NEW D2 \in SUBSET E, \A x \in E : x \in D1 \/ x \in D2,
         NEW d1, NEW m1, BestOf(d1, m1, k, D1, V), ListsAll(e, N, d1, m1),
         NEW d2, NEW m2, BestOf(d2, m2, k, D2, V), ListsAll(e, N, d2, m2)
  PROVE  BestOf(e, n, k, E, V)
<1>1. Falls(e, n, E, V) /\ n <= k
  BY DEF Falls
<1>2. ASSUME NEW x \in D1
      PROVE  Lists(e, n, x) \/ (n = k /\ \A i \in 1..n : V[e[i]] >= V[x])
  BY BestOfPart
<1>3. ASSUME NEW x \in D2
      PROVE  Lists(e, n, x) \/ (n = k /\ \A i \in 1..n : V[e[i]] >= V[x])
  BY BestOfPart
<1> QED
  BY <1>1, <1>2, <1>3 DEF BestOf

-----------------------------------------------------------------------------
(* What fts and vector have to choose from.                                *)

\* The scores of a scene are those of the hits listed for it.
LEMMA SceneScoresAre ==
  ASSUME Listing, NEW S \in SUBSET (Streams \ {"content_items"}), NEW s \in DOMAIN Scene
  PROVE  SceneScores(S, s) = {listed[n].score : n \in {n \in AtScene(s) : listed[n].source \in S}}
<1> DEFINE ns == {n \in AtScene(s) : listed[n].source \in S}
<1>1. s # 0
  BY SceneParts
<1>2. ASSUME NEW x \in SceneScores(S, s)
      PROVE  \E n \in ns : x = listed[n].score
  <2>1. PICK stream \in S : x \in {found[stream][i].score : i \in RowsFor(stream, <<"scene", s>>)}
    BY DEF SceneScores
  <2>2. PICK i \in RowsFor(stream, <<"scene", s>>) : x = found[stream][i].score
    BY <2>1
  <2>3. PICK key \in RowKeys(stream, found[stream][i].row) : key = <<"scene", s>>
    BY <2>2, RowsForAre
  <2>a. stream \in Streams /\ i \in DOMAIN found[stream]
    BY <2>2, RowsForAre
  <2>4. PICK n \in DOMAIN listed :
          /\ HitFor(listed[n], stream, found[stream][i].row, found[stream][i].score, i - 1)
          /\ Key(listed[n]) = key
    BY <2>a, ListedAre
  <2>5. listed[n].source = stream /\ listed[n].score = x /\ listed[n].scene = s
    BY <1>1, <2>2, <2>3, <2>4 DEF HitFor, Key
  <2>6. n \in ns
    BY <2>1, <2>5 DEF AtScene, SceneStreams
  <2> QED
    BY <2>5, <2>6
<1>3. ASSUME NEW n \in ns
      PROVE  listed[n].score \in SceneScores(S, s)
  <2>1. n \in DOMAIN listed /\ listed[n].scene = s /\ listed[n].source \in S
    BY DEF AtScene, SceneStreams
  <2>2. PICK stream \in S : stream = listed[n].source
    BY <2>1
  <2>3. PICK i \in DOMAIN found[stream] :
          HitFor(listed[n], stream, found[stream][i].row, found[stream][i].score, i - 1)
    BY <2>1, <2>2, ListedAre
  <2>4. Key(listed[n]) = <<"scene", s>>
    BY <1>1, <2>1 DEF Key
  <2>5. i \in RowsFor(stream, <<"scene", s>>)
    BY <2>3, <2>4, RowsForAre DEF HitFor
  <2>6. listed[n].score = found[stream][i].score
    BY <2>3 DEF HitFor
  <2> QED
    BY <2>5, <2>6 DEF SceneScores
<1> QED
  BY <1>2, <1>3

\* A scene is offered if a hit is listed for it, and is worth the score of the hit
\* chosen for it.
LEMMA SceneIsWorth ==
  ASSUME Listing, NEW s \in DOMAIN Scene
  PROVE  /\ RawScores(<<"scene", s>>) # {} <=> s \in ListedScenes
         /\ s \in ListedScenes => Max(RawScores(<<"scene", s>>)) = SceneScore(s)
<1> DEFINE speech == {n \in AtScene(s) : listed[n].source = "fts_transcript"}
           all == Streams \ {"content_items"}
           entry == <<"scene", s>>
<1>1. /\ AtScene(s) \in SUBSET DOMAIN listed
      /\ AtScene(s) # {} <=> s \in ListedScenes
  BY DEF AtScene, SceneStreams, ListedScenes
<1>2. \A n \in AtScene(s) : listed[n].source \in all /\ listed[n].score \in Int
  <2>1. \A n \in AtScene(s) : listed[n].source \in all /\ listed[n] \in Hits
    BY <1>1, ListedAre DEF AtScene, SceneStreams
  <2> QED
    BY <2>1 DEF Hits
<1>3. SceneScores({"fts_transcript"}, s) = {listed[n].score : n \in speech}
  <2>1. {"fts_transcript"} \in SUBSET all
    BY DEF Streams
  <2>2. SceneScores({"fts_transcript"}, s) =
          {listed[n].score : n \in {n \in AtScene(s) : listed[n].source \in {"fts_transcript"}}}
    BY <2>1, SceneScoresAre
  <2>3. {n \in AtScene(s) : listed[n].source \in {"fts_transcript"}} = speech
    OBVIOUS
  <2> QED
    BY <2>2, <2>3
<1>4. SceneScores(all, s) = {listed[n].score : n \in AtScene(s)}
  <2>1. SceneScores(all, s) =
          {listed[n].score : n \in {n \in AtScene(s) : listed[n].source \in all}}
    BY SceneScoresAre
  <2>2. {n \in AtScene(s) : listed[n].source \in all} = AtScene(s)
    BY <1>2
  <2> QED
    BY <2>1, <2>2
<1>5. RawScores(entry) = IF SceneScores({"fts_transcript"}, s) # {}
                         THEN SceneScores({"fts_transcript"}, s) ELSE SceneScores(all, s)
  BY DEF RawScores
<1> HIDE DEF all, entry
<1>6. PICK ns : ns = IF speech # {} THEN speech ELSE AtScene(s)
  OBVIOUS
<1>7. ns \in SUBSET AtScene(s) /\ (ns # {} <=> AtScene(s) # {}) /\ Chosen(AtScene(s)) = Highest(ns)
  BY <1>6 DEF Chosen
<1> HIDE DEF speech
<1>8. RawScores(entry) = {listed[n].score : n \in ns}
  BY <1>3, <1>4, <1>5, <1>6
<1>9. RawScores(entry) # {} <=> s \in ListedScenes
  BY <1>1, <1>7, <1>8
<1>10. ASSUME s \in ListedScenes
       PROVE  Max(RawScores(entry)) = SceneScore(s)
  <2>1. ns # {} /\ ns \in SUBSET DOMAIN listed
    BY <1>1, <1>7, <1>10
  <2>2. Highest(ns) \in ns /\ \A m \in ns : listed[Highest(ns)].score >= listed[m].score
    BY <2>1, HighestIs
  <2>3. RawScores(entry) \in SUBSET Int
    BY <1>2, <1>7, <1>8
  <2>4. SceneScore(s) = listed[Highest(ns)].score
    BY <1>7 DEF SceneScore
  <2>5. SceneScore(s) \in RawScores(entry) /\ \A y \in RawScores(entry) : SceneScore(s) >= y
    BY <1>8, <2>2, <2>4
  <2> QED
    BY <2>3, <2>5, MaxIs
<1> QED
  BY <1>9, <1>10 DEF entry

\* The items found, the scenes listed, what each is worth, and which one a hit is.
FoundItems == {found["content_items"][i].row : i \in DOMAIN found["content_items"]}
ItemEntries == {<<"item", c>> : c \in FoundItems}
SceneEntries == {<<"scene", s>> : s \in ListedScenes}
Raw == [entry \in SceneEntries \cup ItemEntries |-> Max(RawScores(entry))]
EntryOf(h) == IF h.source = "content_items" THEN <<"item", h.item>> ELSE Key(h)

ItemHits == DOMAIN listed \ SceneStreams

LEMMA ItemHitIs ==
  ASSUME Listing, NEW n \in ItemHits
  PROVE  /\ n \in DOMAIN listed /\ listed[n].source = "content_items"
         /\ listed[n] \in Hits
         /\ \E i \in DOMAIN found["content_items"] :
              /\ found["content_items"][i].row = listed[n].item
              /\ found["content_items"][i].score = listed[n].score
              /\ i - 1 = listed[n].rank
<1>1. n \in DOMAIN listed /\ listed[n].source = "content_items"
  BY DEF ItemHits, SceneStreams
<1>2. PICK i \in DOMAIN found["content_items"] :
        HitFor(listed[n], "content_items", found["content_items"][i].row,
               found["content_items"][i].score, i - 1)
  BY <1>1, ListedAre
<1> QED
  BY <1>1, <1>2 DEF HitFor

\* The hits of items are of different items, the best first, and of all that were found.
LEMMA ItemHitsAre ==
  ASSUME Listing
  PROVE  /\ \A n, m \in ItemHits : n < m =>
              listed[n].item # listed[m].item /\ listed[n].score >= listed[m].score
         /\ \A c \in FoundItems : \E n \in ItemHits : listed[n].item = c
         /\ \A n \in ItemHits : listed[n].item \in FoundItems
<1> DEFINE a == found["content_items"]
<1>0. "content_items" \in Streams /\ "content_items" \notin Speech
  BY DEF Streams, Speech
<1>1. \A i, k \in DOMAIN a : i < k => a[i].row # a[k].row /\ a[i].score >= a[k].score
  <2>1. AnswerOf(found["content_items"], "content_items")
    BY <1>0, AnswerParts DEF Listing
  <2> QED
    BY <2>1 DEF AnswerOf
<1>2. DOMAIN a \in SUBSET Int
  <2>1. AnswerOf(found["content_items"], "content_items")
    BY <1>0, AnswerParts DEF Listing
  <2>2. DOMAIN a = 1..Len(a) /\ Len(a) \in Nat
    BY <2>1, SequenceParts DEF AnswerOf
  <2> QED
    BY <2>2
<1>3. ASSUME NEW n \in ItemHits, NEW m \in ItemHits, n < m
      PROVE  listed[n].item # listed[m].item /\ listed[n].score >= listed[m].score
  <2>1. PICK i \in DOMAIN a : a[i].row = listed[n].item /\ a[i].score = listed[n].score /\ i - 1 = listed[n].rank
    BY ItemHitIs
  <2>2. PICK k \in DOMAIN a : a[k].row = listed[m].item /\ a[k].score = listed[m].score /\ k - 1 = listed[m].rank
    BY ItemHitIs
  <2>3. listed[n].rank < listed[m].rank
    BY <1>0, <1>3, ItemHitIs DEF Listing
  <2>4. i \in Int /\ k \in Int
    BY <1>2
  <2>5. i < k
    BY <2>1, <2>2, <2>3, <2>4
  <2> QED
    BY <1>1, <2>1, <2>2, <2>5
<1>4. ASSUME NEW c \in FoundItems
      PROVE  \E n \in ItemHits : listed[n].item = c
  <2>1. PICK i \in DOMAIN found["content_items"] : found["content_items"][i].row = c
    BY DEF FoundItems
  <2>2. PICK key \in RowKeys("content_items", found["content_items"][i].row) : TRUE
    BY DEF RowKeys, Speech
  <2>3. PICK n \in DOMAIN listed :
          HitFor(listed[n], "content_items", found["content_items"][i].row,
                 found["content_items"][i].score, i - 1)
    BY <1>0, <2>1, <2>2, ListedAre
  <2>4. listed[n].item = c /\ listed[n].source = "content_items"
    BY <2>1, <2>3 DEF HitFor
  <2> QED
    BY <2>4 DEF ItemHits, SceneStreams
<1>5. \A n \in ItemHits : listed[n].item \in FoundItems
  BY ItemHitIs DEF FoundItems
<1> QED
  BY <1>3, <1>4, <1>5

\* An item is worth the score of its hit.
LEMMA ItemIsWorth ==
  ASSUME Listing, NEW n \in ItemHits
  PROVE  Max(RawScores(<<"item", listed[n].item>>)) = listed[n].score
<1> DEFINE a == found["content_items"]
<1>1. PICK c \in ItemIds, x \in Int : c = listed[n].item /\ x = listed[n].score
  <2>1. listed[n] \in Hits
    BY ItemHitIs
  <2> QED
    BY <2>1 DEF Hits
<1>2. PICK i \in DOMAIN a : a[i].row = c /\ a[i].score = x
  BY <1>1, ItemHitIs
<1>3. "content_items" \in Streams
  BY DEF Streams
<1>4. AnswerOf(found["content_items"], "content_items")
  BY <1>3, AnswerParts DEF Listing
<1>5. \A j \in DOMAIN a : a[j].row = c => j = i
  <2>1. DOMAIN a = 1..Len(a) /\ Len(a) \in Nat
    BY <1>4, SequenceParts DEF AnswerOf
  <2>2. \A j, k \in DOMAIN a : j < k => a[j].row # a[k].row
    BY <1>4 DEF AnswerOf
  <2> QED
    BY <1>2, <2>1, <2>2
<1>6. RawScores(<<"item", c>>) = {a[j].score : j \in {j \in DOMAIN a : a[j].row = c}}
  BY DEF RawScores
<1> HIDE DEF a
<1>7. RawScores(<<"item", c>>) = {x}
  BY <1>2, <1>5, <1>6
<1>8. Max({x}) = x
  BY MaxIs
<1> QED
  BY <1>1, <1>7, <1>8

\* Scenes and items that are offered are worth a number.
LEMMA RawIs ==
  ASSUME Listing, ~SceneLess
  PROVE  /\ \A s \in ListedScenes : s \in DOMAIN Scene /\ Raw[<<"scene", s>>] = SceneScore(s)
         /\ \A n \in ItemHits : <<"item", listed[n].item>> \in ItemEntries
                                /\ Raw[<<"item", listed[n].item>>] = listed[n].score
         /\ Values(SceneEntries \cup ItemEntries, Raw)
         /\ IsFiniteSet(SceneEntries \cup ItemEntries)
<1>1. \A s \in ListedScenes : s \in DOMAIN Scene
  BY SceneStreamsAre DEF SceneIds
<1>2. ASSUME NEW s \in ListedScenes
      PROVE  Raw[<<"scene", s>>] = SceneScore(s) /\ SceneScore(s) \in Int
  <2>1. <<"scene", s>> \in SceneEntries
    BY DEF SceneEntries
  <2>2. Raw[<<"scene", s>>] = Max(RawScores(<<"scene", s>>))
    BY <2>1 DEF Raw
  <2>3. listed[Chosen(AtScene(s))] \in Hits
    BY SceneHitIs
  <2>4. SceneScore(s) \in Int
    BY <2>3 DEF SceneScore, Hits
  <2> QED
    BY <1>1, <2>2, <2>4, SceneIsWorth
<1>3. ASSUME NEW n \in ItemHits
      PROVE  /\ <<"item", listed[n].item>> \in ItemEntries
             /\ Raw[<<"item", listed[n].item>>] = listed[n].score /\ listed[n].score \in Int
  <2>1. <<"item", listed[n].item>> \in ItemEntries
    BY ItemHitsAre DEF ItemEntries
  <2>2. Raw[<<"item", listed[n].item>>] = Max(RawScores(<<"item", listed[n].item>>))
    BY <2>1 DEF Raw
  <2>3. listed[n] \in Hits
    BY ItemHitIs
  <2>4. listed[n].score \in Int
    BY <2>3 DEF Hits
  <2> QED
    BY <2>1, <2>2, <2>4, ItemIsWorth
<1>4. ASSUME NEW x \in SceneEntries \cup ItemEntries
      PROVE  Raw[x] \in Int
  <2>1. CASE x \in SceneEntries
    <3>1. PICK s \in ListedScenes : x = <<"scene", s>>
      BY <2>1 DEF SceneEntries
    <3> QED
      BY <1>2, <3>1
  <2>2. CASE x \in ItemEntries
    <3>1. PICK c \in FoundItems : x = <<"item", c>>
      BY <2>2 DEF ItemEntries
    <3>2. PICK n \in ItemHits : listed[n].item = c
      BY ItemHitsAre
    <3> QED
      BY <1>3, <3>1, <3>2
  <2> QED
    BY <2>1, <2>2
<1>5. IsFiniteSet(SceneEntries)
  <2> DEFINE f == [s \in ListedScenes |-> <<"scene", s>>]
  <2>1. SceneEntries = {f[s] : s \in ListedScenes}
    BY DEF SceneEntries
  <2> HIDE DEF f
  <2>2. IsFiniteSet(ListedScenes)
    BY SceneStreamsAre
  <2> QED
    BY <2>1, <2>2, ImageFinite
<1>6. IsFiniteSet(ItemEntries)
  <2> DEFINE a == found["content_items"]
             f == [i \in DOMAIN a |-> <<"item", a[i].row>>]
  <2>1. ItemEntries = {f[i] : i \in DOMAIN a}
    BY DEF ItemEntries, FoundItems
  <2>2. AnswerOf(found["content_items"], "content_items")
    BY AnswerParts DEF Listing, Streams
  <2>3. DOMAIN a = 1..Len(a) /\ Len(a) \in Nat
    BY <2>2, SequenceParts DEF AnswerOf
  <2>4. IsFiniteSet(DOMAIN a)
    BY <2>3, UpTo
  <2> HIDE DEF f, a
  <2> QED
    BY <2>1, <2>4, ImageFinite
<1> QED
  BY <1>1, <1>2, <1>3, <1>4, <1>5, <1>6, FS_Union DEF Values

\* Offered are the scenes listed and the items found.
LEMMA OfferedAre ==
  ASSUME Listing, ~SceneLess, ~Fuses
  PROVE  /\ Offered = SceneEntries \cup ItemEntries
         /\ \A entry \in Offered : Value(entry) = Raw[entry]
<1>1. ASSUME NEW s \in DOMAIN Scene
      PROVE  RawScores(<<"scene", s>>) # {} <=> <<"scene", s>> \in SceneEntries
  <2>1. <<"scene", s>> \in SceneEntries <=> s \in ListedScenes
    BY DEF SceneEntries
  <2> QED
    BY <2>1, SceneIsWorth
<1>2. ASSUME NEW c
      PROVE  RawScores(<<"item", c>>) # {} <=> <<"item", c>> \in ItemEntries
  BY DEF RawScores, ItemEntries, FoundItems
<1>3. \A c \in FoundItems : c \in DOMAIN Item
  <2>1. "content_items" \in Streams /\ RowsOf("content_items") = DOMAIN Item
    BY DEF Streams, RowsOf
  <2>2. AnswerOf(found["content_items"], "content_items")
    BY <2>1, AnswerParts DEF Listing
  <2>3. \A i \in DOMAIN found["content_items"] : found["content_items"][i] \in Rows("content_items")
    BY <2>2, SequenceParts DEF AnswerOf
  <2> QED
    BY <2>1, <2>3 DEF FoundItems, Rows
<1>4. ASSUME NEW entry \in Offered
      PROVE  entry \in SceneEntries \cup ItemEntries
  <2>1. /\ entry \in ({"scene"} \X DOMAIN Scene) \cup ({"item"} \X DOMAIN Item)
        /\ RawScores(entry) # {}
    BY DEF Offered
  <2>2. CASE entry \in {"scene"} \X DOMAIN Scene
    <3>1. PICK s \in DOMAIN Scene : entry = <<"scene", s>>
      BY <2>2
    <3> QED
      BY <1>1, <2>1, <3>1
  <2>3. CASE entry \in {"item"} \X DOMAIN Item
    <3>1. PICK c \in DOMAIN Item : entry = <<"item", c>>
      BY <2>3
    <3> QED
      BY <1>2, <2>1, <3>1
  <2> QED
    BY <2>1, <2>2, <2>3
<1>5. ASSUME NEW entry \in SceneEntries \cup ItemEntries
      PROVE  entry \in Offered
  <2>1. CASE entry \in SceneEntries
    <3>1. PICK s \in ListedScenes : entry = <<"scene", s>>
      BY <2>1 DEF SceneEntries
    <3>2. s \in DOMAIN Scene
      BY RawIs
    <3>3. RawScores(entry) # {}
      BY <1>1, <2>1, <3>1, <3>2
    <3> QED
      BY <3>1, <3>2, <3>3 DEF Offered
  <2>2. CASE entry \in ItemEntries
    <3>1. PICK c \in FoundItems : entry = <<"item", c>>
      BY <2>2 DEF ItemEntries
    <3>2. c \in DOMAIN Item
      BY <1>3
    <3>3. RawScores(entry) # {}
      BY <1>2, <2>2, <3>1
    <3> QED
      BY <3>1, <3>2, <3>3 DEF Offered
  <2> QED
    BY <2>1, <2>2
<1>6. Offered = SceneEntries \cup ItemEntries
  BY <1>4, <1>5
<1> QED
  BY <1>6 DEF Value, Raw

\* The hits hs are the best top_k of E, and have the scores of what they are of.
BestHits(hs, E) ==
  /\ hs \in Seq(Hits)
  /\ BestOf([i \in DOMAIN hs |-> EntryOf(hs[i])], Len(hs), topK, E, Raw)
  /\ \A i \in DOMAIN hs : hs[i].score = Raw[EntryOf(hs[i])]

\* All of E in order, cut at top_k.
LEMMA BestWhenListed ==
  ASSUME NEW E, NEW V, NEW e, NEW N, Falls(e, N, E, V), \A x \in E : Lists(e, N, x),
         NEW k \in Nat, NEW n, n = (IF k <= N THEN k ELSE N),
         NEW d, \A i \in 1..n : d[i] = e[i]
  PROVE  BestOf(d, n, k, E, V)
<1>1. /\ N \in Nat /\ n \in Nat /\ n <= N /\ n <= k /\ (n # k => n = N)
      /\ \A i \in 1..n : i \in 1..N
  BY DEF Falls
<1>2. Falls(d, n, E, V)
  BY <1>1 DEF Falls
<1>3. \A x \in E : Lists(e, n, x) \/ (n = k /\ \A i \in 1..n : V[e[i]] >= V[x])
  BY FirstAreBest
<1>4. \A x \in E : Lists(d, n, x) <=> Lists(e, n, x)
  BY DEF Lists
<1> QED
  BY <1>1, <1>2, <1>3, <1>4 DEF BestOf

LEMMA FlatIsBest ==
  ASSUME Listing, Request, ~SceneLess
  PROVE  /\ BestHits(Flat, SceneEntries)
         /\ \A i \in DOMAIN Flat : Flat[i].source # "content_items"
<1> DEFINE N == Len(SceneOrder)
           e == [i \in 1..N |-> <<"scene", SceneOrder[i]>>]
           d == [i \in DOMAIN Flat |-> EntryOf(Flat[i])]
<1>0. topK \in Nat /\ 0 \notin ListedScenes
  BY SearchAssumption, SceneStreamsAre DEF Request
<1>1. /\ DOMAIN SceneOrder = 1..N /\ N \in Nat /\ \A i \in 1..N : SceneOrder[i] \in ListedScenes
      /\ \A s \in ListedScenes : \E i \in 1..N : SceneOrder[i] = s
      /\ \A i, k \in 1..N : i < k => /\ SceneOrder[i] # SceneOrder[k]
                                     /\ SceneScore(SceneOrder[i]) >= SceneScore(SceneOrder[k])
  BY SceneOrderIs, SequenceParts
<1>2. /\ Flat \in Seq(Hits) /\ DOMAIN Flat = 1..Len(Flat) /\ Len(Flat) \in Nat
      /\ Len(Flat) = IF topK <= N THEN topK ELSE N
      /\ \A i \in DOMAIN Flat : Flat[i] = listed[Chosen(AtScene(SceneOrder[i]))]
  BY <1>0, FlatIs
<1> HIDE DEF N
<1>3. \A i \in DOMAIN Flat : i \in 1..N
  BY <1>0, <1>1, <1>2
<1>4. \A i \in 1..N : e[i] \in SceneEntries /\ Raw[e[i]] = SceneScore(SceneOrder[i])
  BY <1>1, RawIs DEF SceneEntries
<1>5. \A i, k \in 1..N : i < k => e[i] # e[k] /\ Raw[e[i]] >= Raw[e[k]]
  <2> SUFFICES ASSUME NEW i \in 1..N, NEW k \in 1..N, i < k
               PROVE  e[i] # e[k] /\ Raw[e[i]] >= Raw[e[k]]
    OBVIOUS
  <2>1. e[i] # e[k]
    BY <1>1
  <2> HIDE DEF e
  <2> QED
    BY <1>1, <1>4, <2>1
<1>6. \A x \in SceneEntries : Lists(e, N, x)
  BY <1>1 DEF SceneEntries, Lists
<1>7. ASSUME NEW i \in DOMAIN Flat
      PROVE  /\ d[i] = e[i] /\ Flat[i].source # "content_items"
             /\ Flat[i].score = Raw[EntryOf(Flat[i])]
  <2>1. PICK s \in ListedScenes : s = SceneOrder[i] /\ e[i] = <<"scene", s>>
    BY <1>1, <1>3
  <2>2. Flat[i] = listed[Chosen(AtScene(s))] /\ Chosen(AtScene(s)) \in SceneStreams /\ Flat[i].scene = s
    BY <1>2, <2>1, SceneHitIs
  <2>3. Flat[i].source # "content_items" /\ s # 0
    BY <1>0, <2>2 DEF SceneStreams
  <2>4. EntryOf(Flat[i]) = <<"scene", s>>
    BY <2>2, <2>3 DEF EntryOf, Key
  <2>5. Flat[i].score = SceneScore(s)
    BY <2>2 DEF SceneScore
  <2> QED
    BY <2>1, <2>3, <2>4, <2>5, RawIs
<1> HIDE DEF e, d
<1>8. Falls(e, N, SceneEntries, Raw)
  BY <1>1, <1>4, <1>5 DEF Falls
<1>9. BestOf(d, Len(Flat), topK, SceneEntries, Raw)
  BY <1>0, <1>2, <1>6, <1>7, <1>8, BestWhenListed
<1> QED
  BY <1>2, <1>7, <1>9 DEF BestHits, d

LEMMA VectorIsBest ==
  ASSUME Listing, Request, ~SceneLess
  PROVE  /\ BestHits(Vector, SceneEntries)
         /\ \A i \in DOMAIN Vector : Vector[i].source # "content_items"
<1> DEFINE d == [i \in DOMAIN Vector |-> EntryOf(Vector[i])]
           e == [i \in DOMAIN Flat |-> EntryOf(Flat[i])]
<1>1. BestHits(Flat, SceneEntries) /\ \A i \in DOMAIN Flat : Flat[i].source # "content_items"
  BY FlatIsBest
<1>2. /\ Flat \in Seq(Hits) /\ DOMAIN Flat = 1..Len(Flat) /\ Len(Flat) \in Nat
      /\ Vector \in Seq(Hits) /\ DOMAIN Vector = 1..Len(Vector) /\ Len(Vector) \in Nat
  BY FlatIs, VectorIs
<1>3. DOMAIN Vector = DOMAIN Flat
  BY DEF Vector
<1>4. Len(Vector) = Len(Flat)
  <2>1. Cardinality(1..Len(Vector)) = Len(Vector) /\ Cardinality(1..Len(Flat)) = Len(Flat)
    BY <1>2, UpTo
  <2>2. 1..Len(Vector) = 1..Len(Flat)
    BY <1>2, <1>3
  <2> QED
    BY <2>1, <2>2
<1>5. ASSUME NEW i \in DOMAIN Flat
      PROVE  /\ EntryOf(Vector[i]) = EntryOf(Flat[i]) /\ Vector[i].score = Flat[i].score
             /\ Vector[i].source = Flat[i].source
  <2>1. Flat[i] \in Hits /\ Vector[i] = Visual(SceneTimed(Flat[i]))
    BY <1>2, SequenceParts DEF Vector
  <2>2. MadeOf(Vector[i], Flat[i], Flat[i].score, Flat[i].frame)
    BY <2>1, TimedHit
  <2> QED
    BY <2>2 DEF MadeOf, EntryOf
<1>6. d = e
  BY <1>3, <1>5
<1>7. \A i \in DOMAIN Vector : Vector[i].score = Raw[EntryOf(Vector[i])]
  BY <1>1, <1>3, <1>5 DEF BestHits
<1>8. BestOf(e, Len(Flat), topK, SceneEntries, Raw)
  BY <1>1 DEF BestHits
<1> HIDE DEF d, e
<1>9. BestOf(d, Len(Vector), topK, SceneEntries, Raw)
  BY <1>4, <1>6, <1>8
<1> QED
  BY <1>1, <1>2, <1>3, <1>5, <1>7, <1>9 DEF BestHits, d

\* The hits of items, cut before they are merged.
Merged == First(topK, Places(listed, ItemHits))

LEMMA ItemsAreBest ==
  ASSUME Listing, Request, ~SceneLess
  PROVE  /\ BestHits(Merged, ItemEntries)
         /\ \A i \in DOMAIN Merged : Merged[i].source = "content_items"
<1> DEFINE N == Cardinality(ItemHits)
           at == InOrder(ItemHits)
           all == Places(listed, ItemHits)
           e == [i \in 1..N |-> <<"item", listed[at[i]].item>>]
           d == [i \in DOMAIN Merged |-> EntryOf(Merged[i])]
<1>0. topK \in Nat
  BY SearchAssumption DEF Request
<1>1. IsFiniteSet(ItemHits) /\ ItemHits \in SUBSET Int
  <2>1. DOMAIN listed = 1..Len(listed) /\ Len(listed) \in Nat
    BY ListedAre
  <2>2. ItemHits \in SUBSET (1..Len(listed))
    BY <2>1 DEF ItemHits
  <2> QED
    BY <2>1, <2>2, PlacesFinite
<1>2. /\ DOMAIN at = 1..N /\ N \in Nat
      /\ \A i \in 1..N : at[i] \in ItemHits
      /\ \A n \in ItemHits : \E i \in 1..N : at[i] = n
      /\ \A i, k \in 1..N : i < k => at[i] < at[k]
  BY <1>1, InOrderEnumerates
<1>3. all = [i \in 1..N |-> listed[at[i]]]
  BY <1>2 DEF Places
<1> HIDE DEF N, at
<1>4. \A i \in 1..N : all[i] = listed[at[i]] /\ all[i] \in Hits
  BY <1>2, <1>3, ItemHitIs
<1>5. all \in Seq(Hits) /\ Len(all) = N
  <2>1. all \in [1..N -> Hits]
    BY <1>3, <1>4
  <2> HIDE DEF all
  <2> QED
    BY <1>2, <2>1, IsSequence
<1> HIDE DEF all
<1>6. /\ Merged \in Seq(Hits) /\ Len(Merged) = (IF topK <= N THEN topK ELSE N)
      /\ \A i \in 1..Len(Merged) : Merged[i] = all[i]
  BY <1>0, <1>5, FirstParts DEF Merged, all
<1>7. DOMAIN Merged = 1..Len(Merged) /\ \A i \in 1..Len(Merged) : i \in 1..N
  BY <1>0, <1>2, <1>6, SequenceParts
<1>8. \A i \in 1..N : e[i] \in ItemEntries /\ Raw[e[i]] = listed[at[i]].score
  BY <1>2, RawIs
<1>9. ASSUME NEW i \in 1..N, NEW k \in 1..N, i < k
      PROVE  e[i] # e[k] /\ Raw[e[i]] >= Raw[e[k]]
  <2>1. at[i] \in ItemHits /\ at[k] \in ItemHits /\ at[i] < at[k]
    BY <1>2, <1>9
  <2>2. listed[at[i]].item # listed[at[k]].item /\ listed[at[i]].score >= listed[at[k]].score
    BY <2>1, ItemHitsAre
  <2>3. e[i] # e[k]
    BY <2>2
  <2> HIDE DEF e
  <2> QED
    BY <1>8, <2>2, <2>3
<1>10. ASSUME NEW x \in ItemEntries
       PROVE  Lists(e, N, x)
  <2>1. PICK c \in FoundItems : x = <<"item", c>>
    BY DEF ItemEntries
  <2>2. PICK n \in ItemHits : listed[n].item = c
    BY ItemHitsAre
  <2>3. PICK i \in 1..N : at[i] = n
    BY <1>2
  <2> QED
    BY <2>1, <2>2, <2>3 DEF Lists
<1>11. ASSUME NEW i \in DOMAIN Merged
       PROVE  /\ d[i] = e[i] /\ Merged[i].source = "content_items"
              /\ Merged[i].score = Raw[EntryOf(Merged[i])]
  <2>1. Merged[i] = listed[at[i]] /\ at[i] \in ItemHits /\ i \in 1..N
    BY <1>2, <1>4, <1>6, <1>7
  <2>2. Merged[i].source = "content_items"
    BY <2>1, ItemHitIs
  <2>3. EntryOf(Merged[i]) = e[i]
    BY <2>1, <2>2 DEF EntryOf
  <2> QED
    BY <1>8, <2>1, <2>2, <2>3
<1> HIDE DEF e, d
<1>12. Falls(e, N, ItemEntries, Raw)
  BY <1>2, <1>8, <1>9 DEF Falls
<1>13. BestOf(d, Len(Merged), topK, ItemEntries, Raw)
  BY <1>0, <1>6, <1>7, <1>10, <1>11, <1>12, BestWhenListed
<1> QED
  BY <1>6, <1>11, <1>13 DEF BestHits, d

\* The two parts sorted by score: each entry once, and every hit of both.
LEMMA SortedIs ==
  ASSUME Listing, Request, ~SceneLess
  PROVE  /\ Sorted \in Seq(Hits) /\ Len(Sorted) \in Nat
         /\ Falls([i \in DOMAIN Sorted |-> EntryOf(Sorted[i])], Len(Sorted),
                  SceneEntries \cup ItemEntries, Raw)
         /\ \A i \in DOMAIN Sorted : Sorted[i].score = Raw[EntryOf(Sorted[i])]
         /\ \A h \in {Flat[i] : i \in DOMAIN Flat} \cup {Merged[i] : i \in DOMAIN Merged} :
              \E i \in DOMAIN Sorted : Sorted[i] = h
<1> DEFINE both == Flat \o Merged
           score == [i \in DOMAIN both |-> both[i].score]
           place == [i \in DOMAIN both |-> i]
           order == ByScore(DOMAIN both, score, place)
           E == SceneEntries \cup ItemEntries
           f == Len(Flat)
           m == Len(Merged)
           N == f + m
           d == [i \in DOMAIN Sorted |-> EntryOf(Sorted[i])]
<1>1. /\ Flat \in Seq(Hits) /\ DOMAIN Flat = 1..f /\ f \in Nat
      /\ BestOf([i \in DOMAIN Flat |-> EntryOf(Flat[i])], f, topK, SceneEntries, Raw)
      /\ \A i \in DOMAIN Flat : Flat[i].score = Raw[EntryOf(Flat[i])]
      /\ \A i \in DOMAIN Flat : Flat[i].source # "content_items"
  BY FlatIsBest, FlatIs DEF BestHits
<1>2. /\ Merged \in Seq(Hits) /\ DOMAIN Merged = 1..m /\ m \in Nat
      /\ BestOf([i \in DOMAIN Merged |-> EntryOf(Merged[i])], m, topK, ItemEntries, Raw)
      /\ \A i \in DOMAIN Merged : Merged[i].score = Raw[EntryOf(Merged[i])]
      /\ \A i \in DOMAIN Merged : Merged[i].source = "content_items"
  BY ItemsAreBest, SequenceParts DEF BestHits
<1>3. both \in Seq(Hits) /\ Len(both) = N /\ \A i \in 1..f : both[i] = Flat[i]
  BY <1>1, <1>2, ConcatParts
<1>4. \A i \in 1..m : both[f + i] = Merged[i]
  BY <1>1, <1>2, ConcatParts
<1> HIDE DEF both
<1>5. DOMAIN both = 1..N /\ N \in Nat
  BY <1>1, <1>2, <1>3, SequenceParts
<1>6. \A i \in 1..f : EntryOf(Flat[i]) \in SceneEntries
  BY <1>1 DEF BestOf, Falls
<1>7. \A i \in 1..m : EntryOf(Merged[i]) \in ItemEntries
  BY <1>2 DEF BestOf, Falls
<1>8. \A i, k \in 1..f : i < k => EntryOf(Flat[i]) # EntryOf(Flat[k])
  BY <1>1 DEF BestOf, Falls
<1>9. \A i, k \in 1..m : i < k => EntryOf(Merged[i]) # EntryOf(Merged[k])
  BY <1>2 DEF BestOf, Falls
<1>10. \A x \in SceneEntries, y \in ItemEntries : x # y
  BY DEF SceneEntries, ItemEntries
<1>11. ASSUME NEW i \in 1..N
       PROVE  /\ both[i] \in Hits
              /\ both[i].score = Raw[EntryOf(both[i])]
              /\ IF i <= f THEN i \in 1..f /\ both[i] = Flat[i] /\ EntryOf(both[i]) \in SceneEntries
                 ELSE i - f \in 1..m /\ both[i] = Merged[i - f] /\ EntryOf(both[i]) \in ItemEntries
  <2>1. both[i] \in Hits
    BY <1>3, <1>5, SequenceParts
  <2>2. CASE i <= f
    <3>1. i \in 1..f
      BY <2>2
    <3> QED
      BY <1>1, <1>3, <1>6, <2>1, <2>2, <3>1
  <2>3. CASE ~(i <= f)
    <3>1. i - f \in 1..m /\ i = f + (i - f)
      BY <1>1, <1>2, <2>3
    <3>2. both[i] = Merged[i - f]
      BY <1>4, <3>1
    <3> QED
      BY <1>2, <1>7, <2>1, <2>3, <3>1, <3>2
  <2> QED
    BY <2>2, <2>3
<1>12. ASSUME NEW i \in 1..N, NEW k \in 1..N, i < k
       PROVE  EntryOf(both[i]) # EntryOf(both[k])
  <2>0. i \in Int /\ k \in Int
    OBVIOUS
  <2>1. CASE i <= f /\ k <= f
    BY <1>8, <1>11, <1>12, <2>1
  <2>2. CASE i <= f /\ ~(k <= f)
    BY <1>10, <1>11, <2>2
  <2>3. CASE ~(i <= f)
    <3>1. ~(k <= f) /\ i - f < k - f
      BY <1>1, <1>12, <2>0, <2>3
    <3>2. /\ i - f \in 1..m /\ both[i] = Merged[i - f]
          /\ k - f \in 1..m /\ both[k] = Merged[k - f]
      BY <1>11, <2>3, <3>1
    <3> QED
      BY <1>9, <3>1, <3>2
  <2> QED
    BY <2>1, <2>2, <2>3
<1>13. IsFiniteSet(DOMAIN both) /\ Cardinality(DOMAIN both) = N
  BY <1>5, UpTo
<1>14. \A i \in DOMAIN both : score[i] = both[i].score /\ score[i] \in Int /\ place[i] \in Int /\ place[i] = i
  <2>1. \A i \in DOMAIN both : both[i].score \in Int
    BY <1>5, <1>11 DEF Hits
  <2> QED
    BY <1>5, <2>1
<1>15. \A i, k \in DOMAIN both : place[i] = place[k] => i = k
  BY <1>14
<1> HIDE DEF score, place
<1>16. /\ DOMAIN order = 1..N
       /\ \A i \in 1..N : order[i] \in DOMAIN both
       /\ \A i \in DOMAIN both : \E k \in 1..N : order[k] = i
       /\ \A i, k \in 1..N : i < k => order[i] # order[k] /\ score[order[i]] >= score[order[k]]
  BY <1>13, <1>14, <1>15, ByScoreEnumerates
<1>17. Sorted = [i \in 1..N |-> both[order[i]]]
  BY <1>16 DEF Sorted, both, Merged, ItemHits, score, place
<1> HIDE DEF order, N
<1>18. \A i \in 1..N : order[i] \in 1..N /\ Sorted[i] = both[order[i]] /\ Sorted[i] \in Hits
  BY <1>5, <1>11, <1>16, <1>17
<1>19. Sorted \in Seq(Hits) /\ Len(Sorted) = N /\ DOMAIN Sorted = 1..N
  <2>1. Sorted \in [1..N -> Hits]
    BY <1>17, <1>18
  <2> QED
    BY <1>5, <2>1, IsSequence
<1>20. \A i \in 1..N : Sorted[i].score = Raw[EntryOf(Sorted[i])] /\ EntryOf(Sorted[i]) \in E
  BY <1>11, <1>18
<1>21. ASSUME NEW i \in 1..N, NEW k \in 1..N, i < k
       PROVE  /\ EntryOf(Sorted[i]) # EntryOf(Sorted[k])
              /\ Raw[EntryOf(Sorted[i])] >= Raw[EntryOf(Sorted[k])]
  <2>1. PICK a \in 1..N, b \in 1..N : a = order[i] /\ b = order[k] /\ a # b /\ score[a] >= score[b]
    BY <1>5, <1>16, <1>21
  <2>2. a < b \/ b < a
    BY <1>5, <2>1
  <2>3. EntryOf(both[a]) # EntryOf(both[b])
    BY <1>12, <2>1, <2>2
  <2>4. both[a].score >= both[b].score
    BY <1>5, <1>14, <2>1
  <2>5. Sorted[i] = both[a] /\ Sorted[k] = both[b]
    BY <1>18, <2>1
  <2> QED
    BY <1>11, <2>3, <2>4, <2>5
<1>22. Falls(d, N, E, Raw)
  <2>1. \A i \in 1..N : d[i] = EntryOf(Sorted[i])
    BY <1>19
  <2> HIDE DEF d, E
  <2> QED
    BY <1>5, <1>20, <1>21, <2>1 DEF Falls
<1>23. ASSUME NEW j \in 1..N
       PROVE  \E i \in DOMAIN Sorted : Sorted[i] = both[j]
  <2>1. PICK i \in 1..N : order[i] = j
    BY <1>5, <1>16
  <2>2. Sorted[i] = both[j] /\ i \in DOMAIN Sorted
    BY <1>18, <1>19, <2>1
  <2> QED
    BY <2>2
<1>24. \A j \in DOMAIN Flat : \E i \in DOMAIN Sorted : Sorted[i] = Flat[j]
  <2> SUFFICES ASSUME NEW j \in 1..f
               PROVE  \E i \in DOMAIN Sorted : Sorted[i] = Flat[j]
    BY <1>1
  <2>1. j \in 1..N /\ both[j] = Flat[j]
    BY <1>1, <1>2, <1>3 DEF N
  <2> QED
    BY <1>23, <2>1
<1>25. \A j \in DOMAIN Merged : \E i \in DOMAIN Sorted : Sorted[i] = Merged[j]
  <2> SUFFICES ASSUME NEW j \in 1..m
               PROVE  \E i \in DOMAIN Sorted : Sorted[i] = Merged[j]
    BY <1>2
  <2>1. f + j \in 1..N /\ both[f + j] = Merged[j]
    BY <1>1, <1>2, <1>4 DEF N
  <2> QED
    BY <1>23, <2>1
<1> QED
  BY <1>5, <1>19, <1>20, <1>22, <1>24, <1>25

\* What is answered of the two parts is the best of both, though each was cut before.
LEMMA FtsIsBest ==
  ASSUME Listing, Request, ~SceneLess
  PROVE  BestHits(Fts, SceneEntries \cup ItemEntries)
<1> DEFINE E == SceneEntries \cup ItemEntries
           N == Len(Sorted)
           n == Len(Fts)
           e == [i \in DOMAIN Sorted |-> EntryOf(Sorted[i])]
           d1 == [i \in DOMAIN Flat |-> EntryOf(Flat[i])]
           d2 == [i \in DOMAIN Merged |-> EntryOf(Merged[i])]
           d == [i \in DOMAIN Fts |-> EntryOf(Fts[i])]
<1>0. topK \in Nat
  BY SearchAssumption DEF Request
<1>1. /\ Sorted \in Seq(Hits) /\ N \in Nat /\ DOMAIN Sorted = 1..N
      /\ Falls(e, N, E, Raw)
      /\ \A i \in DOMAIN Sorted : Sorted[i].score = Raw[EntryOf(Sorted[i])]
      /\ \A h \in {Flat[i] : i \in DOMAIN Flat} \cup {Merged[i] : i \in DOMAIN Merged} :
           \E i \in DOMAIN Sorted : Sorted[i] = h
  BY SortedIs, SequenceParts
<1>2. /\ Fts \in Seq(Hits) /\ DOMAIN Fts = 1..n /\ n = (IF topK <= N THEN topK ELSE N)
      /\ \A i \in 1..n : Fts[i] = Sorted[i]
  BY <1>0, <1>1, FirstParts, SequenceParts DEF Fts
<1>3. \A i \in DOMAIN Fts : i \in DOMAIN Sorted
  BY <1>0, <1>1, <1>2
<1>4. BestOf(d1, Len(Flat), topK, SceneEntries, Raw) /\ DOMAIN Flat = 1..Len(Flat)
  BY FlatIsBest, FlatIs DEF BestHits
<1>5. BestOf(d2, Len(Merged), topK, ItemEntries, Raw) /\ DOMAIN Merged = 1..Len(Merged)
  BY ItemsAreBest, SequenceParts DEF BestHits
<1>6. ListsAll(e, N, d1, Len(Flat))
  <2> SUFFICES ASSUME NEW j \in DOMAIN Flat
               PROVE  \E i \in 1..N : e[i] = EntryOf(Flat[j])
    BY <1>4 DEF ListsAll, Lists
  <2>1. PICK i \in DOMAIN Sorted : Sorted[i] = Flat[j]
    BY <1>1
  <2>2. e[i] = EntryOf(Flat[j])
    BY <2>1
  <2> QED
    BY <1>1, <2>2
<1>7. ListsAll(e, N, d2, Len(Merged))
  <2> SUFFICES ASSUME NEW j \in DOMAIN Merged
               PROVE  \E i \in 1..N : e[i] = EntryOf(Merged[j])
    BY <1>5 DEF ListsAll, Lists
  <2>1. PICK i \in DOMAIN Sorted : Sorted[i] = Merged[j]
    BY <1>1
  <2>2. e[i] = EntryOf(Merged[j])
    BY <2>1
  <2> QED
    BY <1>1, <2>2
<1>8. \A i \in 1..n : d[i] = e[i]
  BY <1>2, <1>3
<1>9. \A i \in DOMAIN Fts : Fts[i].score = Raw[EntryOf(Fts[i])]
  BY <1>1, <1>2, <1>3
<1>10. Values(E, Raw)
  BY RawIs
<1>11. SceneEntries \in SUBSET E /\ ItemEntries \in SUBSET E
       /\ \A x \in E : x \in SceneEntries \/ x \in ItemEntries
  OBVIOUS
<1> HIDE DEF E, N, n, e, d1, d2, d
<1>12. BestOf(e, n, topK, E, Raw)
  BY <1>0, <1>1, <1>2, <1>4, <1>5, <1>6, <1>7, <1>10, <1>11, BestOfBoth
<1>13. BestOf(d, n, topK, E, Raw)
  BY <1>8, <1>12 DEF BestOf, Falls, Lists
<1> QED
  BY <1>2, <1>9, <1>13 DEF BestHits, E, n, d

-----------------------------------------------------------------------------
(* The answer of every mode is the best of what there is.                  *)

\* BestMatchesAnswered, for an answer made of the best of what is offered.
LEMMA BestIsAnswered ==
  ASSUME NEW V, \A x \in Offered : V[x] = Value(x), IsFiniteSet(Offered), topK \in Nat,
         DOMAIN base = 1..Len(base), NEW e, BestOf(e, Len(base), topK, Offered, V),
         \A i \in DOMAIN base : e[i] = Entry(base[i]) /\ base[i].score = V[Entry(base[i])]
  PROVE  BestMatchesAnswered
<1>1. Len(base) = Min({topK, Cardinality(Offered)})
  BY BestCounts
<1>2. ASSUME NEW i \in DOMAIN base
      PROVE  Entry(base[i]) \in Offered /\ base[i].score = Value(Entry(base[i]))
  <2>1. e[i] \in Offered
    BY DEF BestOf, Falls
  <2> QED
    BY <2>1
<1>3. ASSUME NEW i \in DOMAIN base, NEW k \in DOMAIN base, i < k
      PROVE  Entry(base[i]) # Entry(base[k]) /\ base[i].score >= base[k].score
  <2>1. e[i] # e[k] /\ V[e[i]] >= V[e[k]]
    BY <1>3 DEF BestOf, Falls
  <2>2. /\ e[i] = Entry(base[i]) /\ base[i].score = V[e[i]]
        /\ e[k] = Entry(base[k]) /\ base[k].score = V[e[k]]
    OBVIOUS
  <2> QED
    BY <2>1, <2>2
<1>4. ASSUME NEW entry \in Offered \ {Entry(base[i]) : i \in DOMAIN base}, NEW i \in DOMAIN base
      PROVE  base[i].score >= Value(entry)
  <2>1. ~Lists(e, Len(base), entry)
    BY <1>4 DEF Lists
  <2>2. V[e[i]] >= V[entry]
    BY <2>1 DEF BestOf
  <2>3. base[i].score = V[e[i]] /\ V[entry] = Value(entry)
    OBVIOUS
  <2> QED
    BY <2>2, <2>3
<1> QED
  BY <1>1, <1>2, <1>3, <1>4 DEF BestMatchesAnswered

\* However the streams answer, an answer is the best of what they found, each entry
\* once and worth what its best rows are worth: in every mode, and although fts and
\* vector cut, merge and cut again, and hybrid cuts what it has fused.
THEOREM AnswersAreBest == Spec => []BestMatchesAnswered
<1>1. ASSUME SearchInvariant
      PROVE  BestMatchesAnswered
  <2> USE <1>1
  <2> USE DEF SearchInvariant
  <2> SUFFICES ASSUME Done, Fuses \/ ~SceneLess
               PROVE  BestMatchesAnswered
    BY DEF BestMatchesAnswered
  <2>1. topK \in Nat
    BY SearchAssumption DEF Request
  <2>2. DOMAIN base = 1..Len(base) /\ Len(base) \in Nat
    BY BaseIs
  <2>3. mode \in {"fts", "vector", "hybrid", "hybrid_graph"}
    BY SearchAssumption DEF Request
  <2>4. CASE Fuses
    <3> DEFINE V == [key \in Keys |-> Fused(key)]
               N == Cardinality(Keys)
    <3>1. base = Hybrid
      BY <2>4 DEF Answered, Done, Fuses
    <3>2. Offered = Keys /\ \A key \in Offered : V[key] = Value(key)
      BY <2>4, KeysAreFound, FusedIsDeserved DEF Offered, Value
    <3>3. /\ N \in Nat /\ \A i \in 1..N : KeyOrder[i] \in Keys
          /\ \A key \in Keys : \E i \in 1..N : KeyOrder[i] = key
          /\ \A i, k \in 1..N :
               i < k => KeyOrder[i] # KeyOrder[k] /\ Fused(KeyOrder[i]) >= Fused(KeyOrder[k])
      BY KeyOrderIs
    <3>4. /\ Len(base) = Min({topK, N})
          /\ \A i \in DOMAIN base : i \in 1..N /\ HybridFor(base[i], KeyOrder[i])
      BY <3>1, HybridIs
    <3>5. IsFiniteSet(Offered)
      BY <3>2, KeysAre
    <3> HIDE DEF N
    <3>6. \A i \in 1..N : V[KeyOrder[i]] = Fused(KeyOrder[i])
      BY <3>3
    <3> HIDE DEF V
    <3>7. Falls(KeyOrder, N, Offered, V) /\ \A x \in Offered : Lists(KeyOrder, N, x)
      BY <3>2, <3>3, <3>6 DEF Falls, Lists
    <3>8. Len(base) = IF topK <= N THEN topK ELSE N
      BY <2>1, <3>3, <3>4, MinIs
    <3>9. BestOf(KeyOrder, Len(base), topK, Offered, V)
      BY <2>1, <3>7, <3>8, BestWhenListed
    <3>10. \A i \in DOMAIN base : /\ KeyOrder[i] = Entry(base[i])
                                  /\ base[i].score = V[Entry(base[i])]
      BY <2>4, <3>4, <3>6 DEF HybridFor, Entry
    <3> QED
      BY <2>1, <2>2, <3>2, <3>5, <3>9, <3>10, BestIsAnswered
  <2>5. CASE ~Fuses
    <3> DEFINE e == [i \in DOMAIN base |-> EntryOf(base[i])]
    <3>1. /\ Offered = SceneEntries \cup ItemEntries
          /\ \A entry \in Offered : Raw[entry] = Value(entry)
      BY <2>5, OfferedAre
    <3>2. IsFiniteSet(Offered)
      BY <2>5, <3>1, RawIs
    <3>3. BestHits(base, Offered)
      <4>1. CASE mode = "fts"
        <5>1. base = Fts
          BY <4>1 DEF Answered, Done
        <5> QED
          BY <2>5, <3>1, <5>1, FtsIsBest
      <4>2. CASE mode = "vector"
        <5>1. base = Vector
          BY <4>2 DEF Answered, Done
        <5>2. found["content_items"] = <<>>
          BY <4>2 DEF Listing, Asked, Streams
        <5>3. ItemEntries = {}
          BY <5>2 DEF ItemEntries, FoundItems
        <5>4. Offered = SceneEntries
          BY <3>1, <5>3
        <5> QED
          BY <2>5, <5>1, <5>4, VectorIsBest
      <4> QED
        BY <2>3, <2>5, <4>1, <4>2 DEF Fuses
    <3>4. \A i \in DOMAIN base : e[i] = Entry(base[i]) /\ base[i].score = Raw[Entry(base[i])]
      BY <2>5, <3>3 DEF BestHits, EntryOf, Entry
    <3>5. BestOf(e, Len(base), topK, Offered, Raw)
      BY <3>3 DEF BestHits
    <3> HIDE DEF e
    <3> QED
      BY <2>1, <2>2, <3>1, <3>2, <3>4, <3>5, BestIsAnswered
  <2> QED
    BY <2>4, <2>5
<1> QED
  BY <1>1, InvariantHolds, PTL

-----------------------------------------------------------------------------
(* What the evaluation counts.                                             *)

\* The first n hits that count.
CountedAmong(gold, n) == {i \in 1..n : IsRelevant(hits[i], gold)}

\* What the pass holds after n hits.
TallyOf(C) ==
  [relevant |-> Cardinality(C), first |-> IF C = {} THEN 0 ELSE Min(C),
   stream |-> IF C = {} THEN "" ELSE hits[Min(C)].source]

LEMMA CountedAmongGrows ==
  ASSUME NEW gold, NEW n \in Nat \ {0}
  PROVE  /\ CountedAmong(gold, n - 1) \in SUBSET (1..n - 1)
         /\ CountedAmong(gold, n) =
              IF IsRelevant(hits[n], gold) THEN CountedAmong(gold, n - 1) \cup {n}
              ELSE CountedAmong(gold, n - 1)
<1>1. 1..n = (1..n - 1) \cup {n}
  OBVIOUS
<1> QED
  BY <1>1 DEF CountedAmong

\* A hit that counts makes the tally of one more.
LEMMA TallyGrows ==
  ASSUME NEW n \in Nat \ {0}, NEW C \in SUBSET (1..n - 1)
  PROVE  TallyOf(C \cup {n}) = Counted(TallyOf(C), n)
<1>1. IsFiniteSet(C) /\ C \in SUBSET Int /\ n \notin C
  BY PlacesFinite
<1>2. Cardinality(C \cup {n}) = Cardinality(C) + 1
  BY <1>1, FS_AddElement
<1>3. IsFiniteSet(C \cup {n}) /\ C \cup {n} \in SUBSET Int /\ C \cup {n} # {}
  BY <1>1, FS_AddElement
<1>4. CASE C = {}
  <2>1. Min(C \cup {n}) = n
    BY <1>3, <1>4, MinOf
  <2> QED
    BY <1>2, <1>3, <1>4, <2>1 DEF TallyOf, Counted
<1>5. CASE C # {}
  <2>1. Min(C) \in C /\ \A b \in C : Min(C) <= b
    BY <1>1, <1>5, MinOf
  <2>2. Min(C \cup {n}) \in C \cup {n} /\ \A b \in C \cup {n} : Min(C \cup {n}) <= b
    BY <1>3, MinOf
  <2>3. PICK a \in C, b \in C \cup {n} : a = Min(C) /\ b = Min(C \cup {n})
    BY <2>1, <2>2
  <2>4. a \in 1..n - 1 /\ (b \in 1..n - 1 \/ b = n)
    BY <2>3
  <2>5. a = b
    <3>1. a \in C /\ \A c \in C : a <= c
      BY <2>1, <2>3
    <3>2. b <= a
      BY <2>2, <2>3
    <3>3. b \in C
      BY <2>4, <3>2
    <3> QED
      BY <2>4, <3>1, <3>2, <3>3
  <2>6. Min(C) # 0 /\ Min(C \cup {n}) = Min(C)
    BY <2>3, <2>4, <2>5
  <2> QED
    BY <1>2, <1>3, <1>5, <2>6 DEF TallyOf, Counted
<1> QED
  BY <1>4, <1>5

\* The pass counts the hits that are relevant.
LEMMA ScoreIsTally ==
  ASSUME NEW gold, Len(hits) \in Nat
  PROVE  ScoreHits(gold) = TallyOf(CountedAmong(gold, Len(hits)))
<1> DEFINE L == Len(hits)
           next(g, n) ==
             IF n = 0 THEN Nothing
             ELSE IF IsRelevant(hits[n], gold) THEN Counted(g[n - 1], n) ELSE g[n - 1]
           pass == CHOOSE g : g = [n \in 0..L |-> next(g, n)]
           tally == [n \in 0..L |-> TallyOf(CountedAmong(gold, n))]
<1>1. ScoreHits(gold) = pass[L]
  BY DEF ScoreHits
<1>2. ASSUME NEW n \in 0..L
      PROVE  tally[n] = next(tally, n)
  <2>1. CASE n = 0
    <3>1. CountedAmong(gold, n) = {}
      BY <2>1 DEF CountedAmong
    <3>2. Cardinality({}) = 0
      BY FS_EmptySet
    <3> QED
      BY <2>1, <3>1, <3>2 DEF TallyOf, Nothing
  <2>2. CASE n # 0
    <3>1. n \in Nat \ {0} /\ n - 1 \in 0..L
      BY <2>2
    <3>2. tally[n] = TallyOf(CountedAmong(gold, n)) /\ tally[n - 1] = TallyOf(CountedAmong(gold, n - 1))
      BY <3>1
    <3> HIDE DEF tally
    <3> QED
      BY <2>2, <3>1, <3>2, CountedAmongGrows, TallyGrows
  <2> QED
    BY <2>1, <2>2
<1> HIDE DEF next
<1>3. tally = [n \in 0..L |-> next(tally, n)]
  BY <1>2
<1>4. pass = [n \in 0..L |-> next(pass, n)]
  BY <1>3
<1> HIDE DEF pass, tally
<1>5. DOMAIN pass = 0..L
  BY <1>4
<1>6. \A n \in 0..L : pass[n] = tally[n]
  <2> DEFINE wrong == {n \in 0..L : pass[n] # tally[n]}
  <2> SUFFICES ASSUME wrong # {}
               PROVE  FALSE
    OBVIOUS
  <2>1. wrong \in SUBSET Int /\ IsFiniteSet(wrong)
    <3>1. wrong \in SUBSET (0..L) /\ IsFiniteSet(0..L)
      BY FS_Interval
    <3> QED
      BY <3>1, FS_Subset
  <2>2. PICK n \in wrong : \A m \in wrong : n <= m
    BY <2>1, MinOf
  <2>3. pass[n] = next(pass, n) /\ tally[n] = next(tally, n)
    BY <1>2, <1>4
  <2>4. CASE n = 0
    BY <2>3, <2>4 DEF next
  <2>5. CASE n # 0
    <3>1. n - 1 \in 0..L /\ ~(n <= n - 1)
      BY <2>5
    <3>2. n - 1 \notin wrong
      BY <2>2, <3>1
    <3>3. pass[n - 1] = tally[n - 1]
      BY <3>1, <3>2
    <3> QED
      BY <2>3, <3>3 DEF next
  <2> QED
    BY <2>4, <2>5
<1>7. tally[L] = TallyOf(CountedAmong(gold, L))
  BY DEF tally
<1> QED
  BY <1>1, <1>6, <1>7

\* What the evaluation counts as relevant is the evidence an ask would show, for any
\* gold, any index and whatever the streams and the graph answer.
THEOREM EvidenceIsCounted == Spec => []EvalCountsEvidence
<1>1. ASSUME SearchInvariant
      PROVE  EvalCountsEvidence
  <2>1. DOMAIN hits = 1..Len(hits) /\ Len(hits) \in Nat
    BY <1>1, AnswerIs, SequenceParts DEF SearchInvariant
  <2>2. ASSUME NEW gold \in Golds
        PROVE  Evidenced(gold) = CountedAmong(gold, Len(hits))
    BY <2>1 DEF Evidenced, Wanted, CountedAmong, IsRelevant, OverlapsGold, Shown, Overlaps
  <2>3. ASSUME NEW gold \in Golds
        PROVE  ScoreHits(gold) = TallyOf(Evidenced(gold))
    BY <2>1, <2>2, ScoreIsTally
  <2>4. ASSUME NEW gold \in Golds, NEW score, score = ScoreHits(gold), NEW C, C = Evidenced(gold)
        PROVE  /\ score.relevant = Cardinality(C)
               /\ score.first = IF C = {} THEN 0 ELSE Min(C)
               /\ score.stream = IF C = {} THEN "" ELSE hits[Min(C)].source
    <3>1. score = TallyOf(C)
      BY <2>3, <2>4
    <3> QED
      BY <3>1 DEF TallyOf
  <2> QED
    BY <2>4 DEF EvalCountsEvidence
<1> QED
  BY <1>1, InvariantHolds, PTL

=============================================================================
