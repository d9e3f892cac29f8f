---------------------------- MODULE ProcessProofs ----------------------------
(***************************************************************************)
(* Proofs about the traffic history of a process, for every maxRingSize of *)
(* at least 2, every set of packet lengths and every bound: as one call at *)
(* a time makes it (Process), and as goroutines share it (ProcessRace).    *)
(*                                                                         *)
(* RecentKept is not inductive: whether the seconds near `now` survive a   *)
(* cut depends on how many entries are left and how far apart they are.    *)
(* RingInv adds that entries are spaced by at least their distance in the  *)
(* slice, that the slice is a suffix of the seconds with traffic, and that *)
(* a slice that lost a second still has at least MaxRingSize - 1 entries.  *)
(***************************************************************************)
EXTENDS Process, ProcessRace, SequenceTheorems, FiniteSetTheorems, WellFoundedInduction, TLAPS

\* Entries i < j lie at least j - i seconds apart.
Spaced ==
    \A i, j \in DOMAIN Ring :
        i < j => Ring[j].Timestamp - Ring[i].Timestamp >= j - i

\* An entry is never ahead of the clock and holds its second's bytes.
Faithful ==
    \A i \in DOMAIN Ring :
        /\ Ring[i].Timestamp <= now
        /\ Ring[i].In = traffic[Ring[i].Timestamp].In
        /\ Ring[i].Out = traffic[Ring[i].Timestamp].Out

\* Nothing has flowed in the future.
FutureQuiet == \A t \in Seconds : t > now => traffic[t] = NoVolume

\* The slice is a suffix of the seconds with traffic.
Suffix ==
    /\ Ring = <<>> => \A t \in Seconds : traffic[t] = NoVolume
    /\ Ring # <<>> =>
         \A t \in Seconds :
            traffic[t] # NoVolume /\ t >= Ring[1].Timestamp
               => \E i \in DOMAIN Ring : Ring[i].Timestamp = t

\* Only a full slice is cut, so one that lost a second is nearly full.
CutIsLong ==
    Ring # <<>> =>
       \A t \in Seconds :
          traffic[t] # NoVolume /\ t < Ring[1].Timestamp
             => Len(Ring) >= MaxRingSize - 1

\* The inductive invariant.
RingInv ==
    /\ RingTypeOK
    /\ RingBounded
    /\ Spaced
    /\ Faithful
    /\ FutureQuiet
    /\ Suffix
    /\ CutIsLong

-----------------------------------------------------------------------------
(* Sums.  Induction over data, which the library states for a predicate,   *)
(* is done over the set of the values that have it: SetInduction, then     *)
(* SubsetInduction.  SumFunctionOnSet is a recursive function inside;      *)
(* SumRec is its equation, and the lemmas from SumEqual on are what the    *)
(* proofs use.                                                             *)

\* A set of naturals with 0 and every successor holds all naturals.
LEMMA SetInduction ==
    ASSUME NEW T, T \subseteq Nat, 0 \in T, \A n \in T : n + 1 \in T
    PROVE  T = Nat
<1> DEFINE bad  == Nat \ T
           less == OpToRel(<, Nat)
<1>1. ASSUME bad # {} PROVE FALSE
  <2>1. IsWellFoundedOn(less, Nat)  BY NatLessThanWellFounded
  <2>2. \E x \in bad : \A y \in bad : ~ (<<y, x>> \in less)
    <3> HIDE DEF less
    <3> QED  BY <2>1, <1>1, WFMin
  <2>3. PICK x \in bad : \A y \in bad : ~ (<<y, x>> \in less)  BY <2>2
  <2>4. x \in Nat /\ x \notin T /\ x # 0  OBVIOUS
  <2>5. x - 1 \in Nat /\ x - 1 < x /\ (x - 1) + 1 = x  BY <2>4
  <2>6. x - 1 \in bad  BY <2>4, <2>5
  <2>7. <<x - 1, x>> \in less  BY <2>4, <2>5 DEF OpToRel
  <2> QED  BY <2>3, <2>6, <2>7
<1> QED  BY <1>1

\* Induction over the finite subsets of S, by their cardinality.
LEMMA SubsetInduction ==
    ASSUME NEW S, IsFiniteSet(S), NEW P, P \subseteq SUBSET S, {} \in P,
           \A s \in SUBSET S : s # {} /\ (\A x \in s : s \ {x} \in P) => s \in P
    PROVE  P = SUBSET S
<1> DEFINE T == {n \in Nat : \A s \in SUBSET S : Cardinality(s) = n => s \in P}
<1>0. \A s \in SUBSET S : IsFiniteSet(s) /\ Cardinality(s) \in Nat
  BY FS_Subset, FS_CardinalityType
<1>1. 0 \in T  BY <1>0, FS_EmptySet
<1>2. ASSUME NEW n \in T PROVE n + 1 \in T
  <2>1. SUFFICES ASSUME NEW s \in SUBSET S, Cardinality(s) = n + 1 PROVE s \in P
    OBVIOUS
  <2>2. s # {}  BY <2>1, FS_EmptySet
  <2>3. ASSUME NEW x \in s PROVE s \ {x} \in P
    <3>1. Cardinality(s \ {x}) = n  BY <1>0, <2>1, FS_RemoveElement
    <3> QED  BY <3>1
  <2> QED  BY <2>2, <2>3
<1>3. T = Nat
  <2> HIDE DEF T
  <2>1. T \subseteq Nat  BY DEF T
  <2> QED  BY <1>1, <1>2, <2>1, SetInduction
<1>4. ASSUME NEW s \in SUBSET S PROVE s \in P
  <2>1. Cardinality(s) \in T  BY <1>0, <1>3
  <2> QED  BY <2>1
<1> QED  BY <1>4

\* h is the recursive function in the definition of SumFunctionOnSet(g, S).
SumRec(h, g, S) ==
    h = [s \in SUBSET S |->
           IF s = {} THEN 0
           ELSE g[CHOOSE x \in s : TRUE] + h[s \ {CHOOSE x \in s : TRUE}]]

\* SumFunctionOnSet is the value of such a function, if there is one.
LEMMA SumRecChosen ==
    ASSUME NEW g, NEW S, NEW k, SumRec(k, g, S)
    PROVE  \E h : SumRec(h, g, S) /\ SumFunctionOnSet(g, S) = h[S]
<1> DEFINE h == CHOOSE f : f = [s \in SUBSET S |-> IF s = {} THEN 0 ELSE g[CHOOSE x \in s : TRUE] + f[s \ {CHOOSE x \in s : TRUE}]]
<1>1. SumFunctionOnSet(g, S) = h[S]
  BY DEF SumFunctionOnSet, FoldFunctionOnSet, MapThenFoldSet
<1>2. SumRec(h, g, S)
  BY DEF SumRec
<1> QED BY <1>1, <1>2

\* Two such functions agree where both are defined.
LEMMA SumRecUnique ==
    ASSUME NEW g, NEW h, NEW S, NEW k, NEW T, NEW f, T \subseteq S, IsFiniteSet(T),
           SumRec(h, g, S), SumRec(k, f, T), \A x \in T : f[x] = g[x]
    PROVE  k[T] = h[T]
<1> DEFINE P == {s \in SUBSET T : k[s] = h[s]}
<1>1. {} \in P  BY DEF SumRec
<1>2. ASSUME NEW s \in SUBSET T, s # {}, \A x \in s : s \ {x} \in P
      PROVE  s \in P
  <2> DEFINE c == CHOOSE x \in s : TRUE
  <2>1. c \in s  BY <1>2
  <2>2. k[s] = f[c] + k[s \ {c}]  BY <1>2 DEF SumRec
  <2>3. h[s] = g[c] + h[s \ {c}]  BY <1>2 DEF SumRec
  <2>4. k[s \ {c}] = h[s \ {c}]  BY <1>2, <2>1
  <2> HIDE DEF c
  <2> QED  BY <2>1, <2>2, <2>3, <2>4
<1>3. P = SUBSET T
  <2>1. P \subseteq SUBSET T  OBVIOUS
  <2> HIDE DEF P
  <2> QED  BY <1>1, <1>2, <2>1, SubsetInduction
<1> QED  BY <1>3

\* Such a function exists for every finite set of naturals.
LEMMA SumRecExists ==
    ASSUME NEW S, IsFiniteSet(S), NEW g, \A x \in S : g[x] \in Nat
    PROVE  \E h : SumRec(h, g, S) /\ h \in [SUBSET S -> Nat]
<1> DEFINE value(h, s) ==
             IF s = {} THEN 0 ELSE g[CHOOSE x \in s : TRUE] + h[s \ {CHOOSE x \in s : TRUE}]
           T == {n \in Nat : \E h \in [SUBSET S -> Nat] :
                               \A s \in SUBSET S : Cardinality(s) <= n => h[s] = value(h, s)}
<1>0. \A s \in SUBSET S : IsFiniteSet(s) /\ Cardinality(s) \in Nat /\ Cardinality(s) <= Cardinality(S)
  BY FS_Subset, FS_CardinalityType
<1>1. ASSUME NEW h \in [SUBSET S -> Nat], NEW s \in SUBSET S PROVE value(h, s) \in Nat
  <2>1. CASE s = {}  BY <2>1
  <2>2. CASE s # {}
    <3>1. (CHOOSE x \in s : TRUE) \in s  BY <2>2
    <3>2. g[CHOOSE x \in s : TRUE] \in Nat /\ h[s \ {CHOOSE x \in s : TRUE}] \in Nat  BY <3>1
    <3> QED  BY <3>2, <2>2
  <2> QED  BY <2>1, <2>2
<1>2. 0 \in T
  <2>1. [s \in SUBSET S |-> 0] \in [SUBSET S -> Nat]  OBVIOUS
  <2>2. ASSUME NEW s \in SUBSET S, Cardinality(s) <= 0 PROVE s = {}
    BY <1>0, <2>2, FS_EmptySet
  <2> QED  BY <2>1, <2>2
<1>3. ASSUME NEW n \in T PROVE n + 1 \in T
  <2>1. PICK h \in [SUBSET S -> Nat] :
               \A s \in SUBSET S : Cardinality(s) <= n => h[s] = value(h, s)
    OBVIOUS
  <2> DEFINE k == [s \in SUBSET S |-> IF Cardinality(s) <= n THEN h[s] ELSE value(h, s)]
  <2>2. k \in [SUBSET S -> Nat]
    <3> HIDE DEF value
    <3> QED  BY <1>1
  <2>3. ASSUME NEW s \in SUBSET S, Cardinality(s) <= n + 1 PROVE k[s] = value(k, s)
    <3>1. k[s] = value(h, s)
      <4> HIDE DEF value
      <4> QED  BY <2>1
    <3>2. CASE s = {}  BY <3>1, <3>2
    <3>3. CASE s # {}
      <4> DEFINE c == CHOOSE x \in s : TRUE
      <4>1. c \in s  BY <3>3
      <4>2. Cardinality(s \ {c}) <= n
        <5> HIDE DEF c
        <5> QED  BY <1>0, <2>3, <4>1, FS_RemoveElement
      <4>3. k[s \ {c}] = h[s \ {c}]
        <5> HIDE DEF c, value
        <5> QED  BY <4>2
      <4> HIDE DEF k
      <4> QED  BY <3>1, <3>3, <4>3
    <3> QED  BY <3>2, <3>3
  <2>4. n + 1 \in Nat  OBVIOUS
  <2> HIDE DEF k, value
  <2> QED  BY <2>2, <2>3, <2>4
<1>4. T = Nat
  <2>1. T \subseteq Nat  OBVIOUS
  <2> HIDE DEF T
  <2> QED  BY <1>2, <1>3, <2>1, SetInduction
<1>5. PICK h \in [SUBSET S -> Nat] :
             \A s \in SUBSET S : Cardinality(s) <= Cardinality(S) => h[s] = value(h, s)
  BY <1>0, <1>4
<1>6. h = [s \in SUBSET S |-> value(h, s)]
  <2> HIDE DEF value
  <2> QED  BY <1>0, <1>5
<1> QED  BY <1>6 DEF SumRec

\* h gives the sum of g over every subset of S.
Sums(h, g, S) ==
    /\ SumRec(h, g, S)
    /\ h \in [SUBSET S -> Nat]
    /\ \A T \in SUBSET S : SumFunctionOnSet(g, T) = h[T]

\* There is such a function for every finite set of naturals.
LEMMA SumsExist ==
    ASSUME NEW S, IsFiniteSet(S), NEW g, \A x \in S : g[x] \in Nat
    PROVE  \E h : Sums(h, g, S)
<1>1. PICK h : SumRec(h, g, S) /\ h \in [SUBSET S -> Nat]  BY SumRecExists
<1>2. ASSUME NEW T \in SUBSET S PROVE SumFunctionOnSet(g, T) = h[T]
  <2>1. IsFiniteSet(T)  BY FS_Subset
  <2>2. PICK k : SumRec(k, g, T) /\ k \in [SUBSET T -> Nat]  BY <2>1, SumRecExists
  <2>3. PICK f : SumRec(f, g, T) /\ SumFunctionOnSet(g, T) = f[T]  BY <2>2, SumRecChosen
  <2>4. f[T] = h[T]  BY <1>1, <2>1, <2>3, SumRecUnique
  <2> QED  BY <2>3, <2>4
<1> QED  BY <1>1, <1>2 DEF Sums

\* A sum depends on the values in S only.
LEMMA SumEqual ==
    ASSUME NEW S, IsFiniteSet(S), NEW g, \A x \in S : g[x] \in Nat,
           NEW f, \A x \in S : f[x] = g[x]
    PROVE  SumFunctionOnSet(f, S) = SumFunctionOnSet(g, S)
<1>1. PICK h : Sums(h, g, S)  BY SumsExist
<1>2. \A x \in S : f[x] \in Nat  OBVIOUS
<1>3. PICK k : Sums(k, f, S)  BY <1>2, SumsExist
<1>4. SumRec(h, g, S) /\ SumRec(k, f, S)  BY <1>1, <1>3 DEF Sums
<1>5. k[S] = h[S]  BY <1>4, SumRecUnique
<1>6. S \in SUBSET S  OBVIOUS
<1> QED  BY <1>1, <1>3, <1>5, <1>6 DEF Sums

\* The sum over no element is 0.
LEMMA SumEmpty ==
    ASSUME NEW g
    PROVE  SumFunctionOnSet(g, {}) = 0
<1>1. PICK h : Sums(h, g, {})  BY SumsExist, FS_EmptySet
<1> QED  BY <1>1 DEF SumRec, Sums

\* A sum of naturals is a natural.
LEMMA SumType ==
    ASSUME NEW S, IsFiniteSet(S), NEW g, \A x \in S : g[x] \in Nat
    PROVE  SumFunctionOnSet(g, S) \in Nat
<1>1. PICK h : Sums(h, g, S)  BY SumsExist
<1> QED  BY <1>1 DEF Sums

\* Any element can be taken out of a sum.
LEMMA SumRemove ==
    ASSUME NEW S, IsFiniteSet(S), NEW g, \A x \in S : g[x] \in Nat, NEW y \in S
    PROVE  SumFunctionOnSet(g, S) = g[y] + SumFunctionOnSet(g, S \ {y})
<1>1. PICK h : Sums(h, g, S)  BY SumsExist
<1>2. /\ SumRec(h, g, S) /\ h \in [SUBSET S -> Nat]
      /\ SumFunctionOnSet(g, S) = h[S] /\ SumFunctionOnSet(g, S \ {y}) = h[S \ {y}]
  BY <1>1 DEF Sums
<1> DEFINE P == {s \in SUBSET S : \A x \in s : h[s] = g[x] + h[s \ {x}]}
<1>3. {} \in P  OBVIOUS
<1>4. ASSUME NEW s \in SUBSET S, s # {}, \A x \in s : s \ {x} \in P
      PROVE  s \in P
  <2> DEFINE c == CHOOSE x \in s : TRUE
  <2>1. c \in s  BY <1>4
  <2>2. h[s] = g[c] + h[s \ {c}]  BY <1>2, <1>4 DEF SumRec
  <2> HIDE DEF c
  <2>3. ASSUME NEW x \in s, x # c PROVE h[s] = g[x] + h[s \ {x}]
    <3>1. s \ {c} \in P /\ s \ {x} \in P  BY <1>4, <2>1
    <3>2. h[s \ {c}] = g[x] + h[(s \ {c}) \ {x}]  BY <3>1, <2>1, <2>3
    <3>3. h[s \ {x}] = g[c] + h[(s \ {x}) \ {c}]  BY <3>1, <2>1, <2>3
    <3>4. (s \ {c}) \ {x} = (s \ {x}) \ {c}  OBVIOUS
    <3>5. g[x] \in Nat /\ g[c] \in Nat /\ h[(s \ {c}) \ {x}] \in Nat  BY <1>2, <2>1, <2>3
    <3> DEFINE rest == h[(s \ {c}) \ {x}]
    <3>6. h[s] = g[c] + (g[x] + rest) /\ h[s \ {x}] = g[c] + rest /\ rest \in Nat
      BY <2>2, <3>2, <3>3, <3>4, <3>5
    <3> HIDE DEF rest
    <3> QED  BY <3>5, <3>6
  <2> QED  BY <2>2, <2>3
<1>5. P = SUBSET S
  <2>1. P \subseteq SUBSET S  OBVIOUS
  <2> HIDE DEF P
  <2> QED  BY <1>3, <1>4, <2>1, SubsetInduction
<1> QED  BY <1>2, <1>5

\* A sum of zeros is 0.
LEMMA SumZero ==
    ASSUME NEW S, IsFiniteSet(S), NEW g, \A x \in S : g[x] = 0
    PROVE  SumFunctionOnSet(g, S) = 0
<1> DEFINE P == {s \in SUBSET S : SumFunctionOnSet(g, s) = 0}
<1>1. {} \in P  BY SumEmpty
<1>2. ASSUME NEW s \in SUBSET S, s # {}, \A x \in s : s \ {x} \in P
      PROVE  s \in P
  <2>1. PICK x \in s : TRUE  BY <1>2
  <2>2. IsFiniteSet(s) /\ \A y \in s : g[y] \in Nat  BY FS_Subset
  <2>3. SumFunctionOnSet(g, s) = g[x] + SumFunctionOnSet(g, s \ {x})  BY <2>2, SumRemove
  <2>4. g[x] = 0 /\ SumFunctionOnSet(g, s \ {x}) = 0  BY <1>2
  <2> QED  BY <2>3, <2>4
<1>3. P = SUBSET S
  <2>1. P \subseteq SUBSET S  OBVIOUS
  <2> HIDE DEF P
  <2> QED  BY <1>1, <1>2, <2>1, SubsetInduction
<1> QED  BY <1>3

\* If m sends the elements of S to different elements of T with at least their
\* values, the sum over S is at most the sum over T.
LEMMA SumLess ==
    ASSUME NEW S, IsFiniteSet(S), NEW g, \A x \in S : g[x] \in Nat,
           NEW T, IsFiniteSet(T), NEW f, \A y \in T : f[y] \in Nat,
           NEW m, \A x \in S : m[x] \in T /\ g[x] <= f[m[x]],
           \A x, z \in S : m[x] = m[z] => x = z
    PROVE  SumFunctionOnSet(g, S) <= SumFunctionOnSet(f, T)
<1> DEFINE P == {s \in SUBSET S :
                   \A U \in SUBSET T : (\A x \in s : m[x] \in U)
                      => SumFunctionOnSet(g, s) <= SumFunctionOnSet(f, U)}
<1>1. {} \in P
  <2>1. ASSUME NEW U \in SUBSET T PROVE SumFunctionOnSet(f, U) \in Nat
    <3>1. IsFiniteSet(U)  BY FS_Subset
    <3> QED  BY <3>1, SumType
  <2>2. ASSUME NEW U \in SUBSET T PROVE SumFunctionOnSet(g, {}) <= SumFunctionOnSet(f, U)
    BY <2>1, SumEmpty
  <2> QED  BY <2>2
<1>2. ASSUME NEW s \in SUBSET S, s # {}, \A x \in s : s \ {x} \in P
      PROVE  s \in P
  <2>1. SUFFICES ASSUME NEW U \in SUBSET T, \A x \in s : m[x] \in U
                 PROVE  SumFunctionOnSet(g, s) <= SumFunctionOnSet(f, U)
    OBVIOUS
  <2>2. PICK x \in s : TRUE  BY <1>2
  <2> DEFINE V == U \ {m[x]}
             r == s \ {x}
  <2>3. IsFiniteSet(s) /\ IsFiniteSet(U) /\ IsFiniteSet(V) /\ IsFiniteSet(r)
    BY FS_Subset, FS_RemoveElement
  <2>4. SumFunctionOnSet(g, s) = g[x] + SumFunctionOnSet(g, r)
    BY <2>3, SumRemove
  <2>5. SumFunctionOnSet(f, U) = f[m[x]] + SumFunctionOnSet(f, V)
    <3>1. m[x] \in U /\ \A y \in U : f[y] \in Nat  BY <2>1
    <3> QED  BY <2>3, <3>1, SumRemove
  <2>6. SumFunctionOnSet(g, r) <= SumFunctionOnSet(f, V)
    <3>1. r \in P  BY <1>2
    <3>2. \A z \in r : m[z] \in V  BY <2>1
    <3>3. V \in SUBSET T  OBVIOUS
    <3> QED  BY <3>1, <3>2, <3>3
  <2>7. SumFunctionOnSet(g, r) \in Nat /\ SumFunctionOnSet(f, V) \in Nat
    BY <2>3, SumType
  <2>8. g[x] \in Nat /\ f[m[x]] \in Nat /\ g[x] <= f[m[x]]  OBVIOUS
  <2> HIDE DEF V, r
  <2> QED  BY <2>4, <2>5, <2>6, <2>7, <2>8
<1>3. P = SUBSET S
  <2>1. P \subseteq SUBSET S  OBVIOUS
  <2> HIDE DEF P
  <2> QED  BY <1>1, <1>2, <2>1, SubsetInduction
<1>4. S \in P /\ T \in SUBSET T  BY <1>3
<1> QED  BY <1>4

\* If their values are the same and what m does not reach is 0, so are the sums.
LEMMA SumSame ==
    ASSUME NEW S, IsFiniteSet(S), NEW g, \A x \in S : g[x] \in Nat,
           NEW T, IsFiniteSet(T), NEW f, \A y \in T : f[y] \in Nat,
           NEW m, \A x \in S : m[x] \in T /\ g[x] = f[m[x]],
           \A x, z \in S : m[x] = m[z] => x = z,
           \A y \in T : (\A x \in S : m[x] # y) => f[y] = 0
    PROVE  SumFunctionOnSet(g, S) = SumFunctionOnSet(f, T)
<1> DEFINE covers(s, U) == /\ \A x \in s : m[x] \in U
                           /\ \A y \in U : (\A x \in s : m[x] # y) => f[y] = 0
           P == {s \in SUBSET S :
                   \A U \in SUBSET T :
                      covers(s, U) => SumFunctionOnSet(g, s) = SumFunctionOnSet(f, U)}
<1>1. {} \in P
  <2>1. ASSUME NEW U \in SUBSET T, covers({}, U)
        PROVE  SumFunctionOnSet(g, {}) = SumFunctionOnSet(f, U)
    <3>1. IsFiniteSet(U) /\ \A y \in U : f[y] = 0  BY <2>1, FS_Subset
    <3> QED  BY <3>1, SumEmpty, SumZero
  <2> QED  BY <2>1
<1>2. ASSUME NEW s \in SUBSET S, s # {}, \A x \in s : s \ {x} \in P
      PROVE  s \in P
  <2>1. SUFFICES ASSUME NEW U \in SUBSET T, covers(s, U)
                 PROVE  SumFunctionOnSet(g, s) = SumFunctionOnSet(f, U)
    OBVIOUS
  <2>2. PICK x \in s : TRUE  BY <1>2
  <2> DEFINE V == U \ {m[x]}
             r == s \ {x}
  <2>3. IsFiniteSet(s) /\ IsFiniteSet(U) /\ IsFiniteSet(V) /\ IsFiniteSet(r)
    BY FS_Subset, FS_RemoveElement
  <2>4. SumFunctionOnSet(g, s) = g[x] + SumFunctionOnSet(g, r)
    BY <2>3, SumRemove
  <2>5. SumFunctionOnSet(f, U) = f[m[x]] + SumFunctionOnSet(f, V)
    <3>1. m[x] \in U /\ \A y \in U : f[y] \in Nat  BY <2>1
    <3> QED  BY <2>3, <3>1, SumRemove
  <2>6. SumFunctionOnSet(g, r) = SumFunctionOnSet(f, V)
    <3>1. r \in P  BY <1>2
    <3>2. covers(r, V)  BY <2>1
    <3>3. V \in SUBSET T  OBVIOUS
    <3> QED  BY <3>1, <3>2, <3>3
  <2>7. g[x] = f[m[x]]  OBVIOUS
  <2> QED  BY <2>4, <2>5, <2>6, <2>7
<1>3. P = SUBSET S
  <2>1. P \subseteq SUBSET S  OBVIOUS
  <2> HIDE DEF P, covers
  <2>2. \A s \in SUBSET S : s # {} /\ (\A x \in s : s \ {x} \in P) => s \in P  BY <1>2
  <2>3. IsFiniteSet(S)  OBVIOUS
  <2> QED  BY ONLY <1>1, <2>1, <2>2, <2>3, SubsetInduction
<1>4. S \in P /\ T \in SUBSET T /\ covers(S, T)  BY <1>3
<1> QED  BY <1>4

\* A sum of no larger values over a subset is no larger.
LEMMA SumMonotonic ==
    ASSUME NEW T, IsFiniteSet(T), NEW f, \A y \in T : f[y] \in Nat,
           NEW S, S \subseteq T, NEW g, \A x \in S : g[x] \in Nat /\ g[x] <= f[x]
    PROVE  SumFunctionOnSet(g, S) <= SumFunctionOnSet(f, T)
<1> DEFINE m == [x \in S |-> x]
<1>1. IsFiniteSet(S)  BY FS_Subset
<1>2. \A x \in S : m[x] \in T /\ g[x] <= f[m[x]]  OBVIOUS
<1>3. \A x, z \in S : m[x] = m[z] => x = z  OBVIOUS
<1>4. \A x \in S : g[x] \in Nat  OBVIOUS
<1> HIDE DEF m
<1> QED  BY <1>1, <1>2, <1>3, <1>4, SumLess

\* One value that is n larger makes the sum n larger.
LEMMA SumRaised ==
    ASSUME NEW S, IsFiniteSet(S), NEW g, \A x \in S : g[x] \in Nat, NEW y \in S, NEW n \in Nat,
           NEW f, f[y] = g[y] + n, \A x \in S \ {y} : f[x] = g[x]
    PROVE  SumFunctionOnSet(f, S) = SumFunctionOnSet(g, S) + n
<1>1. \A x \in S : f[x] \in Nat
  <2>1. f[y] \in Nat  OBVIOUS
  <2> QED  BY <2>1
<1>2. SumFunctionOnSet(f, S) = f[y] + SumFunctionOnSet(f, S \ {y})
  BY <1>1, SumRemove
<1>3. SumFunctionOnSet(g, S) = g[y] + SumFunctionOnSet(g, S \ {y})
  BY SumRemove
<1> DEFINE R == S \ {y}
<1>4. IsFiniteSet(R) /\ \A x \in R : g[x] \in Nat /\ f[x] = g[x]
  BY FS_Subset
<1> HIDE DEF R
<1>5. SumFunctionOnSet(f, R) = SumFunctionOnSet(g, R) /\ SumFunctionOnSet(g, R) \in Nat
  BY <1>4, SumEqual, SumType
<1>6. g[y] \in Nat
  OBVIOUS
<1> QED
  BY <1>2, <1>3, <1>5, <1>6 DEF R

\* One element more makes the sum larger by its value.
LEMMA SumGrown ==
    ASSUME NEW S, IsFiniteSet(S), NEW g, \A x \in S : g[x] \in Nat, NEW y, y \notin S,
           NEW f, f[y] \in Nat, \A x \in S : f[x] = g[x]
    PROVE  SumFunctionOnSet(f, S \cup {y}) = SumFunctionOnSet(g, S) + f[y]
<1> DEFINE T == S \cup {y}
<1>1. IsFiniteSet(T) /\ y \in T /\ T \ {y} = S
  BY FS_AddElement
<1>2. \A x \in T : f[x] \in Nat
  OBVIOUS
<1> HIDE DEF T
<1>3. SumFunctionOnSet(f, T) = f[y] + SumFunctionOnSet(f, S)
  BY <1>1, <1>2, SumRemove
<1>4. SumFunctionOnSet(f, S) = SumFunctionOnSet(g, S) /\ SumFunctionOnSet(g, S) \in Nat
  BY SumEqual, SumType
<1> QED
  BY <1>3, <1>4 DEF T

\* A sum of ones counts.
LEMMA SumOnes ==
    ASSUME NEW S, IsFiniteSet(S), NEW g, \A x \in S : g[x] = 1
    PROVE  SumFunctionOnSet(g, S) = Cardinality(S)
<1> DEFINE P == {s \in SUBSET S : SumFunctionOnSet(g, s) = Cardinality(s)}
<1>1. {} \in P  BY SumEmpty, FS_EmptySet
<1>2. ASSUME NEW s \in SUBSET S, s # {}, \A x \in s : s \ {x} \in P
      PROVE  s \in P
  <2>1. PICK x \in s : TRUE  BY <1>2
  <2>2. IsFiniteSet(s) /\ \A y \in s : g[y] \in Nat  BY FS_Subset
  <2>3. SumFunctionOnSet(g, s) = g[x] + SumFunctionOnSet(g, s \ {x})  BY <2>2, SumRemove
  <2>4. g[x] = 1 /\ SumFunctionOnSet(g, s \ {x}) = Cardinality(s \ {x})  BY <1>2
  <2>5. Cardinality(s \ {x}) = Cardinality(s) - 1 /\ Cardinality(s) \in Nat
    BY <2>2, FS_RemoveElement, FS_CardinalityType
  <2> QED  BY <2>3, <2>4, <2>5
<1>3. P = SUBSET S
  <2>1. P \subseteq SUBSET S  OBVIOUS
  <2> HIDE DEF P
  <2> QED  BY <1>1, <1>2, <2>1, SubsetInduction
<1> QED  BY <1>3

-----------------------------------------------------------------------------
\* What shrink returns: the slice without its first d entries, d at most 1, and
\* d = 1 only for a full slice; never an empty slice.
LEMMA ShrinkCuts ==
    ASSUME NEW ring \in Seq(trafficEntry), ring # <<>>, Len(ring) <= MaxRingSize
    PROVE  /\ shrink(ring) \in Seq(trafficEntry)
           /\ Len(shrink(ring)) >= 1
           /\ Len(shrink(ring)) < MaxRingSize
           /\ \E d \in {0, 1} :
                 /\ Len(shrink(ring)) = Len(ring) - d
                 /\ d = 1 => Len(ring) = MaxRingSize
                 /\ \A i \in 1 .. Len(shrink(ring)) : shrink(ring)[i] = ring[i + d]
<1>1. Len(ring) \in Nat /\ Len(ring) >= 1
  BY LenProperties, EmptySeq
<1>2. CASE Len(ring) >= MaxRingSize
  <2>1. shrink(ring) = Tail(ring)
    BY <1>2 DEF shrink
  <2>2. /\ Tail(ring) \in Seq(trafficEntry)
        /\ Len(Tail(ring)) = Len(ring) - 1
        /\ \A i \in 1 .. Len(Tail(ring)) : Tail(ring)[i] = ring[i + 1]
    BY HeadTailProperties
  <2>3. Len(ring) = MaxRingSize /\ MaxRingSize \in Nat /\ MaxRingSize >= 2
    BY <1>1, <1>2, RingSizeAssumption
  <2>4. \E d \in {0, 1} :
           /\ Len(Tail(ring)) = Len(ring) - d
           /\ d = 1 => Len(ring) = MaxRingSize
           /\ \A i \in 1 .. Len(Tail(ring)) : Tail(ring)[i] = ring[i + d]
    <3> WITNESS 1 \in {0, 1}
    <3> QED
      BY <2>2, <2>3
  <2>5. Len(Tail(ring)) >= 1 /\ Len(Tail(ring)) < MaxRingSize
    BY <2>2, <2>3
  <2> QED
    BY <2>1, <2>2, <2>4, <2>5
<1>3. CASE ~ (Len(ring) >= MaxRingSize)
  <2>1. shrink(ring) = ring
    BY <1>3 DEF shrink
  <2>2. \A i \in 1 .. Len(ring) : ring[i] = ring[i + 0]
    BY <1>1
  <2>3. \E d \in {0, 1} :
           /\ Len(ring) = Len(ring) - d
           /\ d = 1 => Len(ring) = MaxRingSize
           /\ \A i \in 1 .. Len(ring) : ring[i] = ring[i + d]
    <3> WITNESS 0 \in {0, 1}
    <3> QED
      BY <1>1, <2>2
  <2>4. Len(ring) < MaxRingSize
    BY <1>1, <1>3, RingSizeAssumption
  <2> QED
    BY <1>1, <2>1, <2>3, <2>4
<1> QED
  BY <1>2, <1>3

\* One call of IncreaseInput or IncreaseOutput preserves the invariant: `v` is
\* the volume it adds in the current second.
LEMMA IncreasePreserves ==
    ASSUME RingInv,
           NEW v \in Volume, v # NoVolume,
           Ring' = increase(Ring, now, v),
           traffic' = [traffic EXCEPT ![now] = plus(@, v)],
           now' = now
    PROVE  RingInv'
<1> DEFINE fresh == [Timestamp |-> now, In |-> v.In, Out |-> v.Out]
<1>t. RingTypeOK /\ RingBounded /\ Spaced /\ Faithful /\ FutureQuiet /\ Suffix /\ CutIsLong
  BY DEF RingInv
<1>max. MaxRingSize \in Int /\ MaxRingSize >= 2 /\ MaxTime \in Int
  BY RingSizeAssumption, BoundsAssumption
<1>now. now \in Seconds /\ Seconds \subseteq Int
  BY <1>t, BoundsAssumption DEF RingTypeOK, Seconds
<1>len. Len(Ring) \in Nat /\ DOMAIN Ring = 1 .. Len(Ring) /\ Ring \in Seq(trafficEntry)
  BY <1>t, LenProperties DEF RingTypeOK
<1>entry. \A e \in trafficEntry : e.Timestamp \in Seconds /\ e.In \in Nat /\ e.Out \in Nat
  BY DEF trafficEntry
<1>stamps. \A i \in DOMAIN Ring : Ring[i].Timestamp \in Int
  <2>1. \A i \in DOMAIN Ring : Ring[i] \in trafficEntry
    BY <1>len, ElementOfSeq
  <2> QED
    BY <2>1, <1>entry, <1>now
<1>v. v.In \in Nat /\ v.Out \in Nat /\ (v.In # 0 \/ v.Out # 0)
  BY DEF Volume, NoVolume
<1>fresh. fresh \in trafficEntry
  BY <1>now, <1>v DEF trafficEntry
<1>traffic.
      /\ traffic' \in [Seconds -> Volume]
      /\ traffic'[now] # NoVolume
      /\ traffic'[now].In = traffic[now].In + v.In
      /\ traffic'[now].Out = traffic[now].Out + v.Out
      /\ \A t \in Seconds : t # now => traffic'[t] = traffic[t]
  <2>1. traffic \in [Seconds -> Volume]
    BY <1>t DEF RingTypeOK
  <2>2. traffic[now] \in Volume
    BY <2>1, <1>now
  <2>3. traffic[now].In \in Nat /\ traffic[now].Out \in Nat
    BY <2>2 DEF Volume
  <2>4. plus(traffic[now], v) \in Volume /\ plus(traffic[now], v) # NoVolume
    BY <2>3, <1>v DEF plus, Volume, NoVolume
  <2>5. /\ plus(traffic[now], v).In = traffic[now].In + v.In
        /\ plus(traffic[now], v).Out = traffic[now].Out + v.Out
    BY DEF plus
  <2>6. traffic'[now] = plus(traffic[now], v)
    BY <2>1, <1>now
  <2> QED
    BY <2>1, <2>4, <2>5, <2>6, <1>now
<1>future. FutureQuiet'
  BY <1>t, <1>now, <1>traffic DEF FutureQuiet
<1>1. CASE Ring = <<>>
  <2>1. Ring' = <<fresh>>
    BY <1>1 DEF increase
  <2>2. Ring' \in Seq(trafficEntry) /\ Len(Ring') = 1 /\ DOMAIN Ring' = {1} /\ Ring'[1] = fresh
    BY <2>1, <1>fresh
  <2>3. RingTypeOK' /\ RingBounded' /\ Spaced'
    BY <2>2, <1>max, <1>now, <1>traffic DEF RingTypeOK, RingBounded, Spaced
  <2>4. \A t \in Seconds : traffic[t] = NoVolume
    BY <1>1, <1>t DEF Suffix
  <2>5. Faithful'
    <3>1. traffic'[now].In = v.In /\ traffic'[now].Out = v.Out
      BY <2>4, <1>now, <1>v, <1>traffic DEF NoVolume
    <3> QED
      BY <2>2, <3>1, <1>now DEF Faithful
  <2>6. \A t \in Seconds : traffic'[t] # NoVolume => t = now
    BY <2>4, <1>traffic
  <2>7. Ring' # <<>> /\ Ring'[1].Timestamp = now
    BY <2>1
  <2>8. Suffix' /\ CutIsLong'
    BY <2>2, <2>6, <2>7, <1>now DEF Suffix, CutIsLong
  <2> QED
    BY <2>3, <2>5, <2>8, <1>future DEF RingInv
<1>2. CASE Ring # <<>>
  <2> DEFINE cut == shrink(Ring)
             n   == Len(cut)
  <2>1. /\ cut \in Seq(trafficEntry)
        /\ n >= 1
        /\ n < MaxRingSize
        /\ \E d \in {0, 1} :
              /\ n = Len(Ring) - d
              /\ d = 1 => Len(Ring) = MaxRingSize
              /\ \A i \in 1 .. n : cut[i] = Ring[i + d]
    BY <1>2, <1>t, ShrinkCuts DEF RingTypeOK, RingBounded
  <2>2. PICK d \in {0, 1} :
              /\ n = Len(Ring) - d
              /\ d = 1 => Len(Ring) = MaxRingSize
              /\ \A i \in 1 .. n : cut[i] = Ring[i + d]
    BY <2>1
  <2>3. n \in Nat /\ DOMAIN cut = 1 .. n
    BY <2>1, LenProperties
  <2>4. \A i \in 1 .. n : /\ cut[i] \in trafficEntry
                          /\ cut[i].Timestamp \in Seconds
                          /\ cut[i].In \in Nat
                          /\ cut[i].Out \in Nat
    BY <2>1, <1>entry, ElementOfSeq
  <2>ints. \A i \in 1 .. n : cut[i].Timestamp \in Int
    BY <2>4, <1>now
  <2> HIDE DEF cut, n, fresh
  \* The invariant of the cut slice, against the traffic before the packet.
  <2>spaced. \A i, j \in 1 .. n : i < j => cut[j].Timestamp - cut[i].Timestamp >= j - i
    <3> SUFFICES ASSUME NEW i \in 1 .. n, NEW j \in 1 .. n, i < j
                 PROVE  cut[j].Timestamp - cut[i].Timestamp >= j - i
      OBVIOUS
    <3>1. i + d \in DOMAIN Ring /\ j + d \in DOMAIN Ring /\ i + d < j + d
      BY <2>2, <2>3, <1>len
    <3>2. Ring[j + d].Timestamp - Ring[i + d].Timestamp >= (j + d) - (i + d)
      BY <3>1, <1>t DEF Spaced
    <3>3. cut[i] = Ring[i + d] /\ cut[j] = Ring[j + d]
      BY <2>2
    <3>4. (j + d) - (i + d) = j - i
      BY <2>3
    <3> QED
      BY <3>2, <3>3, <3>4
  <2>faithful. \A i \in 1 .. n : /\ cut[i].Timestamp <= now
                                 /\ cut[i].In = traffic[cut[i].Timestamp].In
                                 /\ cut[i].Out = traffic[cut[i].Timestamp].Out
    <3> SUFFICES ASSUME NEW i \in 1 .. n
                 PROVE  /\ cut[i].Timestamp <= now
                        /\ cut[i].In = traffic[cut[i].Timestamp].In
                        /\ cut[i].Out = traffic[cut[i].Timestamp].Out
      OBVIOUS
    <3>1. i + d \in DOMAIN Ring /\ cut[i] = Ring[i + d]
      BY <2>2, <2>3, <1>len
    <3> QED
      BY <3>1, <1>t DEF Faithful
  <2>suffix. \A t \in Seconds :
                traffic[t] # NoVolume /\ t >= cut[1].Timestamp
                  => \E i \in 1 .. n : cut[i].Timestamp = t
    <3> SUFFICES ASSUME NEW t \in Seconds, traffic[t] # NoVolume, t >= cut[1].Timestamp
                 PROVE  \E i \in 1 .. n : cut[i].Timestamp = t
      OBVIOUS
    <3>0. t \in Int /\ d \in Int
      BY <1>now
    <3>1. 1 \in DOMAIN Ring /\ 1 + d \in DOMAIN Ring /\ cut[1] = Ring[1 + d]
      <4>1. 1 \in 1 .. n /\ 1 + d \in 1 .. Len(Ring) /\ 1 \in 1 .. Len(Ring)
        BY <2>1, <2>2, <2>3, <1>len
      <4> QED
        BY <4>1, <2>2, <1>len
    <3>2. Ring[1].Timestamp <= Ring[1 + d].Timestamp
      <4>1. CASE d = 0
        BY <4>1, <3>1, <1>stamps
      <4>2. CASE d = 1
        <5>1. Ring[1 + d].Timestamp - Ring[1].Timestamp >= (1 + d) - 1
          BY <4>2, <3>1, <1>t DEF Spaced
        <5> QED
          BY <4>2, <5>1, <3>1, <1>stamps
      <4> QED
        BY <4>1, <4>2
    <3>3. t >= Ring[1].Timestamp
      BY <3>0, <3>1, <3>2, <1>stamps
    <3>4. PICK k \in DOMAIN Ring : Ring[k].Timestamp = t
      BY <3>3, <1>t, <1>2 DEF Suffix
    <3>5. k >= 1 + d
      <4> SUFFICES ASSUME k < 1 + d PROVE FALSE
        BY <1>len
      <4>1. Ring[1 + d].Timestamp - Ring[k].Timestamp >= (1 + d) - k
        BY <3>1, <1>t DEF Spaced
      <4> QED
        <5>1. k \in Int
          BY <1>len
        <5>2. Ring[1 + d].Timestamp <= t
          BY <3>1
        <5>3. Ring[1 + d].Timestamp \in Int /\ Ring[k].Timestamp = t
          BY <3>1, <3>4, <1>stamps
        <5> QED
          BY <4>1, <5>1, <5>2, <5>3, <3>0
    <3>6. k - d \in 1 .. n /\ (k - d) + d = k
      BY <3>4, <3>5, <2>2, <2>3, <1>len
    <3> QED
      BY <3>4, <3>6, <2>2
  <2>long. \A t \in Seconds :
              traffic[t] # NoVolume /\ t < cut[1].Timestamp => n = MaxRingSize - 1
    <3> SUFFICES ASSUME NEW t \in Seconds, traffic[t] # NoVolume, t < cut[1].Timestamp
                 PROVE  n = MaxRingSize - 1
      OBVIOUS
    <3>1. CASE d = 1
      BY <3>1, <2>2, <1>len
    <3>2. CASE d = 0
      <4>1. cut[1] = Ring[1] /\ n = Len(Ring)
        BY <3>2, <2>1, <2>2, <2>3, <1>len
      <4> QED
        <5>1. Len(Ring) >= MaxRingSize - 1
          BY <4>1, <1>2, <1>t DEF CutIsLong
        <5> QED
          BY <4>1, <5>1, <2>1, <2>3, <1>max
    <3> QED
      BY <3>1, <3>2
  <2>last. n \in 1 .. n /\ 1 \in 1 .. n
    BY <2>1, <2>3
  <2>5. CASE cut[n].Timestamp = now
    <3> DEFINE merged == [Timestamp |-> now, In |-> cut[n].In + v.In, Out |-> cut[n].Out + v.Out]
    <3>1. Ring' = [cut EXCEPT ![n] = merged]
      BY <1>2, <2>5 DEF increase, cut, n
    <3>2. merged \in trafficEntry
      BY <2>4, <2>last, <1>now, <1>v DEF trafficEntry
    <3>3. /\ Ring' \in Seq(trafficEntry)
          /\ Len(Ring') = n
          /\ DOMAIN Ring' = 1 .. n
          /\ \A j \in 1 .. n : Ring'[j] = IF j = n THEN merged ELSE cut[j]
      <4> HIDE DEF merged
      <4>1. Ring' \in Seq(trafficEntry) /\ Len(Ring') = n
        BY <3>1, <3>2, <2>1, <2>last, ExceptSeq DEF n
      <4> QED
        BY <4>1, <3>1, <2>3, <2>last, LenProperties
    <3>4. \A j \in 1 .. n : Ring'[j].Timestamp = cut[j].Timestamp
      BY <3>3, <2>5, <2>last
    <3>5. RingTypeOK' /\ RingBounded' /\ Spaced'
      <4>1. RingTypeOK' /\ RingBounded'
        BY <3>3, <2>1, <2>3, <1>max, <1>now, <1>traffic DEF RingTypeOK, RingBounded
      <4>2. Spaced'
        BY <3>3, <3>4, <2>spaced DEF Spaced
      <4> QED
        BY <4>1, <4>2
    <3>6. Faithful'
      <4> SUFFICES ASSUME NEW j \in 1 .. n
                   PROVE  /\ Ring'[j].Timestamp <= now
                          /\ Ring'[j].In = traffic'[Ring'[j].Timestamp].In
                          /\ Ring'[j].Out = traffic'[Ring'[j].Timestamp].Out
        BY <3>3 DEF Faithful
      <4>1. CASE j = n
        <5>1. Ring'[n].Timestamp = now /\ Ring'[n].In = cut[n].In + v.In
                                       /\ Ring'[n].Out = cut[n].Out + v.Out
          BY <3>3, <2>last
        <5>2. cut[n].In = traffic[now].In /\ cut[n].Out = traffic[now].Out
          BY <2>5, <2>faithful, <2>last
        <5> QED
          BY <4>1, <5>1, <5>2, <1>traffic, <1>now
      <4>2. CASE j # n
        <5>1. cut[j].Timestamp < cut[n].Timestamp
          BY <4>2, <2>spaced, <2>last, <2>3, <2>ints
        <5>2. cut[j].Timestamp # now /\ cut[j].Timestamp \in Seconds
          BY <5>1, <2>5, <2>4, <2>ints, <1>now
        <5> QED
          BY <4>2, <5>2, <3>3, <2>faithful, <1>traffic
      <4> QED
        BY <4>1, <4>2
    <3>7. Suffix'
      <4>1. Ring' # <<>>
        BY <3>3, <2>1
      <4> SUFFICES ASSUME NEW t \in Seconds, traffic'[t] # NoVolume, t >= Ring'[1].Timestamp
                   PROVE  \E i \in 1 .. n : Ring'[i].Timestamp = t
        BY <4>1, <3>3 DEF Suffix
      <4>2. CASE t = now
        BY <4>2, <3>4, <2>5, <2>last
      <4>3. CASE t # now
        <5>1. \E i \in 1 .. n : cut[i].Timestamp = t
          BY <4>3, <3>4, <2>suffix, <2>last, <1>traffic
        <5> QED
          BY <5>1, <3>4
      <4> QED
        BY <4>2, <4>3
    <3>8. CutIsLong'
      <4> SUFFICES ASSUME NEW t \in Seconds, traffic'[t] # NoVolume, t < Ring'[1].Timestamp
                   PROVE  n >= MaxRingSize - 1
        BY <3>3 DEF CutIsLong
      <4>1. t < cut[1].Timestamp /\ cut[1].Timestamp <= now
        BY <3>4, <2>last, <2>faithful
      <4>2. t # now
        BY <4>1, <2>ints, <2>last, <1>now
      <4> QED
        BY <4>1, <4>2, <2>long, <2>3, <1>traffic
    <3> QED
      BY <3>5, <3>6, <3>7, <3>8, <1>future DEF RingInv
  <2>6. CASE cut[n].Timestamp # now
    <3> HIDE DEF fresh
    <3>1. Ring' = Append(cut, fresh)
      BY <1>2, <2>6 DEF increase, cut, n, fresh
    <3>2. /\ Ring' \in Seq(trafficEntry)
          /\ Len(Ring') = n + 1
          /\ DOMAIN Ring' = 1 .. (n + 1)
          /\ \A j \in 1 .. n : Ring'[j] = cut[j]
          /\ Ring'[n + 1] = fresh
      <4>1. /\ Ring' \in Seq(trafficEntry)
            /\ Len(Ring') = n + 1
            /\ \A j \in 1 .. n : Ring'[j] = cut[j]
            /\ Ring'[n + 1] = fresh
        BY <3>1, <1>fresh, <2>1, <2>3, AppendProperties DEF n
      <4> QED
        BY <4>1, LenProperties
    <3>3. fresh.Timestamp = now /\ fresh.In = v.In /\ fresh.Out = v.Out
      BY DEF fresh
    <3>past. \A j \in 1 .. n : /\ cut[j].Timestamp \in Seconds
                               /\ now - cut[j].Timestamp >= (n + 1) - j
      <4> SUFFICES ASSUME NEW j \in 1 .. n
                   PROVE  now - cut[j].Timestamp >= (n + 1) - j
        BY <2>4
      <4>1. cut[n].Timestamp < now
        BY <2>6, <2>faithful, <2>last, <2>ints, <1>now
      <4>2. cut[n].Timestamp - cut[j].Timestamp >= n - j
        BY <2>spaced, <2>last, <2>3, <2>ints
      <4> QED
        BY <4>1, <4>2, <2>3, <2>ints, <2>last, <1>now
    <3>quiet. traffic[now] = NoVolume
      <4> SUFFICES ASSUME traffic[now] # NoVolume
                   PROVE  FALSE
        OBVIOUS
      <4>1. now \in Seconds /\ now >= cut[1].Timestamp
        BY <2>faithful, <2>last, <2>ints, <1>now
      <4>2. PICK i \in 1 .. n : cut[i].Timestamp = now
        BY <4>1, <2>suffix
      <4> QED
        BY <4>2, <3>past, <2>3, <1>now
    <3>4. RingTypeOK' /\ RingBounded'
      BY <3>2, <2>1, <2>3, <1>max, <1>now, <1>traffic DEF RingTypeOK, RingBounded
    <3>5. Spaced'
      <4> SUFFICES ASSUME NEW i \in 1 .. (n + 1), NEW j \in 1 .. (n + 1), i < j
                   PROVE  Ring'[j].Timestamp - Ring'[i].Timestamp >= j - i
        BY <3>2 DEF Spaced
      <4>1. i \in 1 .. n
        BY <2>3
      <4>2. CASE j \in 1 .. n
        BY <4>1, <4>2, <3>2, <2>spaced
      <4>3. CASE j = n + 1
        BY <4>1, <4>3, <3>2, <3>3, <3>past
      <4> QED
        BY <4>2, <4>3, <2>3
    <3>6. Faithful'
      <4> SUFFICES ASSUME NEW j \in 1 .. (n + 1)
                   PROVE  /\ Ring'[j].Timestamp <= now
                          /\ Ring'[j].In = traffic'[Ring'[j].Timestamp].In
                          /\ Ring'[j].Out = traffic'[Ring'[j].Timestamp].Out
        BY <3>2 DEF Faithful
      <4>1. CASE j = n + 1
        <5>1. Ring'[j].Timestamp = now /\ Ring'[j].In = v.In /\ Ring'[j].Out = v.Out
          BY <4>1, <3>2, <3>3
        <5>2. traffic'[now].In = v.In /\ traffic'[now].Out = v.Out
          BY <3>quiet, <1>traffic, <1>v DEF NoVolume
        <5> QED
          BY <5>1, <5>2, <1>now
      <4>2. CASE j \in 1 .. n
        <5>1. cut[j].Timestamp # now /\ cut[j].Timestamp \in Seconds
          BY <4>2, <3>past, <2>3, <1>now
        <5> QED
          BY <4>2, <5>1, <3>2, <2>faithful, <1>traffic
      <4> QED
        BY <4>1, <4>2, <2>3
    <3>7. Suffix'
      <4>1. Ring' # <<>> /\ Ring'[1] = cut[1] /\ n + 1 \in 1 .. (n + 1)
        BY <3>2, <2>3, <2>last
      <4> SUFFICES ASSUME NEW t \in Seconds, traffic'[t] # NoVolume, t >= Ring'[1].Timestamp
                   PROVE  \E i \in 1 .. (n + 1) : Ring'[i].Timestamp = t
        BY <4>1, <3>2 DEF Suffix
      <4>2. CASE t = now
        BY <4>1, <4>2, <3>2, <3>3
      <4>3. CASE t # now
        <5>1. PICK i \in 1 .. n : cut[i].Timestamp = t
          BY <4>1, <4>3, <2>suffix, <1>traffic
        <5>2. i \in 1 .. (n + 1)
          BY <2>3
        <5> QED
          BY <5>1, <5>2, <3>2
      <4> QED
        BY <4>2, <4>3
    <3>8. CutIsLong'
      <4>1. Ring'[1] = cut[1]
        BY <3>2, <2>last
      <4> SUFFICES ASSUME NEW t \in Seconds, traffic'[t] # NoVolume, t < Ring'[1].Timestamp
                   PROVE  n + 1 >= MaxRingSize - 1
        BY <3>2 DEF CutIsLong
      <4>2. t # now
        BY <4>1, <2>faithful, <2>last, <2>ints, <1>now
      <4> QED
        BY <4>1, <4>2, <2>long, <2>3, <1>traffic
    <3> QED
      BY <3>4, <3>5, <3>6, <3>7, <3>8, <1>future DEF RingInv
  <2> QED
    BY <2>5, <2>6
<1> QED
  BY <1>1, <1>2

-----------------------------------------------------------------------------
\* The invariant holds initially: an empty slice and no traffic.
LEMMA RingInvInit == Init => RingInv
<1> SUFFICES ASSUME Init PROVE RingInv
  OBVIOUS
<1>1. Ring = <<>> /\ now = 0 /\ traffic = [t \in Seconds |-> NoVolume]
  BY DEF Init
<1>2. Ring \in Seq(trafficEntry) /\ Len(Ring) = 0 /\ DOMAIN Ring = {}
  BY <1>1
<1>3. RingTypeOK /\ RingBounded
  BY <1>1, <1>2, RingSizeAssumption, BoundsAssumption
  DEF RingTypeOK, RingBounded, Seconds, Volume, NoVolume
<1>4. Spaced /\ Faithful
  BY <1>2 DEF Spaced, Faithful
<1>5. FutureQuiet /\ Suffix /\ CutIsLong
  BY <1>1 DEF FutureQuiet, Suffix, CutIsLong
<1> QED
  BY <1>3, <1>4, <1>5 DEF RingInv

\* Every step preserves the invariant.
LEMMA RingInvStep == RingInv /\ [Next]_vars => RingInv'
<1> SUFFICES ASSUME RingInv, [Next]_vars PROVE RingInv'
  OBVIOUS
<1>1. CASE Tick
  <2>1. now' = now + 1 /\ now < MaxTime /\ Ring' = Ring /\ traffic' = traffic
    BY <1>1 DEF Tick
  <2>2. RingTypeOK' /\ RingBounded' /\ Spaced' /\ Suffix' /\ CutIsLong'
    BY <2>1, BoundsAssumption
    DEF RingInv, RingTypeOK, RingBounded, Spaced, Suffix, CutIsLong, Seconds
  <2>3. Faithful'
    <3> SUFFICES ASSUME NEW i \in DOMAIN Ring
                 PROVE  /\ Ring[i].Timestamp <= now + 1
                        /\ Ring[i].In = traffic[Ring[i].Timestamp].In
                        /\ Ring[i].Out = traffic[Ring[i].Timestamp].Out
      BY <2>1 DEF Faithful
    <3>1. Ring[i] \in trafficEntry
      BY LenProperties, ElementOfSeq DEF RingInv, RingTypeOK
    <3> QED
      BY <3>1 DEF RingInv, RingTypeOK, Faithful, trafficEntry, Seconds
  <2>4. FutureQuiet'
    BY <2>1, BoundsAssumption DEF RingInv, RingTypeOK, FutureQuiet, Seconds
  <2> QED
    BY <2>2, <2>3, <2>4 DEF RingInv
<1>2. ASSUME NEW n \in Lengths, IncreaseInput(n)
      PROVE  RingInv'
  <2> DEFINE v == [In |-> n, Out |-> 0]
  <2>1. n \in Nat \ {0}
    BY LengthsAssumption
  <2>2. v \in Volume /\ v # NoVolume
    BY <2>1 DEF Volume, NoVolume
  <2>3. /\ Ring' = increase(Ring, now, v)
        /\ traffic' = [traffic EXCEPT ![now] = plus(@, v)]
        /\ now' = now
    BY <1>2 DEF IncreaseInput
  <2> QED
    BY <2>2, <2>3, IncreasePreserves
<1>3. ASSUME NEW n \in Lengths, IncreaseOutput(n)
      PROVE  RingInv'
  <2> DEFINE v == [In |-> 0, Out |-> n]
  <2>1. n \in Nat \ {0}
    BY LengthsAssumption
  <2>2. v \in Volume /\ v # NoVolume
    BY <2>1 DEF Volume, NoVolume
  <2>3. /\ Ring' = increase(Ring, now, v)
        /\ traffic' = [traffic EXCEPT ![now] = plus(@, v)]
        /\ now' = now
    BY <1>3 DEF IncreaseOutput
  <2> QED
    BY <2>2, <2>3, IncreasePreserves
<1>4. ASSUME UNCHANGED <<now, Ring, traffic>>
      PROVE  RingInv'
  BY <1>4 DEF RingInv, RingTypeOK, RingBounded, Spaced, Faithful, FutureQuiet, Suffix, CutIsLong
<1>5. ASSUME NEW sec \in Accepted, analyseStats(sec)
      PROVE  RingInv'
  BY <1>4, <1>5 DEF analyseStats
<1>6. CASE UNCHANGED vars
  BY <1>4, <1>6 DEF vars
<1> QED
  BY <1>1, <1>2, <1>3, <1>5, <1>6 DEF Next

\* The inductive invariant holds in every reachable state.
THEOREM RingInvariant == Spec => []RingInv
BY RingInvInit, RingInvStep, PTL DEF Spec

-----------------------------------------------------------------------------
\* The slice of a process, the clock and the history keep their types
\* (process.go:20, the Ring field of Process).
THEOREM RingTypeCorrect == Spec => []RingTypeOK
<1>1. RingInv => RingTypeOK
  BY DEF RingInv
<1> QED
  BY <1>1, RingInvariant, PTL

\* However the packets arrive, the slice of a process holds at most maxRingSize
\* entries (process.go:66, shrink).
THEOREM RingIsBounded == Spec => []RingBounded
<1>1. RingInv => RingBounded
  BY DEF RingInv
<1> QED
  BY <1>1, RingInvariant, PTL

\* Every entry holds exactly the bytes attributed in its second, no second has
\* two entries and the entries are in time order (process.go:72, 99).
THEOREM RingIsFaithful == Spec => []RingFaithful
<1>1. RingInv => RingFaithful
  <2> SUFFICES ASSUME RingInv PROVE RingFaithful
    OBVIOUS
  <2>1. Len(Ring) \in Nat /\ DOMAIN Ring = 1 .. Len(Ring)
    BY LenProperties DEF RingInv, RingTypeOK
  <2>2. \A i \in DOMAIN Ring : Ring[i] \in trafficEntry
    BY <2>1, ElementOfSeq DEF RingInv, RingTypeOK
  <2>3. \A i, j \in DOMAIN Ring : i < j => Ring[i].Timestamp < Ring[j].Timestamp
    BY <2>1, <2>2 DEF RingInv, Spaced, trafficEntry, Seconds
  <2>4. ASSUME NEW i \in DOMAIN Ring
        PROVE  /\ Ring[i].Timestamp <= now
               /\ traffic[Ring[i].Timestamp] = [In |-> Ring[i].In, Out |-> Ring[i].Out]
    <3>1. traffic[Ring[i].Timestamp] \in Volume
      BY <2>2 DEF RingInv, RingTypeOK, trafficEntry
    <3> QED
      BY <3>1 DEF RingInv, Faithful, Volume
  <2> QED
    BY <2>3, <2>4 DEF RingFaithful
<1> QED
  BY <1>1, RingInvariant, PTL

\* The invariant keeps the recent seconds.
LEMMA RingInvRecent == RingInv => RecentKept
<1> SUFFICES ASSUME RingInv,
                    NEW t \in Seconds,
                    traffic[t] # NoVolume,
                    t >= now - (MaxRingSize - 2)
             PROVE  \E i \in DOMAIN Ring :
                       /\ Ring[i].Timestamp = t
                       /\ Ring[i].In = traffic[t].In
                       /\ Ring[i].Out = traffic[t].Out
  BY DEF RecentKept
<1>1. Ring # <<>>
  BY DEF RingInv, Suffix
<1>2. Len(Ring) \in Nat /\ Len(Ring) >= 1 /\ DOMAIN Ring = 1 .. Len(Ring)
  BY <1>1, LenProperties, EmptySeq DEF RingInv, RingTypeOK
<1>3. /\ Ring[1].Timestamp \in Int /\ Ring[Len(Ring)].Timestamp \in Int
      /\ now \in Int /\ t \in Int /\ MaxRingSize \in Int
  <2>1. Ring[1] \in trafficEntry /\ Ring[Len(Ring)] \in trafficEntry
    BY <1>2, ElementOfSeq DEF RingInv, RingTypeOK
  <2>2. now \in Seconds /\ \A s \in Seconds : s \in Int
    BY BoundsAssumption DEF RingInv, RingTypeOK, Seconds
  <2>3. MaxRingSize \in Int
    BY RingSizeAssumption
  <2> QED
    <3>1. Ring[1].Timestamp \in Seconds /\ Ring[Len(Ring)].Timestamp \in Seconds
      BY <2>1 DEF trafficEntry
    <3> QED
      BY <3>1, <2>2, <2>3
<1>4. t >= Ring[1].Timestamp
  <2> SUFFICES ASSUME t < Ring[1].Timestamp PROVE FALSE
    BY <1>3
  <2>1. Len(Ring) >= MaxRingSize - 1
    BY <1>1 DEF RingInv, CutIsLong
  <2>2. Ring[Len(Ring)].Timestamp - Ring[1].Timestamp >= Len(Ring) - 1
    BY <1>2, <1>3 DEF RingInv, Spaced
  <2>3. Ring[Len(Ring)].Timestamp <= now
    BY <1>2 DEF RingInv, Faithful
  <2> QED
    BY <2>1, <2>2, <2>3, <1>2, <1>3
<1>5. PICK i \in DOMAIN Ring : Ring[i].Timestamp = t
  BY <1>1, <1>4 DEF RingInv, Suffix
<1> QED
  BY <1>5 DEF RingInv, Faithful

\* Although a full slice is cut before the second of the packet is compared, no
\* second among the last maxRingSize - 1 loses a byte (process.go:83, 87).
THEOREM RecentIsKept == Spec => []RecentKept
BY RingInvRecent, RingInvariant, PTL

-----------------------------------------------------------------------------
(* The statistics.                                                         *)

\* g is one of the two counters of the entries, f the same counter of the seconds.
Counter(g, f) ==
    /\ \A i \in DOMAIN Ring : g[i] \in Nat /\ g[i] = f[Ring[i].Timestamp]
    /\ \A t \in Seconds : f[t] \in Nat /\ (traffic[t] = NoVolume => f[t] = 0)

\* The sum over a window of the slice and over the seconds that it stands for.
LEMMA WindowSum ==
    ASSUME RingInv, NEW sec \in Nat, sec # 0, NEW g, NEW f, Counter(g, f),
           NEW W, W = window(Ring, now - sec),
           NEW T, T = {t \in Seconds : now - sec <= t /\ t <= now}
    PROVE  /\ SumFunctionOnSet(g, W) \in Nat
           /\ SumFunctionOnSet(g, W) <= SumFunctionOnSet(f, T)
           /\ sec <= MaxRingSize - 2 => SumFunctionOnSet(g, W) = SumFunctionOnSet(f, T)
<1> DEFINE m == [i \in W |-> Ring[i].Timestamp]
<1>1. /\ Len(Ring) \in Nat /\ DOMAIN Ring = 1 .. Len(Ring)
      /\ MaxRingSize \in Nat /\ now \in Nat /\ Seconds \subseteq Nat /\ MaxTime \in Nat
  BY LenProperties, RingSizeAssumption, BoundsAssumption DEF RingInv, RingTypeOK, Seconds
<1>2. \A i \in DOMAIN Ring : Ring[i].Timestamp \in Seconds
  <2>1. \A i \in DOMAIN Ring : Ring[i] \in trafficEntry
    BY <1>1, ElementOfSeq DEF RingInv, RingTypeOK
  <2> QED  BY <2>1 DEF trafficEntry
<1>3. W \subseteq DOMAIN Ring /\ T \subseteq Seconds
  BY DEF window
<1>4. IsFiniteSet(W) /\ IsFiniteSet(T)
  <2>1. IsFiniteSet(1 .. Len(Ring)) /\ IsFiniteSet(0 .. MaxTime)  BY <1>1, FS_Interval
  <2> QED  BY <1>1, <1>3, <2>1, FS_Subset DEF Seconds
<1>5. (\A i \in W : g[i] \in Nat) /\ (\A t \in T : f[t] \in Nat)
  BY <1>3 DEF Counter
<1>6. \A i \in W : m[i] \in T /\ g[i] = f[m[i]]
  <2>1. ASSUME NEW i \in W PROVE m[i] \in T
    <3>1. i \in DOMAIN Ring /\ Ring[i].Timestamp >= now - sec  BY DEF window
    <3>2. Ring[i].Timestamp <= now  BY <3>1 DEF RingInv, Faithful
    <3> QED  BY <1>1, <1>2, <3>1, <3>2
  <2> QED  BY <1>3, <2>1 DEF Counter
<1>7. \A i, j \in W : m[i] = m[j] => i = j
  <2>1. ASSUME NEW i \in W, NEW j \in W, i < j PROVE m[i] # m[j]
    <3>1. i \in DOMAIN Ring /\ j \in DOMAIN Ring  BY <1>3
    <3>2. Ring[j].Timestamp - Ring[i].Timestamp >= j - i  BY <2>1, <3>1 DEF RingInv, Spaced
    <3>3. Ring[j].Timestamp \in Nat /\ Ring[i].Timestamp \in Nat  BY <1>1, <1>2, <3>1
    <3>4. i \in Nat /\ j \in Nat  BY <1>1, <3>1
    <3> QED  BY <2>1, <3>2, <3>3, <3>4
  <2>2. \A i, j \in W : i < j \/ j < i \/ i = j  BY <1>1, <1>3
  <2> HIDE DEF m
  <2> QED  BY <2>1, <2>2
<1>8. ASSUME sec <= MaxRingSize - 2, NEW t \in T, \A i \in W : m[i] # t
      PROVE  f[t] = 0
  <2>1. SUFFICES ASSUME traffic[t] # NoVolume PROVE FALSE
    BY <1>3 DEF Counter
  <2>2. t \in Seconds /\ t >= now - sec  OBVIOUS
  <2>3. t >= now - (MaxRingSize - 2)  BY <1>1, <1>8, <2>2
  <2>4. PICK i \in DOMAIN Ring : Ring[i].Timestamp = t
    BY <2>1, <2>2, <2>3, RingInvRecent DEF RecentKept
  <2>5. i \in W  BY <2>2, <2>4 DEF window
  <2> QED  BY <1>8, <2>4, <2>5
<1>9. \A i \in W : g[i] <= f[m[i]]  BY <1>5, <1>6
<1> HIDE DEF m
<1>10. SumFunctionOnSet(g, W) \in Nat  BY ONLY <1>4, <1>5, SumType
<1>11. SumFunctionOnSet(g, W) <= SumFunctionOnSet(f, T)
  BY ONLY <1>4, <1>5, <1>6, <1>7, <1>9, SumLess
<1>12. ASSUME sec <= MaxRingSize - 2
       PROVE  SumFunctionOnSet(g, W) = SumFunctionOnSet(f, T)
  <2>1. \A t \in T : (\A i \in W : m[i] # t) => f[t] = 0  BY <1>8, <1>12
  <2> QED  BY ONLY <1>4, <1>5, <1>6, <1>7, <2>1, SumSame
<1> QED  BY <1>10, <1>11, <1>12

\* The two counters of the slice and of the history are the g and f of WindowSum.
LEMMA StatsSums ==
    ASSUME RingInv, NEW sec \in Nat, sec # 0
    PROVE  LET true == TrueVolume(now - sec, now)
               in   == sumIn(Ring, now - sec)
               out  == sumOut(Ring, now - sec)
           IN  /\ in \in Nat /\ out \in Nat
               /\ in <= true.In /\ out <= true.Out
               /\ sec <= MaxRingSize - 2 => in = true.In /\ out = true.Out
<1> DEFINE W  == window(Ring, now - sec)
           T  == {t \in Seconds : now - sec <= t /\ t <= now}
           gI == [i \in DOMAIN Ring |-> Ring[i].In]
           gO == [i \in DOMAIN Ring |-> Ring[i].Out]
           fI == [t \in Seconds |-> traffic[t].In]
           fO == [t \in Seconds |-> traffic[t].Out]
<1>1. \A i \in DOMAIN Ring : Ring[i] \in trafficEntry
  BY LenProperties, ElementOfSeq DEF RingInv, RingTypeOK
<1>2. \A t \in Seconds : traffic[t] \in Volume
  BY DEF RingInv, RingTypeOK
<1>3. \A t \in Seconds : fI[t] \in Nat /\ (traffic[t] = NoVolume => fI[t] = 0)
  BY <1>2 DEF Volume, NoVolume
<1>4. \A t \in Seconds : fO[t] \in Nat /\ (traffic[t] = NoVolume => fO[t] = 0)
  BY <1>2 DEF Volume, NoVolume
<1>5. \A i \in DOMAIN Ring : gI[i] \in Nat /\ gI[i] = fI[Ring[i].Timestamp]
  BY <1>1 DEF RingInv, Faithful, trafficEntry
<1>6. \A i \in DOMAIN Ring : gO[i] \in Nat /\ gO[i] = fO[Ring[i].Timestamp]
  BY <1>1 DEF RingInv, Faithful, trafficEntry
<1>c. Counter(gI, fI) /\ Counter(gO, fO)
  <2> HIDE DEF gI, gO, fI, fO
  <2> QED  BY <1>3, <1>4, <1>5, <1>6 DEF Counter
<1>7. /\ sumIn(Ring, now - sec) = SumFunctionOnSet(gI, W)
      /\ sumOut(Ring, now - sec) = SumFunctionOnSet(gO, W)
  BY DEF sumIn, sumOut
<1>8. /\ TrueVolume(now - sec, now).In = SumFunctionOnSet(fI, T)
      /\ TrueVolume(now - sec, now).Out = SumFunctionOnSet(fO, T)
  BY DEF TrueVolume
<1>9. W = window(Ring, now - sec) /\ T = {t \in Seconds : now - sec <= t /\ t <= now}
  OBVIOUS
<1>r. RingInv /\ sec \in Nat /\ sec # 0  OBVIOUS
<1> HIDE DEF W, T, gI, gO, fI, fO
<1>10. /\ SumFunctionOnSet(gI, W) \in Nat
       /\ SumFunctionOnSet(gI, W) <= SumFunctionOnSet(fI, T)
       /\ sec <= MaxRingSize - 2 => SumFunctionOnSet(gI, W) = SumFunctionOnSet(fI, T)
  BY ONLY <1>r, <1>c, <1>9, WindowSum
<1>11. /\ SumFunctionOnSet(gO, W) \in Nat
       /\ SumFunctionOnSet(gO, W) <= SumFunctionOnSet(fO, T)
       /\ sec <= MaxRingSize - 2 => SumFunctionOnSet(gO, W) = SumFunctionOnSet(fO, T)
  BY ONLY <1>r, <1>c, <1>9, WindowSum
<1> QED  BY <1>7, <1>8, <1>10, <1>11

\* The computed statistics are natural numbers.
LEMMA StatsTyped == RingInv /\ TypeOK /\ [Next]_vars => TypeOK'
<1> SUFFICES ASSUME RingInv, TypeOK, [Next]_vars PROVE TypeOK'
  OBVIOUS
<1>1. RingTypeOK'  BY RingInvStep DEF RingInv
<1>2. TrafficStats' \in trafficStatsEntry
  <2>1. CASE UNCHANGED TrafficStats  BY <2>1 DEF TypeOK
  <2>2. ASSUME NEW sec \in Accepted, analyseStats(sec) PROVE TrafficStats' \in trafficStatsEntry
    <3> DEFINE in  == sumIn(Ring, now - sec)
               out == sumOut(Ring, now - sec)
    <3>1. sec \in Nat /\ sec # 0
      BY <2>2, RingSizeAssumption DEF Accepted, analyseStats
    <3>2. in \in Nat /\ out \in Nat  BY <3>1, StatsSums
    <3>3. TrafficStats' = [In |-> in, Out |-> out, InRate |-> in \div sec, OutRate |-> out \div sec]
      BY <2>2 DEF analyseStats
    <3> HIDE DEF in, out
    <3>4. in \div sec \in Nat /\ out \div sec \in Nat  BY <3>1, <3>2
    <3> QED  BY <3>2, <3>3, <3>4 DEF trafficStatsEntry
  <2> QED
    BY <2>1, <2>2 DEF Next, vars, Tick, IncreaseInput, IncreaseOutput
<1> QED  BY <1>1, <1>2 DEF TypeOK

\* The slice keeps its type, and the sums and rates that analyseStats stores are
\* natural numbers (process.go:42-65).
THEOREM TypeCorrect == Spec => []TypeOK
<1>1. Init => TypeOK
  <2> SUFFICES ASSUME Init PROVE TypeOK
    OBVIOUS
  <2>1. RingTypeOK  BY RingInvInit DEF RingInv
  <2>2. TrafficStats \in trafficStatsEntry  BY DEF Init, trafficStatsEntry
  <2> QED  BY <2>1, <2>2 DEF TypeOK
<1> QED
  BY <1>1, StatsTyped, RingInvariant, PTL DEF Spec

\* For every window of at most maxRingSize - 2 seconds, analyseStats reports exactly
\* the bytes of the seconds now - sec .. now (process.go:53-63).
THEOREM StatsAreExact == Spec => StatsExact
<1> DEFINE Exact ==
      \A sec \in 1 .. (MaxRingSize - 2) :
          analyseStats(sec) =>
              LET true == TrueVolume(now - sec, now)
              IN  /\ TrafficStats'.In = true.In
                  /\ TrafficStats'.Out = true.Out
                  /\ TrafficStats'.InRate = true.In \div sec
                  /\ TrafficStats'.OutRate = true.Out \div sec
<1>1. RingInv /\ [Next]_vars => [Exact]_vars
  <2> SUFFICES ASSUME RingInv, NEW sec \in 1 .. (MaxRingSize - 2), analyseStats(sec)
               PROVE  LET true == TrueVolume(now - sec, now)
                      IN  /\ TrafficStats'.In = true.In
                          /\ TrafficStats'.Out = true.Out
                          /\ TrafficStats'.InRate = true.In \div sec
                          /\ TrafficStats'.OutRate = true.Out \div sec
    OBVIOUS
  <2> DEFINE in  == sumIn(Ring, now - sec)
             out == sumOut(Ring, now - sec)
  <2>1. sec \in Nat /\ sec # 0 /\ sec <= MaxRingSize - 2  BY RingSizeAssumption
  <2>2. in = TrueVolume(now - sec, now).In /\ out = TrueVolume(now - sec, now).Out
    BY <2>1, StatsSums
  <2>3. TrafficStats' = [In |-> in, Out |-> out, InRate |-> in \div sec, OutRate |-> out \div sec]
    BY DEF analyseStats
  <2> HIDE DEF in, out
  <2> QED  BY <2>2, <2>3
<1> QED
  BY <1>1, RingInvariant, PTL DEF Spec, StatsExact

\* Whatever window GetProcessRank accepts, analyseStats reports no byte that did not
\* flow in it, and none twice (process.go:53-60).
THEOREM StatsInventNothing == Spec => StatsNeverInvent
<1> DEFINE NoMore ==
      \A sec \in Accepted \ {0} :
          analyseStats(sec) =>
              LET true == TrueVolume(now - sec, now)
              IN  TrafficStats'.In <= true.In /\ TrafficStats'.Out <= true.Out
<1>1. RingInv /\ [Next]_vars => [NoMore]_vars
  <2> SUFFICES ASSUME RingInv, NEW sec \in Accepted \ {0}, analyseStats(sec)
               PROVE  LET true == TrueVolume(now - sec, now)
                      IN  TrafficStats'.In <= true.In /\ TrafficStats'.Out <= true.Out
    OBVIOUS
  <2>1. sec \in Nat /\ sec # 0  BY RingSizeAssumption DEF Accepted
  <2>2. TrafficStats'.In = sumIn(Ring, now - sec) /\ TrafficStats'.Out = sumOut(Ring, now - sec)
    BY DEF analyseStats
  <2> QED  BY <2>1, <2>2, StatsSums
<1> QED
  BY <1>1, RingInvariant, PTL DEF Spec, StatsNeverInvent

-----------------------------------------------------------------------------
(* The slice as goroutines share it.  HarmOnlyByOverlap and NothingInvented *)
(* are not inductive.  What a call that runs alone finds depends on what it *)
(* found at its earlier accesses (Alone); how long a slice is, on how long  *)
(* the slices are that goroutines hold (Lengthy); no slice refers to an     *)
(* entry twice because no array does (Unique); and what entries and readers *)
(* hold is compared with what was charged entry by entry (Balanced).        *)

\* A call that has come to a cut has an entry to cut, and one that adds to an entry
\* has an entry.
Shape ==
    /\ Len(arrays) >= 1
    /\ \A w \in Writers :
          /\ pc[w] = "cutStore" => my[w].slice.len > 0
          /\ pc[w] \in {"load", "store"} => my[w].item # nil

\* While no other call runs, a call finds at each of its accesses what the one
\* before left.
Alone ==
    \A w \in Writers :
        pc[w] # "idle" /\ ~ overlap[w] =>
          /\ \A v \in Writers : v # w => pc[v] = "idle"
          /\ pc[w] \in {"full", "last"} => poRing.len > 0
          /\ pc[w] \in {"cut", "cutStore"} => poRing.len >= RingSize
          /\ pc[w] \in {"last", "append", "appendStore"} => poRing.len < RingSize + overlaps
          /\ pc[w] \in {"cutStore", "appendStore"} => my[w].slice = poRing

\* No slice that is stored or held is longer than the overlapped calls explain.
Lengthy ==
    /\ poRing.len <= RingSize + overlaps
    /\ \A w \in Writers : my[w].slice.len <= RingSize + overlaps

\* No call has been overlapped so far.
Calm == overlaps = 0 /\ \A w \in Writers : ~ overlap[w]

\* Every place of the slice holds an entry.
NoHole(s) == \A i \in 1 .. s.len : arrays[s.arr][s.off + i] # nil

\* Until then slices are whole.
Whole ==
    Calm => /\ broken # "writer"
            /\ broken = "reader" => Running # {}
            /\ NoHole(poRing) /\ NoHole(reader.slice)

\* An array refers to an entry once.
Unique ==
    \A a \in DOMAIN arrays : \A i, j \in 1 .. Len(arrays[a]) :
        arrays[a][i] = arrays[a][j] /\ arrays[a][i] # nil => i = j

\* The books: cin[o] and cout[o] are what calls that ended charged to entry o, and
\* seen are the entries in the reader's sum, to which it does not come again.
Charged(cin, cout, seen) ==
    /\ cin \in [Objects -> Nat] /\ cout \in [Objects -> Nat]
    /\ \A o \in Objects : heap[o].In <= cin[o] /\ heap[o].Out <= cout[o]
    /\ \A w \in Writers : pc[w] = "store" =>
          my[w].old <= IF my[w].dir = "In" THEN cin[my[w].item] ELSE cout[my[w].item]
    /\ SumFunctionOnSet([o \in Objects |-> cin[o] + cout[o]], Objects) <= billed
    /\ seen \subseteq Objects
    /\ reader.In <= SumFunctionOnSet(cin, seen)
    /\ \A i \in reader.next .. reader.slice.len :
          arrays[reader.slice.arr][reader.slice.off + i] \notin seen

Balanced == \E cin, cout, seen : Charged(cin, cout, seen)

\* A sequence of members of A is a sequence of members of a larger set.
LEMMA SeqWider ==
    ASSUME NEW A, NEW B, A \subseteq B, NEW s \in Seq(A)
    PROVE  s \in Seq(B)
<1>1. Len(s) \in Nat /\ DOMAIN s = 1 .. Len(s) /\ s = [i \in 1 .. Len(s) |-> s[i]]
  BY LenProperties
<1>2. \A i \in 1 .. Len(s) : s[i] \in B
  BY ElementOfSeq
<1> QED
  BY <1>1, <1>2

\* A reference of a slice is an entry or nil, and is in the slice's array.
LEMMA ViewType ==
    ASSUME RaceTypeOK, NEW s \in Header, fits(s), NEW i \in 1 .. s.len
    PROVE  /\ s.off + i \in 1 .. Len(arrays[s.arr])
           /\ view(s)[i] = arrays[s.arr][s.off + i]
           /\ view(s)[i] \in Objects \cup {nil}
<1>1. arrays \in Seq(Seq(Objects \cup {nil}))
  BY DEF RaceTypeOK
<1>2. s.arr \in 1 .. Len(arrays) /\ s.off \in Nat /\ s.len \in Nat
  BY <1>1, LenProperties DEF Header
<1>3. arrays[s.arr] \in Seq(Objects \cup {nil})
  BY <1>1, <1>2, ElementOfSeq
<1>4. Len(arrays[s.arr]) \in Nat /\ s.off + i \in 1 .. Len(arrays[s.arr])
  BY <1>2, <1>3, LenProperties DEF fits
<1>5. arrays[s.arr][s.off + i] \in Objects \cup {nil}
  BY <1>3, <1>4, ElementOfSeq
<1>6. view(s)[i] = arrays[s.arr][s.off + i]
  BY DEF view
<1> QED
  BY <1>4, <1>5, <1>6

\* The types hold at the start.
LEMMA RaceTypeInit == RaceInit => RaceTypeOK /\ Shape
<1> SUFFICES ASSUME RaceInit PROVE RaceTypeOK /\ Shape
  OBVIOUS
<1>c. RingSize \in Nat /\ LastSecond \in Nat /\ MaxCalls \in Nat /\ MaxRoom \in Nat
  BY RaceAssumption
<1>1. PICK k \in 0 .. RingSize, room \in 0 .. MaxRoom :
          /\ poRing = [arr |-> 1, off |-> 0, len |-> k]
          /\ arrays = <<[i \in 1 .. k + room |-> IF i <= k THEN i ELSE nil]>>
          /\ heap = [i \in 1 .. k |-> [Timestamp |-> i - k - 1, In |-> 1, Out |-> 0]]
          /\ billed = k /\ solo = k
  BY DEF RaceInit
<1>2. heap \in Seq(Entry) /\ Objects = 1 .. k
  <2>1. k \in Nat  BY <1>c
  <2>2. \A i \in 1 .. k : [Timestamp |-> i - k - 1, In |-> 1, Out |-> 0] \in Entry
    BY <2>1 DEF Entry
  <2>3. heap \in [1 .. k -> Entry]  BY <1>1, <2>2
  <2>4. heap \in Seq(Entry)  BY <2>1, <2>3
  <2> QED  BY <2>3, <2>4 DEF Objects
<1>3. /\ arrays \in Seq(Seq(Objects \cup {nil})) /\ Len(arrays) = 1 /\ DOMAIN arrays = {1}
      /\ Len(arrays[1]) = k + room
  <2> DEFINE a == [i \in 1 .. k + room |-> IF i <= k THEN i ELSE nil]
  <2>1. a \in Seq(Objects \cup {nil}) /\ Len(a) = k + room  BY <1>2, <1>c
  <2>2. arrays = <<a>>  BY <1>1
  <2> HIDE DEF a
  <2> QED  BY <2>1, <2>2
<1>4. noSlice \in Header /\ fits(noSlice) /\ poRing \in Header /\ fits(poRing)
  BY <1>1, <1>3, <1>c DEF Header, fits, noSlice
<1>5. locals \in Locals
  BY <1>4, <1>c DEF locals, Locals
<1>6. reader \in [pc : {"idle", "loop"}, slice : Header, next : Nat \ {0}, In : Nat] /\ fits(reader.slice)
  BY <1>4 DEF RaceInit
<1>7. \A w \in Writers : my[w] = locals /\ pc[w] = "idle"
  BY DEF RaceInit
<1>8. my \in [Writers -> Locals] /\ \A w \in Writers : fits(my[w].slice)
  BY <1>4, <1>5 DEF RaceInit, locals
<1>9. billed \in Nat /\ solo \in Nat
  BY <1>1, <1>c
<1>a. /\ clock \in 0 .. LastSecond /\ calls \in 0 .. MaxCalls
      /\ pc = [w \in Writers |-> "idle"] /\ broken = "no" /\ evicted = {}
      /\ overlap = [w \in Writers |-> FALSE] /\ overlaps = 0
  BY <1>c DEF RaceInit
<1>b. overlap \in [Writers -> BOOLEAN]
  BY <1>a, Zenon
<1>10. RaceTypeOK
  BY <1>2, <1>3, <1>4, <1>6, <1>8, <1>9, <1>a, <1>b DEF RaceTypeOK
<1>11. Shape
  BY <1>3, <1>7 DEF Shape
<1> QED
  BY <1>10, <1>11

\* What the steps of a goroutine that leave the memory alone do to the types.
LEMMA RaceTypeQuiet ==
    ASSUME RaceTypeOK, Shape, UNCHANGED memory,
           my' \in [Writers -> Locals], \A w \in Writers : fits(my'[w].slice),
           pc' \in [Writers -> {"idle", "empty", "full", "cut", "cutStore", "last", "load",
                                "store", "append", "appendStore"}],
           \A w \in Writers :
              /\ pc'[w] = "cutStore" => my'[w].slice.len > 0
              /\ pc'[w] \in {"load", "store"} => my'[w].item # nil,
           UNCHANGED <<clock, reader, broken, evicted, overlaps, billed, solo>>,
           calls' \in 0 .. MaxCalls, overlap' \in [Writers -> BOOLEAN]
    PROVE  RaceTypeOK' /\ Shape'
<1>1. /\ Objects' = Objects /\ Header' = Header /\ Locals' = Locals
  BY DEF memory, Objects, Header, Locals
<1>2. (\A w \in Writers : fits(my[w].slice))' /\ fits(poRing)' /\ fits(reader.slice)'
  BY DEF memory, fits, RaceTypeOK
<1>3. Shape'
  BY DEF memory, Shape
<1> QED
  BY <1>1, <1>2, <1>3 DEF RaceTypeOK, memory

\* An append in place writes one place of one array.
LEMMA ExtendEffect ==
    ASSUME RaceTypeOK, NEW s \in Header, fits(s), NEW o, NEW S,
           Objects \cup {nil} \subseteq S, o \in S, extend(s, o)
    PROVE  /\ arrays' \in Seq(Seq(S)) /\ Len(arrays') = Len(arrays)
           /\ s.arr \in 1 .. Len(arrays) /\ s.off + s.len + 1 \in 1 .. Len(arrays[s.arr])
           /\ \A a \in 1 .. Len(arrays) :
                /\ Len(arrays'[a]) = Len(arrays[a])
                /\ \A i \in 1 .. Len(arrays[a]) :
                      arrays'[a][i] = IF a = s.arr /\ i = s.off + s.len + 1
                                      THEN o ELSE arrays[a][i]
           /\ poRing' = [poRing EXCEPT !.len = s.len + 1]
           /\ poRing' \in Header /\ poRing'.off + poRing'.len <= Len(arrays[poRing.arr])
<1> DEFINE p == s.off + s.len + 1
           b == [arrays[s.arr] EXCEPT ![p] = o]
<1>1. arrays \in Seq(Seq(S))
  <2>1. Seq(Objects \cup {nil}) \subseteq Seq(S)  BY SeqWider
  <2> QED  BY <2>1, SeqWider DEF RaceTypeOK
<1>2. s.arr \in 1 .. Len(arrays) /\ s.off \in Nat /\ s.len \in Nat /\ Len(arrays) \in Nat
  BY <1>1, LenProperties DEF Header
<1>3. arrays[s.arr] \in Seq(S) /\ Len(arrays[s.arr]) \in Nat
  BY <1>1, <1>2, ElementOfSeq, LenProperties
<1>4. p \in 1 .. Len(arrays[s.arr])
  BY <1>2, <1>3 DEF extend, hasRoom
<1>5. b \in Seq(S) /\ Len(b) = Len(arrays[s.arr])
      /\ \A i \in 1 .. Len(arrays[s.arr]) : b[i] = IF i = p THEN o ELSE arrays[s.arr][i]
  <2> HIDE DEF p
  <2> QED  BY <1>3, <1>4, ExceptSeq
<1>6. arrays' = [arrays EXCEPT ![s.arr] = b]
  BY DEF extend
<1> HIDE DEF b, p
<1>7. arrays' \in Seq(Seq(S)) /\ Len(arrays') = Len(arrays)
      /\ \A a \in 1 .. Len(arrays) : arrays'[a] = IF a = s.arr THEN b ELSE arrays[a]
  BY <1>1, <1>2, <1>5, <1>6, ExceptSeq
<1>8. \A a \in 1 .. Len(arrays) :
         /\ Len(arrays'[a]) = Len(arrays[a])
         /\ \A i \in 1 .. Len(arrays[a]) :
               arrays'[a][i] = IF a = s.arr /\ i = p THEN o ELSE arrays[a][i]
  BY <1>5, <1>7
<1>9. poRing' = [poRing EXCEPT !.len = s.len + 1] /\ fits(lengthened(s))
  BY DEF extend, lengthened
<1>10. poRing' \in Header /\ poRing'.off + poRing'.len <= Len(arrays[poRing.arr])
  <2>1. poRing \in Header  BY DEF RaceTypeOK
  <2>2. /\ poRing' \in Header
        /\ poRing'.arr = poRing.arr /\ poRing'.off = poRing.off /\ poRing'.len = s.len + 1
    BY <1>2, <1>9, <2>1 DEF Header
  <2>3. lengthened(s) = poRing'  BY <1>9 DEF lengthened
  <2>4. lengthened(s).off + lengthened(s).len <= Len(arrays[lengthened(s).arr])
    BY <1>9 DEF fits
  <2> QED  BY <2>2, <2>3, <2>4
<1> QED
  BY <1>2, <1>4, <1>7, <1>8, <1>9, <1>10 DEF p

\* An append that needs room makes a new array that starts with the slice.
LEMMA GrowEffect ==
    ASSUME RaceTypeOK, NEW s \in Header, fits(s), NEW o, NEW S, NEW room \in Nat,
           Objects \cup {nil} \subseteq S, o \in S, grow(s, o, room)
    PROVE  /\ arrays' \in Seq(Seq(S)) /\ Len(arrays') = Len(arrays) + 1
           /\ \A a \in 1 .. Len(arrays) : arrays'[a] = arrays[a]
           /\ Len(arrays'[Len(arrays) + 1]) = s.len + 1 + room
           /\ \A i \in 1 .. s.len + 1 + room :
                 arrays'[Len(arrays) + 1][i] = IF i <= s.len THEN view(s)[i]
                                               ELSE IF i = s.len + 1 THEN o ELSE nil
           /\ poRing' = [arr |-> Len(arrays) + 1, off |-> 0, len |-> s.len + 1]
<1> DEFINE b == [i \in 1 .. s.len + 1 + room |->
                   IF i <= s.len THEN view(s)[i] ELSE IF i = s.len + 1 THEN o ELSE nil]
<1>1. arrays \in Seq(Seq(S)) /\ Len(arrays) \in Nat
  <2>1. Seq(Objects \cup {nil}) \subseteq Seq(S)  BY SeqWider
  <2> QED  BY <2>1, SeqWider, LenProperties DEF RaceTypeOK
<1>2. s.len \in Nat
  BY DEF Header
<1>3. \A i \in 1 .. s.len : view(s)[i] \in S
  BY ViewType
<1>4. s.len + 1 + room \in Nat /\ \A i \in 1 .. s.len + 1 + room : i <= s.len => i \in 1 .. s.len
  BY <1>2
<1>5. b \in [1 .. s.len + 1 + room -> S]
  BY <1>3, <1>4
<1>6. b \in Seq(S) /\ Len(b) = s.len + 1 + room
  <2> DEFINE n == s.len + 1 + room
  <2>1. n \in Nat /\ b \in [1 .. n -> S]  BY <1>4, <1>5
  <2> HIDE DEF b, n
  <2>2. b \in Seq(S) /\ Len(b) = n  BY <2>1
  <2> QED  BY <2>2 DEF n
<1>7. \A i \in 1 .. s.len + 1 + room :
         b[i] = IF i <= s.len THEN view(s)[i] ELSE IF i = s.len + 1 THEN o ELSE nil
  OBVIOUS
<1>8. arrays' = Append(arrays, b) /\ poRing' = [arr |-> Len(arrays) + 1, off |-> 0, len |-> s.len + 1]
  BY DEF grow
<1> HIDE DEF b
<1>9. arrays' \in Seq(Seq(S)) /\ Len(arrays') = Len(arrays) + 1
      /\ \A a \in 1 .. Len(arrays) : arrays'[a] = arrays[a]
      /\ arrays'[Len(arrays) + 1] = b
  BY <1>1, <1>6, <1>8, AppendProperties
<1> QED
  BY <1>6, <1>7, <1>8, <1>9

\* Each step of the goroutines preserves the types.
LEMMA RaceTypeStep == RaceTypeOK /\ Shape /\ [RaceNext]_raceVars => (RaceTypeOK /\ Shape)'
<1> SUFFICES ASSUME RaceTypeOK, Shape, [RaceNext]_raceVars PROVE (RaceTypeOK /\ Shape)'
  OBVIOUS
<1>c. LastSecond \in Nat /\ MaxCalls \in Nat /\ MaxRoom \in Nat /\ Sizes \subseteq Nat
  BY RaceAssumption
<1>m. my \in [Writers -> Locals] /\ overlap \in [Writers -> BOOLEAN]
  BY DEF RaceTypeOK
<1>0. noSlice \in Header /\ fits(noSlice)
  <2>1. arrays \in Seq(Seq(Objects \cup {nil})) /\ Len(arrays) >= 1
    BY DEF RaceTypeOK, Shape
  <2>2. 1 \in DOMAIN arrays /\ Len(arrays[1]) \in Nat
    BY <2>1, LenProperties, ElementOfSeq
  <2> QED  BY <2>2 DEF noSlice, Header, fits
<1>l. locals \in Locals
  BY <1>0, <1>c DEF locals, Locals
<1>1. ASSUME NEW w \in Writers, NEW dir \in {"In", "Out"}, NEW n \in Sizes, Call(w, dir, n)
      PROVE  (RaceTypeOK /\ Shape)'
  <2> DEFINE l == [locals EXCEPT !.t = clock, !.dir = dir, !.n = n]
  <2>1. l \in Locals /\ fits(l.slice)
    BY <1>0, <1>l, <1>c DEF locals, Locals, RaceTypeOK
  <2>2. my' = [my EXCEPT ![w] = l]  BY <1>1 DEF Call
  <2> HIDE DEF l
  <2>3. my' \in [Writers -> Locals] /\ \A v \in Writers : fits(my'[v].slice)
    BY <1>m, <2>1, <2>2 DEF RaceTypeOK
  <2>4. overlap' \in [Writers -> BOOLEAN]
    <3>1. overlap' = [v \in Writers |-> overlap[v] \/ (Running # {} /\ v \in Running \cup {w})]
      BY <1>1 DEF Call
    <3> QED  BY <3>1, Zenon
  <2>5. calls' \in 0 .. MaxCalls
    BY <1>1, <1>c DEF Call, RaceTypeOK
  <2>6. pc' = [pc EXCEPT ![w] = "empty"]  BY <1>1 DEF Call, goto
  <2>7. /\ UNCHANGED memory
        /\ UNCHANGED <<clock, reader, broken, evicted, overlaps, billed, solo>>
    BY <1>1 DEF Call
  <2>8. \A v \in Writers :
              /\ pc'[v] = "cutStore" => my'[v].slice.len > 0
              /\ pc'[v] \in {"load", "store"} => my'[v].item # nil
    BY <1>m, <2>2, <2>6 DEF Shape, RaceTypeOK
  <2>9. pc' \in [Writers -> {"idle", "empty", "full", "cut", "cutStore", "last", "load",
                                "store", "append", "appendStore"}]
    BY <2>6 DEF RaceTypeOK
  <2> QED  BY <2>3, <2>4, <2>5, <2>7, <2>8, <2>9, RaceTypeQuiet
<1>2. ASSUME NEW w \in Writers, NEW there \in {"idle", "empty", "full", "cut", "cutStore", "last",
                    "load", "store", "append", "appendStore"},
             NEW l \in Locals, fits(l.slice), my' = [my EXCEPT ![w] = l], goto(w, there),
             there = "cutStore" => l.slice.len > 0,
             there \in {"load", "store"} => l.item # nil,
             UNCHANGED <<clock, memory, reader, broken, calls, histories>>
      PROVE  (RaceTypeOK /\ Shape)'
  <2>1. my' \in [Writers -> Locals] /\ \A v \in Writers : fits(my'[v].slice)
    BY <1>m, <1>2 DEF RaceTypeOK
  <2>2. pc' = [pc EXCEPT ![w] = there]  BY <1>2 DEF goto
  <2>3. pc' \in [Writers -> {"idle", "empty", "full", "cut", "cutStore", "last", "load",
                                "store", "append", "appendStore"}]
    BY <2>2 DEF RaceTypeOK
  <2>4. \A v \in Writers :
              /\ pc'[v] = "cutStore" => my'[v].slice.len > 0
              /\ pc'[v] \in {"load", "store"} => my'[v].item # nil
    BY <1>m, <1>2, <2>2 DEF Shape, RaceTypeOK
  <2>5. overlap' \in [Writers -> BOOLEAN] /\ calls' \in 0 .. MaxCalls
    BY <1>2 DEF histories, RaceTypeOK
  <2>6. UNCHANGED memory /\ UNCHANGED <<clock, reader, broken, evicted, overlaps, billed, solo>>
    BY <1>2 DEF histories
  <2> QED  BY <2>1, <2>3, <2>4, <2>5, <2>6, RaceTypeQuiet
<1>w. ASSUME NEW w \in Writers
      PROVE  /\ my[w] \in Locals /\ fits(my[w].slice) /\ my = [my EXCEPT ![w] = my[w]]
             /\ my[w].slice \in Header
  BY <1>m DEF RaceTypeOK, Locals
<1>3. ASSUME NEW w \in Writers, TestEmpty(w) PROVE (RaceTypeOK /\ Shape)'
  <2> DEFINE there == IF poRing.len = 0 THEN "append" ELSE "full"
  <2>1. goto(w, there) /\ there \in {"append", "full"} /\ my' = [my EXCEPT ![w] = my[w]]
    BY <1>3, <1>w DEF TestEmpty
  <2>2. UNCHANGED <<clock, memory, reader, broken, calls, histories>>
    BY <1>3 DEF TestEmpty
  <2> HIDE DEF there
  <2> QED  BY <1>2, <1>w, <2>1, <2>2
<1>4. ASSUME NEW w \in Writers, TestFull(w) PROVE (RaceTypeOK /\ Shape)'
  <2> DEFINE there == IF tooLong THEN "cut" ELSE "last"
  <2>1. goto(w, there) /\ there \in {"cut", "last"} /\ my' = [my EXCEPT ![w] = my[w]]
    BY <1>4, <1>w DEF TestFull
  <2>2. UNCHANGED <<clock, memory, reader, broken, calls, histories>>
    BY <1>4 DEF TestFull
  <2> HIDE DEF there
  <2> QED  BY <1>2, <1>w, <2>1, <2>2
<1>5. ASSUME NEW w \in Writers, NEW here \in {"cut", "append"}, NEW there,
             there = (IF here = "cut" THEN "cutStore" ELSE "appendStore"),
             LoadSlice(w, here, there)
      PROVE  (RaceTypeOK /\ Shape)'
  <2> DEFINE l == [my[w] EXCEPT !.slice = poRing]
  <2>1. l \in Locals /\ fits(l.slice) /\ l.slice = poRing
    BY <1>w DEF Locals, RaceTypeOK
  <2>2. /\ my' = [my EXCEPT ![w] = l] /\ goto(w, there) /\ there \in {"cutStore", "appendStore"}
        /\ there = "cutStore" => poRing.len > 0
        /\ UNCHANGED <<clock, memory, reader, broken, calls, histories>>
    BY <1>5 DEF LoadSlice
  <2> HIDE DEF l
  <2> QED  BY <1>2, <2>1, <2>2
<1>6. ASSUME NEW w \in Writers, ReadLast(w) PROVE (RaceTypeOK /\ Shape)'
  <2> DEFINE o == view(poRing)[poRing.len]
             l == [my[w] EXCEPT !.item = o]
  <2>1. o \in Objects /\ o # nil
    <3>1. poRing \in Header /\ fits(poRing) /\ poRing.len \in Nat /\ poRing.len > 0 /\ o # nil
      BY <1>6 DEF ReadLast, HasLast, RaceTypeOK, Header
    <3>2. poRing.len \in 1 .. poRing.len  BY <3>1
    <3> HIDE DEF o
    <3>3. o \in Objects \cup {nil}  BY <3>1, <3>2, ViewType DEF o
    <3> QED  BY <3>1, <3>3
  <2>2. UNCHANGED <<clock, memory, reader, broken, calls, histories>>
    BY <1>6 DEF ReadLast
  <2>3. CASE heap[o].Timestamp = my[w].t
    <3>1. l \in Locals /\ fits(l.slice) /\ l.item # nil
      BY <1>w, <2>1 DEF Locals
    <3>2. my' = [my EXCEPT ![w] = l] /\ goto(w, "load")
      BY <1>6, <2>3 DEF ReadLast
    <3> HIDE DEF l, o
    <3> QED  BY <1>2, <2>2, <3>1, <3>2
  <2>4. CASE heap[o].Timestamp # my[w].t
    <3>1. my' = [my EXCEPT ![w] = my[w]] /\ goto(w, "append")
      BY <1>6, <1>w, <2>4 DEF ReadLast
    <3> QED  BY <1>2, <1>w, <2>2, <3>1
  <2> QED  BY <2>3, <2>4
<1>i. ASSUME NEW w \in Writers, pc[w] \in {"load", "store"}
      PROVE  /\ my[w].item \in 1 .. Len(heap) /\ heap[my[w].item] \in Entry
             /\ my[w].dir \in {"In", "Out"} /\ my[w].old \in Nat /\ my[w].n \in Nat
             /\ heap[my[w].item][my[w].dir] \in Nat
  <2>1. my[w].item \in Objects /\ heap \in Seq(Entry)
    BY <1>i, <1>w DEF RaceTypeOK, Shape, Locals
  <2>2. my[w].item \in 1 .. Len(heap) /\ heap[my[w].item] \in Entry
    BY <2>1, LenProperties, ElementOfSeq DEF Objects
  <2>3. my[w].dir \in {"In", "Out"} /\ my[w].old \in Nat /\ my[w].n \in Nat
    BY <1>w DEF Locals
  <2>4. heap[my[w].item].In \in Nat /\ heap[my[w].item].Out \in Nat  BY <2>2 DEF Entry
  <2> QED  BY <2>2, <2>3, <2>4
<1>7. ASSUME NEW w \in Writers, LoadItem(w) PROVE (RaceTypeOK /\ Shape)'
  <2> DEFINE l == [my[w] EXCEPT !.old = heap[my[w].item][my[w].dir]]
  <2>1. pc[w] = "load"  BY <1>7 DEF LoadItem, at
  <2>2. l \in Locals /\ fits(l.slice) /\ l.item # nil
    BY <1>i, <1>w, <2>1 DEF Locals, Shape
  <2>3. /\ my' = [my EXCEPT ![w] = l] /\ goto(w, "store")
        /\ UNCHANGED <<clock, memory, reader, broken, calls, histories>>
    BY <1>7 DEF LoadItem
  <2> HIDE DEF l
  <2> QED  BY <1>2, <2>2, <2>3
<1>8. ASSUME NEW w \in Writers, StoreCut(w) PROVE (RaceTypeOK /\ Shape)'
  <2> DEFINE sl == my[w].slice
             l  == [my[w] EXCEPT !.slice = noSlice]
  <2>1. sl.arr \in DOMAIN arrays /\ sl.off \in Nat /\ sl.len \in Nat /\ sl.len > 0 /\ sl \in Header
    BY <1>8, <1>w DEF StoreCut, at, Shape, Header
  <2>2. fits(sl)  BY <1>w
  <2>3. UNCHANGED <<clock, arrays, heap, reader, broken, calls, overlap, overlaps, billed, solo>>
    BY <1>8 DEF StoreCut
  <2>4. poRing' = [sl EXCEPT !.off = @ + 1, !.len = @ - 1]
    BY <1>8 DEF StoreCut, cutOff
  <2>5. Header' = Header /\ Locals' = Locals /\ Objects' = Objects
    BY <2>3 DEF Header, Locals, Objects
  <2>6. poRing' \in Header /\ poRing'.arr = sl.arr /\ poRing'.off + poRing'.len = sl.off + sl.len
    <3> HIDE DEF sl
    <3>1. poRing' = [arr |-> sl.arr, off |-> sl.off + 1, len |-> sl.len - 1]
      BY <2>1, <2>4 DEF Header
    <3>2. sl.off + 1 \in Nat /\ sl.len - 1 \in Nat
          /\ (sl.off + 1) + (sl.len - 1) = sl.off + sl.len
      BY <2>1
    <3> QED  BY <2>1, <3>1, <3>2 DEF Header
  <2>7. (fits(poRing))'
    BY <2>2, <2>3, <2>6 DEF fits
  <2>8. evicted' \subseteq Objects
    <3>1. 1 \in 1 .. sl.len  BY <2>1
    <3> HIDE DEF sl
    <3>2. view(sl)[1] \in Objects \cup {nil}  BY <2>1, <2>2, <3>1, ViewType
    <3>3. evicted' = evicted \cup ({view(sl)[1]} \ {nil})  BY <1>8 DEF StoreCut, sl
    <3> QED  BY <3>2, <3>3 DEF RaceTypeOK
  <2>9. l \in Locals /\ fits(l.slice) /\ l.item = my[w].item
    BY <1>0, <1>w DEF Locals
  <2>10. my' = [my EXCEPT ![w] = l] /\ pc' = [pc EXCEPT ![w] = "last"]
    BY <1>8 DEF StoreCut, goto
  <2> HIDE DEF l, sl
  <2>11. my' \in [Writers -> Locals] /\ \A v \in Writers : (fits(my'[v].slice) /\ my'[v] \in Locals)
    BY <1>m, <2>9, <2>10 DEF RaceTypeOK
  <2>12. (\A v \in Writers : fits(my[v].slice))' /\ (fits(reader.slice))'
    BY <2>3, <2>11 DEF fits, RaceTypeOK
  <2>13. pc' \in [Writers -> {"idle", "empty", "full", "cut", "cutStore", "last", "load",
                                "store", "append", "appendStore"}]
    BY <2>10 DEF RaceTypeOK
  <2>14. Shape'
    BY <1>m, <2>3, <2>9, <2>10 DEF Shape, RaceTypeOK
  <2> QED
    BY <2>3, <2>5, <2>6, <2>7, <2>8, <2>11, <2>12, <2>13, <2>14 DEF RaceTypeOK
<1>r. ASSUME NEW w \in Writers, return(w)
      PROVE  /\ my' \in [Writers -> Locals]
             /\ \A v \in Writers : fits(my'[v].slice)
             /\ pc' \in [Writers -> {"idle", "empty", "full", "cut", "cutStore", "last", "load",
                                     "store", "append", "appendStore"}]
             /\ \A v \in Writers :
                  /\ pc'[v] = "cutStore" => my'[v].slice.len > 0
                  /\ pc'[v] \in {"load", "store"} => my'[v].item # nil
             /\ overlap' \in [Writers -> BOOLEAN] /\ overlaps' \in Nat
             /\ billed' \in Nat /\ solo' \in Nat
  <2>1. my' = [my EXCEPT ![w] = locals] /\ pc' = [pc EXCEPT ![w] = "idle"]
    BY <1>r DEF return, goto
  <2>2. fits(locals.slice)  BY <1>0 DEF locals
  <2>3. overlap' \in [Writers -> BOOLEAN]
    <3>1. overlap' = [overlap EXCEPT ![w] = FALSE]  BY <1>r DEF return
    <3> QED  BY <1>m, <3>1, Zenon
  <2>4. overlaps' \in Nat /\ billed' \in Nat /\ solo' \in Nat
    <3>1. my[w].n \in Nat /\ overlaps \in Nat /\ billed \in Nat /\ solo \in Nat
      BY <1>w DEF Locals, RaceTypeOK
    <3>2. CASE overlap[w]  BY <1>r, <3>1, <3>2 DEF return
    <3>3. CASE ~ overlap[w]  BY <1>r, <3>1, <3>3 DEF return
    <3> QED  BY <3>2, <3>3
  <2>5. my' \in [Writers -> Locals] /\ \A v \in Writers : fits(my'[v].slice)
    BY <1>m, <1>l, <2>1, <2>2 DEF RaceTypeOK
  <2>6. pc' \in [Writers -> {"idle", "empty", "full", "cut", "cutStore", "last", "load",
                                     "store", "append", "appendStore"}]
    BY <2>1 DEF RaceTypeOK
  <2>7. \A v \in Writers :
                  /\ pc'[v] = "cutStore" => my'[v].slice.len > 0
                  /\ pc'[v] \in {"load", "store"} => my'[v].item # nil
    BY <1>m, <2>1 DEF Shape, RaceTypeOK
  <2> QED  BY <2>3, <2>4, <2>5, <2>6, <2>7
<1>9. ASSUME NEW w \in Writers, StoreItem(w) PROVE (RaceTypeOK /\ Shape)'
  <2> DEFINE item == my[w].item
             e    == [heap[item] EXCEPT ![my[w].dir] = my[w].old + my[w].n]
  <2>1. heap' = [heap EXCEPT ![item] = e]  BY <1>9 DEF StoreItem
  <2>2. item \in 1 .. Len(heap) /\ e \in Entry
    <3>1. pc[w] = "store"  BY <1>9 DEF StoreItem, at
    <3>2. /\ item \in 1 .. Len(heap) /\ heap[item] \in Entry /\ my[w].dir \in {"In", "Out"}
          /\ my[w].old + my[w].n \in Nat
      BY <1>i, <3>1
    <3> HIDE DEF item
    <3>3. CASE my[w].dir = "In"   BY <3>2, <3>3 DEF Entry
    <3>4. CASE my[w].dir = "Out"  BY <3>2, <3>4 DEF Entry
    <3> QED  BY <3>2, <3>3, <3>4
  <2> HIDE DEF item, e
  <2>3. heap' \in Seq(Entry) /\ Len(heap') = Len(heap) /\ Objects' = Objects
    <3>1. heap \in Seq(Entry)  BY DEF RaceTypeOK
    <3>2. heap' \in Seq(Entry) /\ Len(heap') = Len(heap)  BY <2>1, <2>2, <3>1, ExceptSeq
    <3> QED  BY <3>1, <3>2, LenProperties DEF Objects
  <2>4. UNCHANGED <<clock, poRing, arrays, reader, broken, calls, evicted>> /\ return(w)
    BY <1>9 DEF StoreItem
  <2>5. Header' = Header /\ Locals' = Locals
    BY <2>3, <2>4 DEF Header, Locals
  <2>6. (\A v \in Writers : fits(my[v].slice))' /\ (fits(reader.slice))' /\ (fits(poRing))'
    BY <1>r, <2>4 DEF fits, RaceTypeOK
  <2>7. Shape'
    BY <1>r, <2>4 DEF Shape
  <2>8. RaceTypeOK'
    BY <1>r, <2>3, <2>4, <2>5, <2>6 DEF RaceTypeOK
  <2> QED  BY <2>7, <2>8
<1>10. ASSUME NEW w \in Writers, StoreAppend(w) PROVE (RaceTypeOK /\ Shape)'
  <2> DEFINE sl == my[w].slice
             o  == Len(heap) + 1
  <2>1. /\ sl \in Header /\ fits(sl) /\ sl.arr \in 1 .. Len(arrays) /\ sl.off \in Nat /\ sl.len \in Nat
        /\ arrays \in Seq(Seq(Objects \cup {nil})) /\ heap \in Seq(Entry) /\ Len(arrays) \in Nat
        /\ DOMAIN arrays = 1 .. Len(arrays)
        /\ poRing \in Header /\ fits(poRing)
    <3>1. sl \in Header /\ fits(sl)  BY <1>w
    <3>2. arrays \in Seq(Seq(Objects \cup {nil})) /\ heap \in Seq(Entry)  BY DEF RaceTypeOK
    <3>3. DOMAIN arrays = 1 .. Len(arrays) /\ Len(arrays) \in Nat  BY <3>2, LenProperties
    <3> HIDE DEF sl
    <3> QED  BY <3>1, <3>2, <3>3 DEF Header, RaceTypeOK
  <2>2. arrays[sl.arr] \in Seq(Objects \cup {nil}) /\ Len(arrays[sl.arr]) \in Nat
    BY <2>1, ElementOfSeq, LenProperties
  <2>3. UNCHANGED <<clock, reader, broken, calls, evicted>> /\ return(w) /\ heap' = Append(heap, newItem(w))
    BY <1>10 DEF StoreAppend, afterAppend
  <2>4. newItem(w) \in Entry
    <3>1. my[w].t \in Int /\ my[w].n \in Nat /\ my[w].dir \in {"In", "Out"}
      BY <1>w, <1>c DEF Locals
    <3>2. CASE my[w].dir = "In"   BY <3>1, <3>2 DEF Entry, newItem
    <3>3. CASE my[w].dir = "Out"  BY <3>1, <3>3 DEF Entry, newItem
    <3> QED  BY <3>1, <3>2, <3>3
  <2>5. heap' \in Seq(Entry) /\ Objects' = 1 .. o /\ Objects = 1 .. Len(heap) /\ Len(heap) \in Nat
    BY <2>1, <2>3, <2>4, AppendProperties, LenProperties DEF Objects
  <2>6. Objects \subseteq Objects' /\ o \in Objects'  BY <2>5
  <2>7. arrays \in Seq(Seq(Objects' \cup {nil}))
    <3>1. Objects \cup {nil} \subseteq Objects' \cup {nil}  BY <2>6
    <3>2. Seq(Objects \cup {nil}) \subseteq Seq(Objects' \cup {nil})  BY <3>1, SeqWider
    <3> QED  BY <2>1, <3>2, SeqWider
  <2> HIDE DEF sl, o
  <2>8. /\ arrays' \in Seq(Seq(Objects' \cup {nil}))
        /\ Len(arrays') >= Len(arrays)
        /\ \A a \in 1 .. Len(arrays) : Len(arrays'[a]) = Len(arrays[a])
        /\ poRing' \in [arr : 1 .. Len(arrays'), off : Nat, len : Nat]
        /\ poRing'.off + poRing'.len <= Len(arrays'[poRing'.arr])
    <3>1. Objects \cup {nil} \subseteq Objects' \cup {nil} /\ o \in Objects' \cup {nil}
      BY <2>6
    <3>2. CASE extend(sl, o)
      <4>1. /\ arrays' \in Seq(Seq(Objects' \cup {nil})) /\ Len(arrays') = Len(arrays)
            /\ \A a \in 1 .. Len(arrays) : Len(arrays'[a]) = Len(arrays[a])
            /\ poRing' \in Header /\ poRing' = [poRing EXCEPT !.len = sl.len + 1]
            /\ poRing'.off + poRing'.len <= Len(arrays[poRing.arr])
        BY <2>1, <3>1, <3>2, ExtendEffect
      <4>2. poRing'.arr = poRing.arr /\ poRing.arr \in 1 .. Len(arrays)
        BY <2>1, <4>1 DEF Header
      <4>3. poRing' \in [arr : 1 .. Len(arrays'), off : Nat, len : Nat]
        BY <2>1, <4>1 DEF Header
      <4>4. Len(arrays'[poRing'.arr]) = Len(arrays[poRing.arr])
        BY <4>1, <4>2
      <4>5. Len(arrays') >= Len(arrays)  BY <2>1, <4>1
      <4> QED  BY <4>1, <4>3, <4>4, <4>5
    <3>3. ASSUME NEW room \in 0 .. MaxRoom, grow(sl, o, room)
          PROVE  /\ arrays' \in Seq(Seq(Objects' \cup {nil}))
                 /\ Len(arrays') >= Len(arrays)
                 /\ \A a \in 1 .. Len(arrays) : Len(arrays'[a]) = Len(arrays[a])
                 /\ poRing' \in [arr : 1 .. Len(arrays'), off : Nat, len : Nat]
                 /\ poRing'.off + poRing'.len <= Len(arrays'[poRing'.arr])
      <4>1. room \in Nat  BY <1>c
      <4>2. /\ arrays' \in Seq(Seq(Objects' \cup {nil})) /\ Len(arrays') = Len(arrays) + 1
            /\ \A a \in 1 .. Len(arrays) : arrays'[a] = arrays[a]
            /\ Len(arrays'[Len(arrays) + 1]) = sl.len + 1 + room
            /\ poRing' = [arr |-> Len(arrays) + 1, off |-> 0, len |-> sl.len + 1]
        <5> DEFINE S == Objects' \cup {nil}
        <5>1. Objects \cup {nil} \subseteq S /\ o \in S  BY <3>1
        <5> HIDE DEF S
        <5>2. RaceTypeOK /\ sl \in Header /\ fits(sl)  BY <2>1
        <5>3. /\ arrays' \in Seq(Seq(S)) /\ Len(arrays') = Len(arrays) + 1
              /\ \A a \in 1 .. Len(arrays) : arrays'[a] = arrays[a]
              /\ Len(arrays'[Len(arrays) + 1]) = sl.len + 1 + room
              /\ poRing' = [arr |-> Len(arrays) + 1, off |-> 0, len |-> sl.len + 1]
          BY ONLY <3>3, <4>1, <5>1, <5>2, GrowEffect
        <5> QED  BY <5>3 DEF S
      <4>3. Len(arrays') >= Len(arrays)  BY <2>1, <4>2
      <4>4. poRing' \in [arr : 1 .. Len(arrays'), off : Nat, len : Nat]
        <5>1. Len(arrays) + 1 \in 1 .. Len(arrays') /\ sl.len + 1 \in Nat
          <6>1. Len(arrays) \in Nat /\ sl.len \in Nat  BY <2>1
          <6>2. Len(arrays') = Len(arrays) + 1  BY <4>2
          <6> QED  BY ONLY <6>1, <6>2
        <5> QED  BY <4>2, <5>1
      <4>5. poRing'.off + poRing'.len <= Len(arrays'[poRing'.arr])
        BY <2>1, <4>1, <4>2
      <4> QED  BY <4>2, <4>3, <4>4, <4>5
    <3>4. extend(sl, o) \/ \E room \in 0 .. MaxRoom : grow(sl, o, room)
      BY <1>10 DEF StoreAppend, sl, o
    <3> QED  BY <3>2, <3>3, <3>4
  <2>9. DOMAIN arrays' = 1 .. Len(arrays') /\ Len(arrays') \in Nat
    BY <2>8, LenProperties
  <2>10. Header \subseteq Header' /\ Locals \subseteq Locals'
    <3>1. DOMAIN arrays \subseteq DOMAIN arrays'  BY <2>1, <2>8, <2>9
    <3>2. Header \subseteq Header'  BY <3>1 DEF Header
    <3> QED  BY <2>6, <3>2 DEF Locals
  <2>11. ASSUME NEW s \in Header, fits(s)
         PROVE  s.off + s.len <= Len(arrays'[s.arr])
    <3>1. s.arr \in 1 .. Len(arrays)  BY <2>1 DEF Header
    <3> QED  BY <2>8, <2>11, <3>1 DEF fits
  <2>12. (\A v \in Writers : fits(my[v].slice))'
    <3>1. \A v \in Writers : my'[v].slice \in Header /\ fits(my'[v].slice)
      BY <1>r, <2>3 DEF Locals
    <3> QED  BY <2>11, <3>1 DEF fits
  <2>13. (fits(reader.slice))' /\ (fits(poRing))' /\ poRing' \in Header'
    <3>1. reader.slice \in Header /\ fits(reader.slice)  BY DEF RaceTypeOK
    <3> QED  BY <2>3, <2>8, <2>9, <2>11, <3>1 DEF fits, Header
  <2>14. Shape'
    BY <1>r, <2>1, <2>3, <2>8, <2>9 DEF Shape
  <2>15. my' \in [Writers -> Locals']
    BY <1>r, <2>3, <2>10
  <2>16. reader' \in [pc : {"idle", "loop"}, slice : Header', next : Nat \ {0}, In : Nat]
    BY <2>3, <2>10 DEF RaceTypeOK
  <2>17. evicted' \subseteq Objects'
    BY <2>3, <2>6 DEF RaceTypeOK
  <2>18. RaceTypeOK'
    BY <1>r, <2>3, <2>5, <2>8, <2>12, <2>13, <2>15, <2>16, <2>17 DEF RaceTypeOK
  <2> QED  BY <2>14, <2>18
<1>11. ASSUME NEW w \in Writers, Break(w) PROVE (RaceTypeOK /\ Shape)'
  <2>1. broken' = "writer" /\ UNCHANGED <<clock, memory, pc, my, reader, calls, histories>>
    BY <1>11 DEF Break
  <2> QED  BY <2>1 DEF memory, histories, RaceTypeOK, Shape, Objects, Header, Locals, fits
<1>12. CASE StatsBegin
  <2>1. /\ reader' = [pc |-> "loop", slice |-> poRing, next |-> 1, In |-> 0]
        /\ UNCHANGED <<clock, memory, pc, my, broken, calls, histories>>
    BY <1>12 DEF StatsBegin
  <2>2. reader' \in [pc : {"idle", "loop"}, slice : Header, next : Nat \ {0}, In : Nat] /\ fits(reader'.slice)
    BY <2>1 DEF RaceTypeOK
  <2> QED  BY <2>1, <2>2 DEF memory, histories, RaceTypeOK, Shape, Objects, Header, Locals, fits
<1>13. CASE StatsItem
  <2> DEFINE o == view(reader.slice)[reader.next]
  <2>1. /\ o # nil /\ reader' = [reader EXCEPT !.next = @ + 1, !.In = @ + heap[o].In]
        /\ UNCHANGED <<clock, memory, pc, my, broken, calls, histories>>
        /\ reader.next <= reader.slice.len
    BY <1>13 DEF StatsItem
  <2>2. reader \in [pc : {"idle", "loop"}, slice : Header, next : Nat \ {0}, In : Nat] /\ fits(reader.slice)
    BY DEF RaceTypeOK
  <2>3. heap[o].In \in Nat
    <3>1. reader.slice \in Header /\ reader.next \in 1 .. reader.slice.len
      BY <2>1, <2>2 DEF Header
    <3>2. view(reader.slice)[reader.next] \in Objects \cup {nil}
      BY <2>2, <3>1, ViewType
    <3>3. o \in Objects  BY <2>1, <3>2
    <3>4. heap \in Seq(Entry)  BY DEF RaceTypeOK
    <3> HIDE DEF o
    <3>5. heap[o] \in Entry  BY <3>3, <3>4, LenProperties, ElementOfSeq DEF Objects
    <3> QED  BY <3>5 DEF Entry
  <2>4. reader' \in [pc : {"idle", "loop"}, slice : Header, next : Nat \ {0}, In : Nat]
        /\ reader'.slice = reader.slice
    <3> DEFINE v == heap[o].In
    <3> HIDE DEF o, v
    <3>1. reader' = [reader EXCEPT !.next = @ + 1, !.In = @ + v] /\ v \in Nat
      BY <2>1, <2>3 DEF v
    <3>2. reader.next + 1 \in Nat \ {0} /\ reader.In + v \in Nat
      BY <2>2, <3>1
    <3> QED  BY <2>2, <3>1, <3>2
  <2> QED  BY <2>1, <2>2, <2>4 DEF memory, histories, RaceTypeOK, Shape, Objects, Header, Locals, fits
<1>14. CASE StatsEnd
  <2>1. /\ reader' = [pc |-> "idle", slice |-> noSlice, next |-> 1, In |-> 0]
        /\ UNCHANGED <<clock, memory, pc, my, broken, calls, histories>>
    BY <1>14 DEF StatsEnd
  <2>2. reader' \in [pc : {"idle", "loop"}, slice : Header, next : Nat \ {0}, In : Nat] /\ fits(reader'.slice)
    BY <1>0, <2>1
  <2> QED  BY <2>1, <2>2 DEF memory, histories, RaceTypeOK, Shape, Objects, Header, Locals, fits
<1>15. CASE StatsBreak
  <2>1. broken' = "reader" /\ UNCHANGED <<clock, memory, pc, my, reader, calls, histories>>
    BY <1>15 DEF StatsBreak
  <2> QED  BY <2>1 DEF memory, histories, RaceTypeOK, Shape, Objects, Header, Locals, fits
<1>16. CASE RaceTick
  <2>1. /\ clock < LastSecond /\ clock' = clock + 1
        /\ UNCHANGED <<memory, pc, my, reader, broken, calls, histories>>
    BY <1>16 DEF RaceTick
  <2>2. clock' \in 0 .. LastSecond
    BY <1>c, <2>1 DEF RaceTypeOK
  <2> QED  BY <2>1, <2>2 DEF memory, histories, RaceTypeOK, Shape, Objects, Header, Locals, fits
<1>17. CASE UNCHANGED raceVars
  BY <1>17 DEF raceVars, memory, histories, RaceTypeOK, Shape, Objects, Header, Locals, fits
<1>18. ASSUME NEW w \in Writers, Step(w) PROVE (RaceTypeOK /\ Shape)'
  <2>1. CASE LoadSlice(w, "cut", "cutStore")  BY <1>5, <2>1
  <2>2. CASE LoadSlice(w, "append", "appendStore")  BY <1>5, <2>2
  <2> QED
    BY <1>3, <1>4, <1>6, <1>7, <1>8, <1>9, <1>10, <1>11, <1>18, <2>1, <2>2 DEF Step
<1> QED
  BY <1>1, <1>12, <1>13, <1>14, <1>15, <1>16, <1>17, <1>18 DEF RaceNext

\* However the calls and the statistics interleave, slices lie within their arrays
\* and refer to entries (process.go:42-124).
THEOREM RaceTypeCorrect == RaceSpec => []RaceTypeOK
<1>1. RaceInit => RaceTypeOK /\ Shape
  BY RaceTypeInit
<1>2. (RaceTypeOK /\ Shape) /\ [RaceNext]_raceVars => (RaceTypeOK /\ Shape)'
  BY RaceTypeStep
<1> QED
  BY <1>1, <1>2, PTL DEF RaceSpec

\* A step of a call that is overlapped or ends, or that finds what it leaves to its
\* next access, keeps Alone.
LEMMA AloneOwn ==
    ASSUME RaceTypeOK, Alone, NEW w \in Writers, pc[w] # "idle", NEW there, goto(w, there),
           \A v \in Writers \ {w} : my'[v] = my[v] /\ overlap'[v] = overlap[v],
           there # "idle" /\ ~ overlap'[w] =>
              /\ ~ overlap[w]
              /\ there \in {"full", "last"} => poRing'.len > 0
              /\ there \in {"cut", "cutStore"} => poRing'.len >= RingSize
              /\ there \in {"last", "append", "appendStore"} => poRing'.len < RingSize + overlaps'
              /\ there \in {"cutStore", "appendStore"} => my'[w].slice = poRing'
    PROVE  Alone'
<1>1. pc'[w] = there /\ \A v \in Writers \ {w} : pc'[v] = pc[v]
  BY DEF goto, RaceTypeOK
<1>2. \A v \in Writers \ {w} : pc[v] # "idle" => overlap[v]
  BY DEF Alone
<1>3. ASSUME NEW v \in Writers, pc'[v] # "idle", ~ overlap'[v]
      PROVE  v = w
  BY <1>1, <1>2, <1>3
<1>4. ASSUME pc'[w] # "idle", ~ overlap'[w]
      PROVE  \A v \in Writers \ {w} : pc'[v] = "idle"
  BY <1>1, <1>4 DEF Alone
<1> QED
  BY <1>1, <1>3, <1>4 DEF Alone

\* Alone is preserved.
LEMMA AloneStep ==
    RaceTypeOK /\ Shape /\ Alone /\ Lengthy /\ [RaceNext]_raceVars => Alone'
<1> SUFFICES ASSUME RaceTypeOK, Shape, Alone, Lengthy, [RaceNext]_raceVars PROVE Alone'
  OBVIOUS
<1>c. RingSize \in Nat /\ RingSize >= 2
  BY RaceAssumption
<1>t. /\ my \in [Writers -> Locals] /\ pc = [w \in Writers |-> pc[w]] /\ overlap \in [Writers -> BOOLEAN]
      /\ poRing \in Header /\ poRing.len \in Nat /\ overlaps \in Nat
  BY DEF RaceTypeOK, Header
<1>1. ASSUME NEW w \in Writers, NEW dir \in {"In", "Out"}, NEW n \in Sizes, Call(w, dir, n)
      PROVE  Alone'
  <2>1. pc' = [pc EXCEPT ![w] = "empty"] /\ UNCHANGED <<memory, overlaps>> /\ pc[w] = "idle"
    BY <1>1 DEF Call, goto, at
  <2>2. \A v \in Writers : overlap'[v] = (overlap[v] \/ (Running # {} /\ v \in Running \cup {w}))
    BY <1>1 DEF Call
  <2>3. ASSUME NEW v \in Writers, pc'[v] # "idle", ~ overlap'[v]
        PROVE  v = w /\ Running = {}
    BY <1>t, <2>1, <2>2, <2>3 DEF Running
  <2>4. \A v \in Writers \ {w} : pc'[v] = pc[v]
    BY <1>t, <2>1
  <2>5. pc'[w] = "empty"  BY <1>t, <2>1
  <2>6. Running = {} => \A v \in Writers \ {w} : pc'[v] = "idle"
    BY <2>4 DEF Running
  <2> QED
    BY <2>3, <2>5, <2>6 DEF Alone
<1>2. ASSUME NEW w \in Writers, TestEmpty(w) PROVE Alone'
  <2> DEFINE there == IF poRing.len = 0 THEN "append" ELSE "full"
  <2>1. goto(w, there) /\ UNCHANGED <<poRing, my, overlap, overlaps>> /\ pc[w] = "empty"
    BY <1>2 DEF TestEmpty, at, memory, histories
  <2>2. /\ there \in {"append", "full"}
        /\ there = "full" => poRing.len > 0
        /\ there = "append" => poRing.len < RingSize + overlaps
    BY <1>c, <1>t
  <2> HIDE DEF there
  <2> QED  BY <2>1, <2>2, AloneOwn
<1>3. ASSUME NEW w \in Writers, TestFull(w) PROVE Alone'
  <2> DEFINE there == IF tooLong THEN "cut" ELSE "last"
  <2>1. goto(w, there) /\ UNCHANGED <<poRing, my, overlap, overlaps>> /\ pc[w] = "full"
    BY <1>3 DEF TestFull, at, memory, histories
  <2>2. /\ there \in {"cut", "last"}
        /\ there = "cut" => poRing.len >= RingSize
        /\ there = "last" => poRing.len < RingSize + overlaps
    BY <1>c, <1>t DEF tooLong
  <2>3. ~ overlap[w] => poRing.len > 0
    BY <2>1 DEF Alone
  <2> HIDE DEF there
  <2> QED  BY <2>1, <2>2, <2>3, AloneOwn
<1>4. ASSUME NEW w \in Writers, LoadSlice(w, "cut", "cutStore") PROVE Alone'
  <2>1. /\ goto(w, "cutStore") /\ UNCHANGED <<poRing, overlap, overlaps>> /\ pc[w] = "cut"
        /\ my' = [my EXCEPT ![w].slice = poRing]
    BY <1>4 DEF LoadSlice, at, memory, histories
  <2>2. my'[w].slice = poRing /\ \A v \in Writers \ {w} : my'[v] = my[v]
    BY <1>t, <2>1 DEF Locals
  <2>3. ~ overlap[w] => poRing.len >= RingSize
    BY <2>1 DEF Alone
  <2> QED  BY <2>1, <2>2, <2>3, AloneOwn
<1>5. ASSUME NEW w \in Writers, LoadSlice(w, "append", "appendStore") PROVE Alone'
  <2>1. /\ goto(w, "appendStore") /\ UNCHANGED <<poRing, overlap, overlaps>> /\ pc[w] = "append"
        /\ my' = [my EXCEPT ![w].slice = poRing]
    BY <1>5 DEF LoadSlice, at, memory, histories
  <2>2. my'[w].slice = poRing /\ \A v \in Writers \ {w} : my'[v] = my[v]
    BY <1>t, <2>1 DEF Locals
  <2>3. ~ overlap[w] => poRing.len < RingSize + overlaps
    BY <2>1 DEF Alone
  <2> QED  BY <2>1, <2>2, <2>3, AloneOwn
<1>6. ASSUME NEW w \in Writers, StoreCut(w) PROVE Alone'
  <2>1. /\ goto(w, "last") /\ UNCHANGED <<overlap, overlaps>> /\ pc[w] = "cutStore"
        /\ my' = [my EXCEPT ![w].slice = noSlice] /\ poRing' = cutOff(my[w].slice)
    BY <1>6 DEF StoreCut, at
  <2>2. \A v \in Writers \ {w} : my'[v] = my[v]
    BY <1>t, <2>1
  <2>3. ~ overlap[w] => poRing'.len > 0 /\ poRing'.len < RingSize + overlaps
    <3>1. SUFFICES ASSUME ~ overlap[w] PROVE poRing'.len > 0 /\ poRing'.len < RingSize + overlaps
      OBVIOUS
    <3>2. my[w].slice = poRing /\ poRing.len >= RingSize
      BY <2>1, <3>1 DEF Alone
    <3>3. poRing'.len = poRing.len - 1
      BY <1>t, <2>1, <3>2 DEF cutOff, Header
    <3>4. poRing.len <= RingSize + overlaps  BY DEF Lengthy
    <3> QED  BY <1>c, <1>t, <3>2, <3>3, <3>4
  <2> QED  BY <2>1, <2>2, <2>3, AloneOwn
<1>7. ASSUME NEW w \in Writers, ReadLast(w) PROVE Alone'
  <2>1. /\ UNCHANGED <<poRing, overlap, overlaps>> /\ pc[w] = "last"
        /\ goto(w, "load") \/ goto(w, "append")
    BY <1>7 DEF ReadLast, at, memory, histories
  <2>2. \A v \in Writers \ {w} : my'[v] = my[v]
    BY <1>7, <1>t DEF ReadLast
  <2>3. ~ overlap[w] => poRing.len < RingSize + overlaps
    BY <2>1 DEF Alone
  <2>4. CASE goto(w, "load")  BY <2>1, <2>2, <2>4, AloneOwn
  <2>5. CASE goto(w, "append")  BY <2>1, <2>2, <2>3, <2>5, AloneOwn
  <2> QED  BY <2>1, <2>4, <2>5
<1>8. ASSUME NEW w \in Writers, LoadItem(w) PROVE Alone'
  <2>1. /\ goto(w, "store") /\ UNCHANGED <<overlap, overlaps>> /\ pc[w] = "load"
    BY <1>8 DEF LoadItem, at, histories
  <2>2. \A v \in Writers \ {w} : my'[v] = my[v]
    BY <1>8, <1>t DEF LoadItem
  <2> QED  BY <2>1, <2>2, AloneOwn
<1>9. ASSUME NEW w \in Writers, pc[w] # "idle", return(w) PROVE Alone'
  <2>1. goto(w, "idle") /\ \A v \in Writers \ {w} : my'[v] = my[v] /\ overlap'[v] = overlap[v]
    BY <1>9, <1>t DEF return
  <2> QED  BY <1>9, <2>1, AloneOwn
<1>10. ASSUME NEW w \in Writers, StoreItem(w) \/ StoreAppend(w) PROVE Alone'
  <2>1. return(w) /\ pc[w] # "idle"
    BY <1>10 DEF StoreItem, StoreAppend, afterAppend, at
  <2> QED  BY <1>9, <2>1
<1>11. ASSUME UNCHANGED <<poRing, pc, my, overlap, overlaps>> PROVE Alone'
  BY <1>11 DEF Alone
<1>12. ASSUME NEW w \in Writers, Break(w) PROVE Alone'
  BY <1>11, <1>12 DEF Break, memory, histories
<1>13. ASSUME NEW w \in Writers, Step(w) PROVE Alone'
  BY <1>2, <1>3, <1>4, <1>5, <1>6, <1>7, <1>8, <1>10, <1>12, <1>13 DEF Step
<1>14. CASE StatsBegin \/ StatsItem \/ StatsEnd \/ StatsBreak \/ RaceTick \/ UNCHANGED raceVars
  BY <1>11, <1>14 DEF StatsBegin, StatsItem, StatsEnd, StatsBreak, RaceTick, raceVars, memory, histories
<1> QED
  BY <1>1, <1>13, <1>14 DEF RaceNext

\* Lengthy is preserved.
LEMMA LengthyStep ==
    RaceTypeOK /\ Alone /\ Lengthy /\ [RaceNext]_raceVars => Lengthy'
<1> SUFFICES ASSUME RaceTypeOK, Alone, Lengthy, [RaceNext]_raceVars PROVE Lengthy'
  OBVIOUS
<1>c. RingSize \in Nat
  BY RaceAssumption
<1>t. /\ my \in [Writers -> Locals] /\ overlap \in [Writers -> BOOLEAN] /\ overlaps \in Nat
      /\ poRing \in Header /\ \A w \in Writers : my[w].slice \in Header
  BY DEF RaceTypeOK, Locals
<1>n. noSlice.len = 0 /\ locals.slice.len = 0
  BY DEF noSlice, locals
<1>1. ASSUME NEW w \in Writers, NEW dir \in {"In", "Out"}, NEW n \in Sizes, Call(w, dir, n)
      PROVE  Lengthy'
  <2> DEFINE l == [locals EXCEPT !.t = clock, !.dir = dir, !.n = n]
  <2>1. l.slice = locals.slice  BY DEF locals
  <2>2. my' = [my EXCEPT ![w] = l] /\ UNCHANGED <<poRing, overlaps>>
    BY <1>1 DEF Call, memory
  <2> HIDE DEF l
  <2> QED  BY <1>c, <1>t, <1>n, <2>1, <2>2 DEF Lengthy
<1>2. ASSUME NEW w \in Writers, NEW here, NEW there, LoadSlice(w, here, there) PROVE Lengthy'
  BY <1>t, <1>2 DEF LoadSlice, Lengthy, memory, histories, Locals
<1>3. ASSUME NEW w \in Writers, StoreCut(w) PROVE Lengthy'
  <2>1. /\ UNCHANGED overlaps /\ my' = [my EXCEPT ![w].slice = noSlice]
        /\ poRing' = cutOff(my[w].slice)
    BY <1>3 DEF StoreCut
  <2>2. poRing'.len = my[w].slice.len - 1 /\ my[w].slice.len \in Nat
    BY <1>t, <2>1 DEF cutOff, Header
  <2>3. my'[w].slice = noSlice /\ \A v \in Writers \ {w} : my'[v] = my[v]
    BY <1>t, <2>1 DEF Locals
  <2> QED  BY <1>c, <1>t, <1>n, <2>1, <2>2, <2>3 DEF Lengthy
<1>4. ASSUME NEW w \in Writers, ReadLast(w) \/ LoadItem(w) PROVE Lengthy'
  <2>1. UNCHANGED <<poRing, overlaps>>
    BY <1>4 DEF ReadLast, LoadItem, memory, histories
  <2>2. \A v \in Writers : my'[v].slice = my[v].slice
    BY <1>4, <1>t DEF ReadLast, LoadItem, Locals
  <2> QED  BY <2>1, <2>2 DEF Lengthy
<1>5. ASSUME NEW w \in Writers, StoreItem(w) PROVE Lengthy'
  <2>1. UNCHANGED poRing /\ my' = [my EXCEPT ![w] = locals] /\ overlaps' \in {overlaps, overlaps + 1}
    BY <1>5 DEF StoreItem, return
  <2>2. overlaps <= overlaps' /\ overlaps' \in Nat  BY <1>t, <2>1
  <2>3. poRing.len \in Nat /\ \A v \in Writers : my[v].slice.len \in Nat
    BY <1>t DEF Header
  <2>4. poRing'.len <= RingSize + overlaps'  BY <1>c, <1>t, <2>1, <2>2, <2>3 DEF Lengthy
  <2>5. my'[w].slice.len = 0 /\ \A v \in Writers \ {w} : my'[v].slice.len = my[v].slice.len
    BY <1>t, <1>n, <2>1
  <2>6. \A v \in Writers : my[v].slice.len <= RingSize + overlaps'
    BY <1>c, <1>t, <2>2, <2>3 DEF Lengthy
  <2>7. 0 <= RingSize + overlaps'
    <3>1. \A x \in Nat : 0 <= RingSize + x  BY <1>c
    <3> QED  BY <2>2, <3>1
  <2> QED  BY <2>4, <2>5, <2>6, <2>7 DEF Lengthy
<1>6. ASSUME NEW w \in Writers, StoreAppend(w) PROVE Lengthy'
  <2>1. poRing'.len = my[w].slice.len + 1
    <3>1. CASE extend(my[w].slice, Len(heap) + 1)
      BY <1>t, <3>1 DEF extend, lengthened, Header
    <3>2. ASSUME NEW room \in 0 .. MaxRoom, grow(my[w].slice, Len(heap) + 1, room)
          PROVE  poRing'.len = my[w].slice.len + 1
      BY <3>2 DEF grow
    <3> QED  BY <1>6, <3>1, <3>2 DEF StoreAppend
  <2>2. my' = [my EXCEPT ![w] = locals] /\ pc[w] = "appendStore" /\ return(w)
    BY <1>6 DEF StoreAppend, afterAppend, return, at
  <2>3. /\ overlaps <= overlaps' /\ overlaps' \in Nat
        /\ my[w].slice.len + 1 <= RingSize + overlaps'
    <3>1. my[w].slice.len \in Nat  BY <1>t DEF Header
    <3>2. CASE overlap[w]
      <4>1. overlaps' = overlaps + 1  BY <2>2, <3>2 DEF return
      <4>2. my[w].slice.len <= RingSize + overlaps  BY DEF Lengthy
      <4> QED  BY <1>c, <1>t, <3>1, <4>1, <4>2
    <3>3. CASE ~ overlap[w]
      <4>1. overlaps' = overlaps  BY <2>2, <3>3 DEF return
      <4>2. my[w].slice.len < RingSize + overlaps
        BY <2>2, <3>3 DEF Alone
      <4> QED  BY <1>c, <1>t, <3>1, <4>1, <4>2
    <3> QED  BY <3>2, <3>3
  <2>4. my'[w].slice.len = 0 /\ \A v \in Writers \ {w} : my'[v].slice.len = my[v].slice.len
    BY <1>t, <1>n, <2>2
  <2>5. \A v \in Writers : my[v].slice.len <= RingSize + overlaps'
    <3>1. \A v \in Writers : my[v].slice.len \in Nat  BY <1>t DEF Header
    <3> QED  BY <1>c, <1>t, <2>3, <3>1 DEF Lengthy
  <2>6. 0 <= RingSize + overlaps'
    <3>1. \A x \in Nat : 0 <= RingSize + x  BY <1>c
    <3> QED  BY <2>3, <3>1
  <2> QED  BY <2>1, <2>3, <2>4, <2>5, <2>6 DEF Lengthy
<1>7. ASSUME UNCHANGED <<poRing, my, overlaps>> PROVE Lengthy'
  BY <1>7 DEF Lengthy
<1>8. ASSUME NEW w \in Writers, Step(w) PROVE Lengthy'
  <2>1. CASE TestEmpty(w)  BY <1>7, <2>1 DEF TestEmpty, memory, histories
  <2>2. CASE TestFull(w)  BY <1>7, <2>2 DEF TestFull, memory, histories
  <2>3. CASE Break(w)  BY <1>7, <2>3 DEF Break, memory, histories
  <2> QED  BY <1>2, <1>3, <1>4, <1>5, <1>6, <1>8, <2>1, <2>2, <2>3 DEF Step
<1>9. CASE StatsBegin \/ StatsItem \/ StatsEnd \/ StatsBreak \/ RaceTick \/ UNCHANGED raceVars
  BY <1>7, <1>9 DEF StatsBegin, StatsItem, StatsEnd, StatsBreak, RaceTick, raceVars, memory, histories
<1> QED
  BY <1>1, <1>8, <1>9 DEF RaceNext

\* A place of a slice is as it was, or holds the new entry, when a call appends.
LEMMA PlacesKept ==
    ASSUME RaceTypeOK, NEW w \in Writers, StoreAppend(w), NEW s \in Header, fits(s)
    PROVE  \A i \in 1 .. s.len :
              arrays'[s.arr][s.off + i] \in {arrays[s.arr][s.off + i], Len(heap) + 1}
<1> DEFINE o  == Len(heap) + 1
           sl == my[w].slice
           S  == Objects \cup {nil, o}
<1>1. Objects \cup {nil} \subseteq S /\ o \in S
  OBVIOUS
<1>2. sl \in Header /\ fits(sl)
  BY DEF RaceTypeOK, Locals
<1>3. s.arr \in 1 .. Len(arrays) /\ \A i \in 1 .. s.len : s.off + i \in 1 .. Len(arrays[s.arr])
  <2>1. arrays \in Seq(Seq(Objects \cup {nil}))  BY DEF RaceTypeOK
  <2> QED  BY <2>1, LenProperties, ViewType DEF Header
<1>4. extend(sl, o) \/ \E room \in 0 .. MaxRoom : grow(sl, o, room)
  BY DEF StoreAppend
<1> HIDE DEF o, sl, S
<1>5. CASE extend(sl, o)
  <2>1. \A a \in 1 .. Len(arrays) : \A i \in 1 .. Len(arrays[a]) :
           arrays'[a][i] = IF a = sl.arr /\ i = sl.off + sl.len + 1 THEN o ELSE arrays[a][i]
    BY ONLY RaceTypeOK, <1>1, <1>2, <1>5, ExtendEffect
  <2>2. ASSUME NEW i \in 1 .. s.len
        PROVE  arrays'[s.arr][s.off + i] \in {arrays[s.arr][s.off + i], o}
    <3> DEFINE p == sl.off + sl.len + 1
               q == s.off + i
    <3>1. q \in 1 .. Len(arrays[s.arr])  BY <1>3
    <3> HIDE DEF q
    <3>2. arrays'[s.arr][q] = IF s.arr = sl.arr /\ q = p THEN o ELSE arrays[s.arr][q]
      BY <1>3, <2>1, <3>1
    <3> HIDE DEF p
    <3>3. arrays'[s.arr][q] \in {arrays[s.arr][q], o}  BY <3>2
    <3> QED  BY <3>3 DEF q
  <2> QED  BY <2>2 DEF o
<1>6. ASSUME NEW room \in 0 .. MaxRoom, grow(sl, o, room)
      PROVE  \A i \in 1 .. s.len : arrays'[s.arr][s.off + i] \in {arrays[s.arr][s.off + i], o}
  <2>1. room \in Nat  BY RaceAssumption
  <2>2. \A a \in 1 .. Len(arrays) : arrays'[a] = arrays[a]
    BY ONLY RaceTypeOK, <1>1, <1>2, <1>6, <2>1, GrowEffect
  <2> QED  BY <1>3, <2>2
<1> QED
  BY <1>4, <1>5, <1>6 DEF o

\* The slice has no hole after an append to it.
LEMMA NoHoleAppended ==
    ASSUME RaceTypeOK, NEW w \in Writers, StoreAppend(w), my[w].slice = poRing, NoHole(poRing)
    PROVE  NoHole(poRing)'
<1> DEFINE o == Len(heap) + 1
           S == Objects \cup {nil, o}
<1>1. o # nil /\ Objects \cup {nil} \subseteq S /\ o \in S
  <2>1. heap \in Seq(Entry)  BY DEF RaceTypeOK
  <2> QED  BY <2>1, LenProperties DEF nil
<1>2. poRing \in Header /\ fits(poRing) /\ poRing.len \in Nat
  BY DEF RaceTypeOK, Header
<1>3. poRing.arr \in 1 .. Len(arrays) /\ \A i \in 1 .. poRing.len : poRing.off + i \in 1 .. Len(arrays[poRing.arr])
  <2>1. arrays \in Seq(Seq(Objects \cup {nil}))  BY DEF RaceTypeOK
  <2> QED  BY <1>2, <2>1, LenProperties, ViewType DEF Header
<1>4. extend(poRing, o) \/ \E room \in 0 .. MaxRoom : grow(poRing, o, room)
  BY DEF StoreAppend
<1> HIDE DEF o, S
<1>5. CASE extend(poRing, o)
  <2>1. /\ \A a \in 1 .. Len(arrays) : \A i \in 1 .. Len(arrays[a]) :
             arrays'[a][i] = IF a = poRing.arr /\ i = poRing.off + poRing.len + 1 THEN o ELSE arrays[a][i]
        /\ poRing' = [poRing EXCEPT !.len = poRing.len + 1]
        /\ poRing.off + poRing.len + 1 \in 1 .. Len(arrays[poRing.arr])
    BY ONLY RaceTypeOK, <1>1, <1>2, <1>5, ExtendEffect
  <2>2. poRing'.len = poRing.len + 1 /\ poRing'.arr = poRing.arr /\ poRing'.off = poRing.off
    BY <1>2, <2>1 DEF Header
  <2>3. ASSUME NEW i \in 1 .. poRing.len + 1
        PROVE  arrays'[poRing.arr][poRing.off + i] # nil
    <3>1. CASE i = poRing.len + 1
      <4>1. poRing.off + i = poRing.off + poRing.len + 1  BY <1>2, <3>1 DEF Header
      <4> QED  BY <1>1, <1>3, <2>1, <4>1
    <3>2. CASE i # poRing.len + 1
      <4>1. i \in 1 .. poRing.len  BY <1>2, <3>2
      <4>2. poRing.off + i # poRing.off + poRing.len + 1  BY <1>2, <4>1 DEF Header
      <4> QED  BY <1>3, <2>1, <4>1, <4>2 DEF NoHole
    <3> QED  BY <3>1, <3>2
  <2> QED  BY <2>2, <2>3 DEF NoHole
<1>6. ASSUME NEW room \in 0 .. MaxRoom, grow(poRing, o, room)
      PROVE  NoHole(poRing)'
  <2>1. room \in Nat  BY RaceAssumption
  <2>2. /\ \A i \in 1 .. poRing.len + 1 + room :
             arrays'[Len(arrays) + 1][i] = IF i <= poRing.len THEN view(poRing)[i]
                                           ELSE IF i = poRing.len + 1 THEN o ELSE nil
        /\ poRing' = [arr |-> Len(arrays) + 1, off |-> 0, len |-> poRing.len + 1]
    BY ONLY RaceTypeOK, <1>1, <1>2, <1>6, <2>1, GrowEffect
  <2>3. poRing'.len = poRing.len + 1 /\ poRing'.arr = Len(arrays) + 1 /\ poRing'.off = 0
    BY <2>2
  <2>4. ASSUME NEW i \in 1 .. poRing.len + 1
        PROVE  arrays'[Len(arrays) + 1][0 + i] # nil
    <3>1. i \in 1 .. poRing.len + 1 + room /\ 0 + i = i  BY <1>2, <2>1
    <3>2. CASE i = poRing.len + 1
      BY <1>1, <1>2, <2>2, <3>1, <3>2
    <3>3. CASE i # poRing.len + 1
      <4>1. i \in 1 .. poRing.len /\ i <= poRing.len  BY <1>2, <3>3
      <4>2. view(poRing)[i] # nil  BY <1>2, <4>1, ViewType DEF NoHole
      <4> QED  BY <2>2, <3>1, <4>1, <4>2
    <3> QED  BY <3>2, <3>3
  <2> QED  BY <2>3, <2>4 DEF NoHole
<1> QED
  BY <1>4, <1>5, <1>6

\* Once a call has been overlapped there is no calm again.
LEMMA CalmBefore ==
    RaceTypeOK /\ [RaceNext]_raceVars /\ Calm' => Calm
<1> SUFFICES ASSUME RaceTypeOK, [RaceNext]_raceVars, Calm' PROVE Calm
  OBVIOUS
<1>t. overlap \in [Writers -> BOOLEAN] /\ overlaps \in Nat /\ overlaps' = 0
      /\ \A w \in Writers : ~ overlap'[w]
  BY DEF RaceTypeOK, Calm
<1>1. ASSUME NEW w \in Writers, NEW dir \in {"In", "Out"}, NEW n \in Sizes, Call(w, dir, n)
      PROVE  Calm
  <2>1. UNCHANGED overlaps /\ \A v \in Writers : overlap'[v] = (overlap[v] \/ (Running # {} /\ v \in Running \cup {w}))
    BY <1>1 DEF Call
  <2> QED  BY <1>t, <2>1 DEF Calm
<1>2. ASSUME NEW w \in Writers, return(w) PROVE Calm
  <2>1. CASE overlap[w]
    <3>1. overlaps' = overlaps + 1  BY <1>2, <2>1 DEF return
    <3> QED  BY <1>t, <3>1
  <2>2. CASE ~ overlap[w]
    <3>1. overlaps' = overlaps /\ overlap' = [overlap EXCEPT ![w] = FALSE]
      BY <1>2, <2>2 DEF return
    <3>2. \A v \in Writers \ {w} : overlap'[v] = overlap[v]  BY <1>t, <3>1
    <3> QED  BY <1>t, <2>2, <3>1, <3>2 DEF Calm
  <2> QED  BY <2>1, <2>2
<1>3. ASSUME UNCHANGED <<overlap, overlaps>> PROVE Calm
  BY <1>3, <1>t DEF Calm
<1>4. ASSUME NEW w \in Writers, Step(w) PROVE Calm
  <2>1. CASE StoreItem(w) \/ StoreAppend(w)
    BY <1>2, <2>1 DEF StoreItem, StoreAppend, afterAppend
  <2>2. CASE ~ (StoreItem(w) \/ StoreAppend(w))
    BY <1>3, <1>4, <2>2 DEF Step, TestEmpty, TestFull, LoadSlice, StoreCut, ReadLast, LoadItem,
       Break, histories
  <2> QED  BY <2>1, <2>2
<1>5. CASE StatsBegin \/ StatsItem \/ StatsEnd \/ StatsBreak \/ RaceTick \/ UNCHANGED raceVars
  BY <1>3, <1>5 DEF StatsBegin, StatsItem, StatsEnd, StatsBreak, RaceTick, raceVars, histories
<1> QED
  BY <1>1, <1>4, <1>5 DEF RaceNext

\* A call that runs alone does not break.
LEMMA BreakTakesOverlap ==
    ASSUME RaceTypeOK, Alone, Whole, Calm, NEW w \in Writers, Break(w)
    PROVE  FALSE
<1>1. pc[w] # "idle" /\ broken = "no"
  BY DEF Break, at, StoresHeader
<1>2. \A v \in Writers : v # w => pc[v] = "idle"
  BY <1>1 DEF Alone, Calm
<1>3. /\ pc[w] = "last" => poRing.len > 0
      /\ pc[w] = "cut" => poRing.len >= RingSize
      /\ pc[w] = "appendStore" => my[w].slice = poRing
  BY <1>1 DEF Alone, Calm
<1>4. poRing \in Header /\ fits(poRing) /\ poRing.len \in Nat /\ RingSize \in Nat /\ RingSize >= 2
  BY RaceAssumption DEF RaceTypeOK, Header
<1>5. \A v \in Writers : Storing(v) \/ StoresHeader(v) => v = w
  BY <1>2 DEF Storing, StoresHeader
<1>6. pc[w] = "last" => HasLast
  <2>1. SUFFICES ASSUME pc[w] = "last" PROVE HasLast
    OBVIOUS
  <2>2. poRing.len \in 1 .. poRing.len  BY <1>3, <1>4, <2>1
  <2>3. view(poRing)[poRing.len] = arrays[poRing.arr][poRing.off + poRing.len]
    BY <1>4, <2>2, ViewType
  <2> QED  BY <1>3, <2>1, <2>2, <2>3 DEF HasLast, Whole, NoHole
<1>7. pc[w] = "appendStore" /\ hasRoom(my[w].slice) => fits(lengthened(my[w].slice))
  <2>1. SUFFICES ASSUME pc[w] = "appendStore", hasRoom(poRing) PROVE fits(lengthened(poRing))
    BY <1>3
  <2>2. arrays \in Seq(Seq(Objects \cup {nil})) /\ poRing.arr \in 1 .. Len(arrays)
    BY <1>4, LenProperties DEF RaceTypeOK, Header
  <2>3. Len(arrays[poRing.arr]) \in Nat
    BY <2>2, ElementOfSeq, LenProperties
  <2> QED  BY <1>4, <2>1, <2>3 DEF fits, hasRoom, lengthened, Header
<1>8. CASE at(w, "cut") /\ (poRing.len = 0 \/ \E v \in Writers : StoresHeader(v))
  BY <1>3, <1>4, <1>5, <1>8 DEF at, StoresHeader
<1>9. CASE at(w, "append") /\ \E v \in Writers : Storing(v)
  BY <1>5, <1>9 DEF at, Storing
<1>10. CASE at(w, "last") /\ (~ HasLast \/ \E v \in Writers : Storing(v))
  BY <1>5, <1>6, <1>10 DEF at, Storing
<1>11. CASE at(w, "appendStore") /\ hasRoom(my[w].slice) /\ ~ fits(lengthened(my[w].slice))
  BY <1>7, <1>11 DEF at
<1>12. CASE \E v \in Writers \ {w} : StoresHeader(v)
  BY <1>5, <1>12
<1> QED
  BY <1>8, <1>9, <1>10, <1>11, <1>12 DEF Break

\* Whole is preserved.
LEMMA WholeStep ==
    RaceTypeOK /\ Shape /\ Alone /\ Whole /\ [RaceNext]_raceVars => Whole'
<1> SUFFICES ASSUME RaceTypeOK, Shape, Alone, Whole, [RaceNext]_raceVars, Calm'
             PROVE  (/\ broken # "writer"
                     /\ broken = "reader" => Running # {}
                     /\ NoHole(poRing) /\ NoHole(reader.slice))'
  BY DEF Whole
<1>0. Calm
  BY CalmBefore
<1>h. /\ broken # "writer"
      /\ broken = "reader" => Running # {}
      /\ NoHole(poRing) /\ NoHole(reader.slice)
  BY <1>0 DEF Whole
<1>r. reader.slice \in Header /\ fits(reader.slice) /\ reader.next \in Nat \ {0} /\ reader.slice.len \in Nat
  BY DEF RaceTypeOK, Header
<1> DEFINE Goal == (/\ broken # "writer"
                    /\ broken = "reader" => Running # {}
                    /\ NoHole(poRing) /\ NoHole(reader.slice))'
<1>1. ASSUME broken = "no", UNCHANGED <<poRing, arrays, reader, broken>> PROVE Goal
  BY <1>1, <1>h DEF NoHole
<1>2. ASSUME NEW w \in Writers, NEW dir \in {"In", "Out"}, NEW n \in Sizes, Call(w, dir, n)
      PROVE  Goal
  BY <1>1, <1>2 DEF Call, at, memory
<1>3. ASSUME NEW w \in Writers, StoreCut(w) PROVE Goal
  <2>1. pc[w] = "cutStore" /\ broken = "no" /\ UNCHANGED <<arrays, reader, broken>>
        /\ poRing' = cutOff(my[w].slice)
    BY <1>3 DEF StoreCut, at
  <2>2. my[w].slice = poRing /\ poRing.len > 0 /\ poRing \in Header
    BY <1>0, <2>1 DEF Alone, Calm, Shape, RaceTypeOK
  <2>3. poRing' = [arr |-> poRing.arr, off |-> poRing.off + 1, len |-> poRing.len - 1]
    BY <2>1, <2>2 DEF cutOff, Header
  <2>4. ASSUME NEW i \in 1 .. poRing.len - 1
        PROVE  arrays[poRing.arr][(poRing.off + 1) + i] # nil
    <3>1. i + 1 \in 1 .. poRing.len /\ poRing.off + (i + 1) = (poRing.off + 1) + i
      BY <2>2 DEF Header
    <3>2. arrays[poRing.arr][poRing.off + (i + 1)] # nil  BY <1>h, <3>1 DEF NoHole
    <3> QED  BY <3>1, <3>2
  <2>5. NoHole(poRing)'
    BY <2>1, <2>3, <2>4 DEF NoHole
  <2>6. NoHole(reader.slice)'
    BY <2>1, <1>h DEF NoHole
  <2> QED  BY <2>1, <2>5, <2>6
<1>4. ASSUME NEW w \in Writers, StoreAppend(w) PROVE Goal
  <2>1. pc[w] = "appendStore" /\ broken = "no" /\ UNCHANGED <<reader, broken>>
    BY <1>4 DEF StoreAppend, at
  <2>2. my[w].slice = poRing
    BY <1>0, <2>1 DEF Alone, Calm
  <2>3. NoHole(poRing)'
    BY <1>4, <1>h, <2>2, NoHoleAppended
  <2>4. NoHole(reader.slice)'
    <3> DEFINE o == Len(heap) + 1
    <3>1. \A i \in 1 .. reader.slice.len :
             arrays'[reader.slice.arr][reader.slice.off + i] \in {arrays[reader.slice.arr][reader.slice.off + i], o}
      BY <1>4, <1>r, PlacesKept
    <3>2. o # nil
      <4>1. heap \in Seq(Entry)  BY DEF RaceTypeOK
      <4> QED  BY <4>1, LenProperties DEF nil
    <3> HIDE DEF o
    <3> QED  BY <2>1, <1>h, <3>1, <3>2 DEF NoHole
  <2> QED  BY <2>1, <2>3, <2>4
<1>5. ASSUME NEW w \in Writers, Step(w) PROVE Goal
  <2>1. CASE TestEmpty(w)  BY <1>1, <2>1 DEF TestEmpty, at, memory
  <2>2. CASE TestFull(w)  BY <1>1, <2>2 DEF TestFull, at, memory
  <2>3. CASE LoadSlice(w, "cut", "cutStore") \/ LoadSlice(w, "append", "appendStore")
    BY <1>1, <2>3 DEF LoadSlice, at, memory
  <2>4. CASE ReadLast(w)  BY <1>1, <2>4 DEF ReadLast, at, memory
  <2>5. CASE LoadItem(w)  BY <1>1, <2>5 DEF LoadItem, at, memory
  <2>6. CASE StoreItem(w)  BY <1>1, <2>6 DEF StoreItem, at
  <2>7. CASE Break(w)  BY <1>0, <2>7, BreakTakesOverlap
  <2> QED
    BY <1>3, <1>4, <1>5, <2>1, <2>2, <2>3, <2>4, <2>5, <2>6, <2>7 DEF Step
<1>6. CASE StatsBegin
  BY <1>6, <1>h DEF StatsBegin, NoHole, memory
<1>7. CASE StatsItem
  <2>1. /\ broken = "no" /\ reader'.slice = reader.slice /\ UNCHANGED <<poRing, arrays, broken>>
    BY <1>7 DEF StatsItem, memory, RaceTypeOK
  <2> QED  BY <1>h, <2>1 DEF NoHole
<1>8. CASE StatsEnd
  BY <1>8, <1>h DEF StatsEnd, NoHole, noSlice, memory
<1>9. CASE StatsBreak
  <2>1. broken' = "reader" /\ UNCHANGED <<poRing, arrays, reader, pc>>
    BY <1>9 DEF StatsBreak, memory
  <2>2. Running # {}
    <3>1. CASE \E v \in Writers : Storing(v)
      BY <3>1 DEF Storing, Running
    <3>2. CASE reader.next <= reader.slice.len /\ view(reader.slice)[reader.next] = nil
      <4>1. reader.next \in 1 .. reader.slice.len  BY <1>r, <3>2
      <4>2. view(reader.slice)[reader.next] # nil
        BY <1>h, <1>r, <4>1, ViewType DEF NoHole
      <4> QED  BY <3>2, <4>2
    <3> QED  BY <1>9, <3>1, <3>2 DEF StatsBreak
  <2>3. Running' = Running  BY <2>1 DEF Running
  <2> QED  BY <1>h, <2>1, <2>2, <2>3 DEF NoHole
<1>10. CASE RaceTick
  BY <1>1, <1>10 DEF RaceTick, memory
<1>11. CASE UNCHANGED raceVars
  <2>1. UNCHANGED <<poRing, arrays, reader, broken, pc>>
    BY <1>11 DEF raceVars, memory
  <2>2. Running' = Running  BY <2>1 DEF Running
  <2>3. NoHole(poRing)' /\ NoHole(reader.slice)'  BY <2>1, <1>h DEF NoHole
  <2>4. broken' = broken  BY <2>1
  <2>5. broken' # "writer" /\ (broken' = "reader" => Running' # {})
    <3>1. broken # "writer" /\ (broken = "reader" => Running # {})  BY <1>h
    <3> QED  BY <2>2, <2>4, <3>1, Zenon
  <2> QED  BY <2>3, <2>5
<1> QED
  BY <1>2, <1>5, <1>6, <1>7, <1>8, <1>9, <1>10, <1>11 DEF RaceNext

\* What goroutines that have not met find.
RaceInv == RaceTypeOK /\ Shape /\ Alone /\ Lengthy /\ Whole

\* RaceInv holds at the start ...
LEMMA RaceInvInit == RaceInit => RaceInv
<1> SUFFICES ASSUME RaceInit PROVE RaceInv
  OBVIOUS
<1>1. RaceTypeOK /\ Shape
  BY RaceTypeInit
<1>2. /\ pc = [w \in Writers |-> "idle"] /\ my = [w \in Writers |-> locals]
      /\ broken = "no" /\ overlaps = 0 /\ reader.slice = noSlice
  BY DEF RaceInit
<1>3. Alone
  BY <1>2 DEF Alone
<1>4. PICK k \in 0 .. RingSize, room \in 0 .. MaxRoom :
          /\ poRing = [arr |-> 1, off |-> 0, len |-> k]
          /\ arrays = <<[i \in 1 .. k + room |-> IF i <= k THEN i ELSE nil]>>
  BY DEF RaceInit
<1>5. RingSize \in Nat /\ MaxRoom \in Nat
  BY RaceAssumption
<1>6. Lengthy
  <2>1. poRing.len <= RingSize + overlaps  BY <1>2, <1>4, <1>5
  <2>2. \A w \in Writers : my[w].slice.len = 0  BY <1>2 DEF locals, noSlice
  <2> QED  BY <1>2, <1>5, <2>1, <2>2 DEF Lengthy
<1>7. NoHole(poRing)
  <2>1. arrays[1] = [i \in 1 .. k + room |-> IF i <= k THEN i ELSE nil]
    BY <1>4
  <2>2. ASSUME NEW i \in 1 .. k PROVE arrays[1][0 + i] # nil
    <3>1. 0 + i = i /\ i \in 1 .. k + room /\ i <= k /\ i # 0  BY <1>5
    <3> QED  BY <2>1, <3>1 DEF nil
  <2> QED  BY <1>4, <2>2 DEF NoHole
<1>8. Whole
  <2>1. NoHole(reader.slice)  BY <1>2 DEF NoHole, noSlice
  <2> QED  BY <1>2, <1>7, <2>1 DEF Whole
<1> QED
  BY <1>1, <1>3, <1>6, <1>8 DEF RaceInv

\* ... and is preserved.
LEMMA RaceInvStep == RaceInv /\ [RaceNext]_raceVars => RaceInv'
BY RaceTypeStep, AloneStep, LengthyStep, WholeStep DEF RaceInv

\* A call goes wrong, a reader with it, and the slice outgrows maxRingSize, only
\* where calls overlap (process.go:66-95).
THEOREM HarmTakesOverlap == RaceSpec => []HarmOnlyByOverlap
<1>1. RaceInv => HarmOnlyByOverlap
  <2> SUFFICES ASSUME RaceInv PROVE HarmOnlyByOverlap
    OBVIOUS
  <2> DEFINE Hit == {w \in Writers : overlap[w]}
  <2>1. IsFiniteSet(Hit)
    BY RaceAssumption, FS_Subset
  <2>2. Cardinality(Hit) \in Nat /\ (Cardinality(Hit) = 0 => Hit = {})
    BY <2>1, FS_CardinalityType, FS_EmptySet
  <2>3. overlaps \in Nat /\ RingSize \in Nat /\ poRing.len \in Nat
    BY RaceAssumption DEF RaceInv, RaceTypeOK, Header
  <2>4. involved = overlaps + Cardinality(Hit)
    BY DEF involved
  <2> HIDE DEF Hit
  <2>5. involved \in Nat /\ overlaps <= involved
    BY <2>2, <2>3, <2>4
  <2>6. ASSUME involved = 0 PROVE Calm
    <3>1. overlaps = 0 /\ Hit = {}  BY <2>2, <2>3, <2>4, <2>6
    <3> QED  BY <3>1 DEF Calm, Hit
  <2>7. poRing.len <= RingSize + involved
    BY <2>3, <2>5 DEF RaceInv, Lengthy
  <2> QED
    BY <2>5, <2>6, <2>7 DEF HarmOnlyByOverlap, RaceInv, Whole
<1> QED
  BY <1>1, RaceInvInit, RaceInvStep, PTL DEF RaceSpec

\* No array refers to an entry twice, whatever a call appends: the entry is new.
LEMMA UniqueStep == RaceTypeOK /\ Unique /\ [RaceNext]_raceVars => Unique'
<1> SUFFICES ASSUME RaceTypeOK, Unique, [RaceNext]_raceVars PROVE Unique'
  OBVIOUS
<1>t. /\ arrays \in Seq(Seq(Objects \cup {nil})) /\ Len(arrays) \in Nat
      /\ DOMAIN arrays = 1 .. Len(arrays)
      /\ \A a \in 1 .. Len(arrays) : \A i \in 1 .. Len(arrays[a]) : arrays[a][i] \in Objects \cup {nil}
  <2>1. arrays \in Seq(Seq(Objects \cup {nil}))  BY DEF RaceTypeOK
  <2>2. \A a \in 1 .. Len(arrays) : arrays[a] \in Seq(Objects \cup {nil})
    BY <2>1, ElementOfSeq
  <2> QED  BY <2>1, <2>2, LenProperties, ElementOfSeq
<1>1. ASSUME NEW w \in Writers, StoreAppend(w) PROVE Unique'
  <2> DEFINE o  == Len(heap) + 1
             sl == my[w].slice
             S  == Objects \cup {nil, o}
  <2>1. o \notin Objects \cup {nil} /\ Objects \cup {nil} \subseteq S /\ o \in S
    <3>1. heap \in Seq(Entry)  BY DEF RaceTypeOK
    <3> QED  BY <3>1, LenProperties DEF nil, Objects
  <2>2. sl \in Header /\ fits(sl) /\ sl.len \in Nat /\ sl.arr \in 1 .. Len(arrays) /\ sl.off \in Nat
    BY <1>t DEF RaceTypeOK, Locals, Header
  <2>3. extend(sl, o) \/ \E room \in 0 .. MaxRoom : grow(sl, o, room)
    BY <1>1 DEF StoreAppend
  <2> HIDE DEF o, sl, S
  <2>4. CASE extend(sl, o)
    <3>1. /\ arrays' \in Seq(Seq(S)) /\ Len(arrays') = Len(arrays)
          /\ \A a \in 1 .. Len(arrays) :
               /\ Len(arrays'[a]) = Len(arrays[a])
               /\ \A i \in 1 .. Len(arrays[a]) :
                     arrays'[a][i] = IF a = sl.arr /\ i = sl.off + sl.len + 1
                                     THEN o ELSE arrays[a][i]
      BY ONLY RaceTypeOK, <2>1, <2>2, <2>4, ExtendEffect
    <3>2. DOMAIN arrays' = 1 .. Len(arrays)  BY <3>1, LenProperties
    <3>3. ASSUME NEW a \in 1 .. Len(arrays), NEW i \in 1 .. Len(arrays[a]), NEW j \in 1 .. Len(arrays[a]),
                 arrays'[a][i] = arrays'[a][j], arrays'[a][i] # nil
          PROVE  i = j
      <4>1. arrays[a][i] # o /\ arrays[a][j] # o  BY <1>t, <2>1
      <4>2. arrays[a][i] = arrays[a][j] /\ arrays[a][i] # nil => i = j
        BY <1>t DEF Unique
      <4> DEFINE p == sl.off + sl.len + 1
      <4>3. /\ arrays'[a][i] = IF a = sl.arr /\ i = p THEN o ELSE arrays[a][i]
            /\ arrays'[a][j] = IF a = sl.arr /\ j = p THEN o ELSE arrays[a][j]
        BY <3>1
      <4> HIDE DEF p
      <4> QED  BY <3>3, <4>1, <4>2, <4>3
    <3> QED  BY <3>1, <3>2, <3>3 DEF Unique
  <2>5. ASSUME NEW room \in 0 .. MaxRoom, grow(sl, o, room) PROVE Unique'
    <3>1. room \in Nat  BY RaceAssumption
    <3> DEFINE b == arrays'[Len(arrays) + 1]
               n == sl.len + 1 + room
    <3>2. /\ arrays' \in Seq(Seq(S)) /\ Len(arrays') = Len(arrays) + 1
          /\ \A a \in 1 .. Len(arrays) : arrays'[a] = arrays[a]
          /\ Len(b) = n
          /\ \A i \in 1 .. n : b[i] = IF i <= sl.len THEN view(sl)[i]
                                      ELSE IF i = sl.len + 1 THEN o ELSE nil
      <4> HIDE DEF b, n
      <4>1. arrays' \in Seq(Seq(S)) /\ Len(arrays') = Len(arrays) + 1
        BY ONLY RaceTypeOK, <2>1, <2>2, <2>5, <3>1, GrowEffect
      <4>2. \A a \in 1 .. Len(arrays) : arrays'[a] = arrays[a]
        BY ONLY RaceTypeOK, <2>1, <2>2, <2>5, <3>1, GrowEffect
      <4>3. Len(b) = n
        BY ONLY RaceTypeOK, <2>1, <2>2, <2>5, <3>1, GrowEffect DEF b, n
      <4>4. \A i \in 1 .. n : b[i] = IF i <= sl.len THEN view(sl)[i]
                                      ELSE IF i = sl.len + 1 THEN o ELSE nil
        BY ONLY RaceTypeOK, <2>1, <2>2, <2>5, <3>1, GrowEffect DEF b, n
      <4> QED  BY <4>1, <4>2, <4>3, <4>4
    <3>3. DOMAIN arrays' = 1 .. Len(arrays) + 1  BY <3>2, LenProperties
    <3>4. \A i \in 1 .. sl.len :
             /\ sl.off + i \in 1 .. Len(arrays[sl.arr]) /\ view(sl)[i] = arrays[sl.arr][sl.off + i]
             /\ view(sl)[i] \in Objects \cup {nil}
      BY <2>2, ViewType
    <3>5. ASSUME NEW i \in 1 .. sl.len, NEW j \in 1 .. sl.len, view(sl)[i] = view(sl)[j], view(sl)[i] # nil
          PROVE  i = j
      <4>0. \A k, l \in 1 .. Len(arrays[sl.arr]) :
               arrays[sl.arr][k] = arrays[sl.arr][l] /\ arrays[sl.arr][k] # nil => k = l
        BY <1>t, <2>2 DEF Unique
      <4>1. sl.off + i = sl.off + j  BY <3>4, <3>5, <4>0
      <4> QED  BY <2>2, <4>1
    <3>6. ASSUME NEW i \in 1 .. n, NEW j \in 1 .. n, b[i] = b[j], b[i] # nil
          PROVE  i = j
      <4>1. i <= sl.len => i \in 1 .. sl.len /\ view(sl)[i] # o  BY <2>1, <2>2, <3>1, <3>4
      <4>2. j <= sl.len => j \in 1 .. sl.len /\ view(sl)[j] # o  BY <2>1, <2>2, <3>1, <3>4
      <4>3. /\ b[i] = IF i <= sl.len THEN view(sl)[i] ELSE IF i = sl.len + 1 THEN o ELSE nil
            /\ b[j] = IF j <= sl.len THEN view(sl)[j] ELSE IF j = sl.len + 1 THEN o ELSE nil
        BY <3>2
      <4> HIDE DEF b, n
      <4> QED  BY <3>5, <3>6, <4>1, <4>2, <4>3
    <3>7. ASSUME NEW a \in 1 .. Len(arrays), NEW i \in 1 .. Len(arrays[a]), NEW j \in 1 .. Len(arrays[a]),
                 arrays'[a][i] = arrays'[a][j], arrays'[a][i] # nil
          PROVE  i = j
      <4>1. \A k, l \in 1 .. Len(arrays[a]) :
               arrays[a][k] = arrays[a][l] /\ arrays[a][k] # nil => k = l
        BY <1>t DEF Unique
      <4>2. arrays'[a] = arrays[a]  BY <3>2
      <4> QED  BY ONLY <3>7, <4>1, <4>2
    <3>8. ASSUME NEW a \in 1 .. Len(arrays) + 1, NEW i \in 1 .. Len(arrays'[a]), NEW j \in 1 .. Len(arrays'[a]),
                 arrays'[a][i] = arrays'[a][j], arrays'[a][i] # nil
          PROVE  i = j
      <4>1. CASE a \in 1 .. Len(arrays)  BY <3>2, <3>7, <3>8, <4>1
      <4>2. CASE a = Len(arrays) + 1  BY <3>2, <3>6, <3>8, <4>2
      <4> QED  BY <1>t, <4>1, <4>2
    <3> QED  BY <3>3, <3>8 DEF Unique
  <2> QED  BY <2>3, <2>4, <2>5
<1>2. ASSUME UNCHANGED arrays PROVE Unique'
  BY <1>2 DEF Unique
<1>3. ASSUME NEW w \in Writers, Step(w) PROVE Unique'
  <2>1. CASE ~ StoreAppend(w)
    BY <1>2, <1>3, <2>1 DEF Step, TestEmpty, TestFull, LoadSlice, StoreCut, ReadLast, LoadItem,
       StoreItem, Break, memory
  <2> QED  BY <1>1, <2>1
<1>4. CASE ~ \E w \in Writers : Step(w)
  BY <1>2, <1>4 DEF RaceNext, Call, StatsBegin, StatsItem, StatsEnd, StatsBreak, RaceTick, raceVars, memory
<1> QED
  BY <1>3, <1>4

\* At the start every entry was charged one byte.
LEMMA BalancedInit == RaceInit => Balanced
<1> SUFFICES ASSUME RaceInit PROVE Balanced
  OBVIOUS
<1>1. PICK k \in 0 .. RingSize :
          /\ heap = [i \in 1 .. k |-> [Timestamp |-> i - k - 1, In |-> 1, Out |-> 0]]
          /\ billed = k
  BY DEF RaceInit
<1>2. k \in Nat /\ Objects = 1 .. k
  BY <1>1, RaceAssumption DEF Objects
<1> DEFINE cin  == [o \in Objects |-> 1]
           cout == [o \in Objects |-> 0]
           both == [o \in Objects |-> cin[o] + cout[o]]
<1>3. cin \in [Objects -> Nat] /\ cout \in [Objects -> Nat]
  OBVIOUS
<1>4. \A o \in Objects : heap[o].In <= cin[o] /\ heap[o].Out <= cout[o]
  BY <1>1, <1>2
<1>5. \A o \in Objects : both[o] = 1
  OBVIOUS
<1>6. IsFiniteSet(Objects) /\ Cardinality(Objects) = k
  BY <1>2, FS_Interval
<1>7. SumFunctionOnSet(both, Objects) <= billed
  <2> HIDE DEF both
  <2>1. SumFunctionOnSet(both, Objects) = k  BY <1>5, <1>6, SumOnes
  <2> QED  BY <1>1, <1>2, <2>1
<1>8. reader.In <= SumFunctionOnSet(cin, {})
  <2> HIDE DEF cin
  <2>1. SumFunctionOnSet(cin, {}) = 0  BY SumEmpty
  <2> QED  BY <2>1 DEF RaceInit
<1>9. \A w \in Writers : pc[w] # "store"
  BY DEF RaceInit
<1> HIDE DEF cin, cout
<1>10. Charged(cin, cout, {})
  BY <1>3, <1>4, <1>7, <1>8, <1>9 DEF Charged
<1> QED
  BY <1>10 DEF Balanced

\* The books balance under every step.
LEMMA BalancedStep ==
    RaceTypeOK /\ Shape /\ Unique /\ Balanced /\ [RaceNext]_raceVars => Balanced'
<1> SUFFICES ASSUME RaceTypeOK, Shape, Unique, [RaceNext]_raceVars,
                    NEW cin, NEW cout, NEW seen, Charged(cin, cout, seen)
             PROVE  Balanced'
  BY DEF Balanced
<1>c. Sizes \subseteq Nat
  BY RaceAssumption
<1>t. /\ cin \in [Objects -> Nat] /\ cout \in [Objects -> Nat]
      /\ seen \subseteq Objects /\ billed \in Nat /\ reader.In \in Nat
      /\ heap \in Seq(Entry) /\ Len(heap) \in Nat /\ Objects = 1 .. Len(heap)
      /\ \A o \in Objects : heap[o] \in Entry
  <2>1. heap \in Seq(Entry)  BY DEF RaceTypeOK
  <2>2. Len(heap) \in Nat /\ Objects = 1 .. Len(heap)  BY <2>1, LenProperties DEF Objects
  <2>3. \A o \in Objects : heap[o] \in Entry  BY <2>1, <2>2, ElementOfSeq
  <2> QED  BY <2>1, <2>2, <2>3 DEF Charged, RaceTypeOK
<1>f. IsFiniteSet(Objects) /\ IsFiniteSet(seen)
  <2>1. IsFiniteSet(Objects)  BY <1>t, FS_Interval
  <2> QED  BY <1>t, <2>1, FS_Subset
<1>m. my \in [Writers -> Locals] /\ pc = [w \in Writers |-> pc[w]]
      /\ \A w \in Writers : my[w].n \in Nat /\ my[w].dir \in {"In", "Out"}
  BY DEF RaceTypeOK, Locals
<1>0. ASSUME UNCHANGED <<heap, arrays, billed, reader>>,
             \A v \in Writers : pc'[v] = "store" => pc[v] = "store" /\ my'[v] = my[v]
      PROVE  Balanced'
  <2>1. Objects' = Objects  BY <1>0 DEF Objects
  <2>2. Charged(cin, cout, seen)'
    BY <1>0, <2>1 DEF Charged
  <2> QED  BY <2>2 DEF Balanced
<1>1. ASSUME NEW w \in Writers, NEW dir \in {"In", "Out"}, NEW n \in Sizes, Call(w, dir, n)
      PROVE  Balanced'
  <2>1. UNCHANGED <<heap, arrays, billed, reader>>  BY <1>1 DEF Call, memory
  <2>2. \A v \in Writers : pc'[v] = "store" => pc[v] = "store" /\ my'[v] = my[v]
    BY <1>m, <1>1 DEF Call, goto
  <2> QED  BY <1>0, <2>1, <2>2
<1>2. ASSUME NEW w \in Writers,
             \/ TestEmpty(w) \/ TestFull(w) \/ StoreCut(w) \/ ReadLast(w) \/ Break(w)
             \/ LoadSlice(w, "cut", "cutStore") \/ LoadSlice(w, "append", "appendStore")
      PROVE  Balanced'
  <2>1. UNCHANGED <<heap, arrays, billed, reader>>
    BY <1>2 DEF TestEmpty, TestFull, StoreCut, ReadLast, Break, LoadSlice, memory, histories
  <2>2. \A v \in Writers : pc'[v] = "store" => pc[v] = "store" /\ my'[v] = my[v]
    BY <1>m, <1>2 DEF TestEmpty, TestFull, StoreCut, ReadLast, Break, LoadSlice, goto
  <2> QED  BY <1>0, <2>1, <2>2
<1>3. ASSUME NEW w \in Writers, LoadItem(w) PROVE Balanced'
  <2>1. /\ UNCHANGED <<heap, arrays, billed, reader>> /\ pc[w] = "load"
        /\ my' = [my EXCEPT ![w].old = heap[my[w].item][my[w].dir]]
        /\ pc' = [pc EXCEPT ![w] = "store"]
    BY <1>3 DEF LoadItem, memory, histories, goto, at
  <2>2. my[w].item \in Objects
    BY <1>m, <2>1 DEF Shape, Locals
  <2>3. heap[my[w].item][my[w].dir] <= IF my[w].dir = "In" THEN cin[my[w].item] ELSE cout[my[w].item]
    <3>1. heap[my[w].item].In <= cin[my[w].item] /\ heap[my[w].item].Out <= cout[my[w].item]
      BY <2>2 DEF Charged
    <3>2. CASE my[w].dir = "In"  BY <3>1, <3>2
    <3>3. CASE my[w].dir = "Out"  BY <3>1, <3>3
    <3> QED  BY <1>m, <3>2, <3>3
  <2>4. /\ my'[w].old = heap[my[w].item][my[w].dir] /\ my'[w].dir = my[w].dir
        /\ my'[w].item = my[w].item /\ \A v \in Writers \ {w} : my'[v] = my[v] /\ pc'[v] = pc[v]
    BY <1>m, <2>1 DEF Locals
  <2>5. \A v \in Writers : pc'[v] = "store" =>
          my'[v].old <= IF my'[v].dir = "In" THEN cin[my'[v].item] ELSE cout[my'[v].item]
    BY <2>3, <2>4 DEF Charged
  <2>6. Objects' = Objects  BY <2>1 DEF Objects
  <2>7. Charged(cin, cout, seen)'
    BY <2>1, <2>5, <2>6 DEF Charged
  <2> QED  BY <2>7 DEF Balanced
<1>n. ASSUME NEW w \in Writers
      PROVE  \E cI, cO \in Nat :
                /\ cI + cO = my[w].n
                /\ my[w].dir = "In" => cI = my[w].n /\ cO = 0
                /\ my[w].dir = "Out" => cI = 0 /\ cO = my[w].n
  <2>1. CASE my[w].dir = "In"   BY <1>m, <2>1
  <2>2. CASE my[w].dir = "Out"  BY <1>m, <2>2
  <2> QED  BY <1>m, <2>1, <2>2
<1>4. ASSUME NEW w \in Writers, StoreItem(w) PROVE Balanced'
  <2>0. PICK item \in Objects, n \in Nat : item = my[w].item /\ n = my[w].n
    <3>1. pc[w] = "store"  BY <1>4 DEF StoreItem, at
    <3>2. my[w].item \in Objects  BY <1>m, <3>1 DEF Shape, Locals
    <3> QED  BY <1>m, <3>2
  <2>1. /\ pc[w] = "store" /\ UNCHANGED <<arrays, reader>>
        /\ heap' = [heap EXCEPT ![item][my[w].dir] = my[w].old + n]
        /\ my' = [my EXCEPT ![w] = locals] /\ pc' = [pc EXCEPT ![w] = "idle"] /\ billed' = billed + n
    BY <1>4, <2>0 DEF StoreItem, return, goto, at
  <2>2. item \in Objects /\ n \in Nat  OBVIOUS
  <2>3. PICK cI, cO \in Nat :
                /\ cI + cO = n
                /\ my[w].dir = "In" => cI = n /\ cO = 0
                /\ my[w].dir = "Out" => cI = 0 /\ cO = n
    BY <1>n, <2>0
  <2> DEFINE ci   == [cin EXCEPT ![item] = @ + cI]
             co   == [cout EXCEPT ![item] = @ + cO]
             both == [o \in Objects |-> cin[o] + cout[o]]
             sum  == [o \in Objects |-> ci[o] + co[o]]
  <2> DEFINE e == [heap[item] EXCEPT ![my[w].dir] = my[w].old + n]
  <2>4. /\ ci \in [Objects -> Nat] /\ co \in [Objects -> Nat]
        /\ ci[item] = cin[item] + cI /\ co[item] = cout[item] + cO
        /\ \A o \in Objects \ {item} : ci[o] = cin[o] /\ co[o] = cout[o]
    <3>1. cin[item] + cI \in Nat /\ cout[item] + cO \in Nat
      BY <1>t, <2>2, <2>3
    <3> QED  BY <1>t, <2>2, <3>1
  <2>5. \A o \in Objects : /\ cin[o] \in Nat /\ cout[o] \in Nat /\ ci[o] \in Nat /\ co[o] \in Nat
                           /\ cin[o] <= ci[o] /\ cout[o] <= co[o]
    <3> HIDE DEF ci, co
    <3>1. \A o \in Objects : cin[o] \in Nat /\ cout[o] \in Nat /\ ci[o] \in Nat /\ co[o] \in Nat
      BY <1>t, <2>4
    <3>2. cin[item] <= ci[item] /\ cout[item] <= co[item]
      BY <2>2, <2>3, <2>4, <3>1
    <3> QED  BY <2>4, <3>1, <3>2
  <2>6. e.In <= ci[item] /\ e.Out <= co[item]
    <3>1. heap[item] \in Entry /\ heap[item].In <= cin[item] /\ heap[item].Out <= cout[item]
      BY <1>t, <2>2 DEF Charged
    <3>2. my[w].old <= IF my[w].dir = "In" THEN cin[item] ELSE cout[item]
      BY <2>0, <2>1 DEF Charged
    <3>3. my[w].old \in Nat /\ cin[item] \in Nat /\ cout[item] \in Nat
      BY <1>m, <2>2, <2>5 DEF Locals
    <3>4. CASE my[w].dir = "In"
      <4>1. e.In = my[w].old + n /\ e.Out = heap[item].Out  BY <3>1, <3>4 DEF Entry
      <4> HIDE DEF e, ci, co
      <4> QED  BY <1>m, <2>3, <2>4, <3>1, <3>2, <3>3, <3>4, <4>1
    <3>5. CASE my[w].dir = "Out"
      <4>1. e.Out = my[w].old + n /\ e.In = heap[item].In  BY <3>1, <3>5 DEF Entry
      <4> HIDE DEF e, ci, co
      <4> QED  BY <1>m, <2>3, <2>4, <3>1, <3>2, <3>3, <3>5, <4>1
    <3> QED  BY <1>m, <3>4, <3>5
  <2>7. SumFunctionOnSet(sum, Objects) = SumFunctionOnSet(both, Objects) + n
    <3>1. sum[item] = both[item] + n 
      <4>1. sum[item] = (cin[item] + cI) + (cout[item] + cO) /\ both[item] = cin[item] + cout[item]
        BY <2>2, <2>4
      <4>2. cin[item] \in Nat /\ cout[item] \in Nat /\ cI + cO = n  BY <2>2, <2>3, <2>5
      <4> HIDE DEF sum, both
      <4> QED  BY <1>m, <4>1, <4>2
    <3>2. \A o \in Objects : both[o] \in Nat  BY <2>5
    <3>3. \A o \in Objects \ {item} : sum[o] = both[o]  BY <2>4
    <3> HIDE DEF sum, both
    <3> QED  BY <1>f, <2>2, <3>1, <3>2, <3>3, SumRaised
  <2>8. SumFunctionOnSet(cin, seen) <= SumFunctionOnSet(ci, seen)
    <3>1. \A o \in seen : cin[o] \in Nat /\ ci[o] \in Nat /\ cin[o] <= ci[o]
      BY <1>t, <2>5
    <3> HIDE DEF ci
    <3> QED  BY <1>f, <3>1, SumMonotonic
  <2> HIDE DEF ci, co, e, sum, both
  <2>9. /\ Objects' = Objects
        /\ \A o \in Objects : heap'[o].In <= ci[o] /\ heap'[o].Out <= co[o]
    <3>1. heap' = [heap EXCEPT ![item] = e]  BY <2>1 DEF e
    <3>2. Objects' = Objects  BY <3>1 DEF Objects
    <3>3. ASSUME NEW o \in Objects PROVE heap'[o].In <= ci[o] /\ heap'[o].Out <= co[o]
      <4>1. CASE o = item
        <5>1. heap'[o] = e  BY <3>1, <4>1 DEF Objects
        <5> QED  BY <2>6, <4>1, <5>1
      <4>2. CASE o # item
        <5>1. heap'[o] = heap[o]  BY <3>1, <4>2 DEF Objects
        <5>2. heap[o].In <= cin[o] /\ heap[o].Out <= cout[o]  BY DEF Charged
        <5> QED  BY <2>4, <4>2, <5>1, <5>2
      <4> QED  BY <4>1, <4>2
    <3> QED  BY <3>2, <3>3
  <2>10. ASSUME NEW v \in Writers, pc'[v] = "store"
         PROVE  my'[v].old <= IF my'[v].dir = "In" THEN ci[my'[v].item] ELSE co[my'[v].item]
    <3>1. v # w /\ pc[v] = "store" /\ my'[v] = my[v]
      BY <1>m, <2>1, <2>10
    <3>2. my[v].item \in Objects /\ my[v].old \in Nat
      BY <1>m, <3>1 DEF Shape, Locals
    <3>3. my[v].old <= IF my[v].dir = "In" THEN cin[my[v].item] ELSE cout[my[v].item]
      BY <3>1 DEF Charged
    <3> DEFINE x == my[v].item
               old == my[v].old
    <3>4. x \in Objects /\ old \in Nat  BY <3>2
    <3> HIDE DEF x
    <3>5. cin[x] \in Nat /\ cout[x] \in Nat /\ ci[x] \in Nat /\ co[x] \in Nat
          /\ cin[x] <= ci[x] /\ cout[x] <= co[x]
      BY <2>5, <3>4
    <3>6. old <= IF my[v].dir = "In" THEN cin[x] ELSE cout[x]
      BY <3>3 DEF x
    <3> HIDE DEF old
    <3>7. old <= IF my[v].dir = "In" THEN ci[x] ELSE co[x]
      BY <3>4, <3>5, <3>6
    <3> QED  BY <3>1, <3>7 DEF x, old
  <2>11. SumFunctionOnSet(sum, Objects) <= billed'
    <3>1. SumFunctionOnSet(both, Objects) <= billed  BY DEF Charged, both
    <3>2. SumFunctionOnSet(both, Objects) \in Nat
      <4>1. \A o \in Objects : both[o] \in Nat  BY <2>5 DEF both
      <4> QED  BY <1>f, <4>1, SumType
    <3> QED  BY <1>m, <1>t, <2>1, <2>7, <3>1, <3>2
  <2>12. reader'.In <= SumFunctionOnSet(ci, seen)
    <3>1. reader.In <= SumFunctionOnSet(cin, seen)  BY DEF Charged
    <3>2. SumFunctionOnSet(cin, seen) \in Nat /\ SumFunctionOnSet(ci, seen) \in Nat
      BY <1>f, <1>t, <2>5, SumType
    <3> QED  BY <1>t, <2>1, <2>8, <3>1, <3>2
  <2>13. Charged(ci, co, seen)'
    <3>1. \A i \in reader.next .. reader.slice.len :
             arrays[reader.slice.arr][reader.slice.off + i] \notin seen
      BY DEF Charged
    <3>2. [o \in Objects' |-> ci[o] + co[o]] = sum  BY <2>9 DEF sum
    <3>3. ci \in [Objects' -> Nat] /\ co \in [Objects' -> Nat] /\ seen \subseteq Objects'
      BY <1>t, <2>4, <2>9
    <3>4. \A o \in Objects' : heap'[o].In <= ci[o] /\ heap'[o].Out <= co[o]
      BY <2>9
    <3>5. SumFunctionOnSet([o \in Objects' |-> ci[o] + co[o]], Objects') <= billed'
      BY <2>9, <2>11, <3>2
    <3>6. \A i \in reader'.next .. reader'.slice.len :
             arrays'[reader'.slice.arr][reader'.slice.off + i] \notin seen
      BY <2>1, <3>1
    <3> QED  BY ONLY <2>10, <2>12, <3>3, <3>4, <3>5, <3>6 DEF Charged
  <2> QED  BY <2>13 DEF Balanced
<1>5. ASSUME NEW w \in Writers, StoreAppend(w) PROVE Balanced'
  <2>n. PICK n \in Nat, o \in Nat : n = my[w].n /\ o = Len(heap) + 1
    BY <1>m, <1>t
  <2>d. PICK D : D = Objects \cup {o}
    OBVIOUS
  <2>0. n = my[w].n /\ o = Len(heap) + 1 /\ D = Objects \cup {o}
    BY <2>n, <2>d
  <2>1. /\ pc[w] = "appendStore" /\ UNCHANGED reader
        /\ heap' = Append(heap, newItem(w))
        /\ my' = [my EXCEPT ![w] = locals] /\ pc' = [pc EXCEPT ![w] = "idle"] /\ billed' = billed + n
    BY <1>5, <2>0 DEF StoreAppend, afterAppend, return, goto, at
  <2>2. PICK cI, cO \in Nat :
                /\ cI + cO = n
                /\ my[w].dir = "In" => cI = n /\ cO = 0
                /\ my[w].dir = "Out" => cI = 0 /\ cO = n
    BY <1>n, <2>0
  <2> DEFINE ci   == [x \in D |-> IF x = o THEN cI ELSE cin[x]]
             co   == [x \in D |-> IF x = o THEN cO ELSE cout[x]]
             both == [x \in Objects |-> cin[x] + cout[x]]
             sum  == [x \in D |-> ci[x] + co[x]]
  <2>3. o \notin Objects /\ Objects' = D
        /\ heap'[o] = newItem(w) /\ \A x \in Objects : heap'[x] = heap[x]
    <3>1. newItem(w) \in Entry
      <4>1. my[w].t \in Int /\ my[w].n \in Nat /\ my[w].dir \in {"In", "Out"}
        BY <1>m, RaceAssumption DEF Locals
      <4>2. CASE my[w].dir = "In"   BY <4>1, <4>2 DEF Entry, newItem
      <4>3. CASE my[w].dir = "Out"  BY <4>1, <4>3 DEF Entry, newItem
      <4> QED  BY <4>1, <4>2, <4>3
    <3>2. heap' \in Seq(Entry) /\ Len(heap') = o /\ heap'[o] = newItem(w)
          /\ \A x \in 1 .. Len(heap) : heap'[x] = heap[x]
      BY <1>t, <2>0, <2>1, <3>1, AppendProperties
    <3>3. Objects' = 1 .. o  BY <3>2, LenProperties DEF Objects
    <3> QED  BY <1>t, <2>0, <3>2, <3>3
  <2>4. newItem(w).In = cI /\ newItem(w).Out = cO
    <3>1. CASE my[w].dir = "In"   BY <2>0, <2>2, <3>1 DEF newItem
    <3>2. CASE my[w].dir = "Out"  BY <2>0, <2>2, <3>2 DEF newItem
    <3> QED  BY <1>m, <3>1, <3>2
  <2>5. \A x \in Objects : cin[x] \in Nat /\ cout[x] \in Nat
    BY <1>t
  <2>6. /\ ci \in [D -> Nat] /\ co \in [D -> Nat] /\ ci[o] = cI /\ co[o] = cO
        /\ \A x \in Objects : ci[x] = cin[x] /\ co[x] = cout[x]
    BY <2>0, <2>2, <2>3, <2>5
  <2>7. SumFunctionOnSet(sum, D) = SumFunctionOnSet(both, Objects) + n
    <3>1. sum[o] = cI + cO /\ sum[o] \in Nat  BY <2>0, <2>2, <2>6
    <3>2. \A x \in Objects : both[x] \in Nat /\ sum[x] = both[x]  BY <2>0, <2>5, <2>6
    <3> HIDE DEF sum, both
    <3>3. SumFunctionOnSet(sum, Objects \cup {o}) = SumFunctionOnSet(both, Objects) + sum[o]
      BY ONLY <1>f, <2>3, <3>1, <3>2, SumGrown
    <3> QED  BY <2>0, <2>2, <3>1, <3>3
  <2> HIDE DEF ci, co, sum, both
  <2>8. SumFunctionOnSet(ci, seen) = SumFunctionOnSet(cin, seen)
    <3>1. \A x \in seen : cin[x] \in Nat /\ ci[x] = cin[x]  BY <1>t, <2>5, <2>6
    <3> QED  BY <1>f, <3>1, SumEqual
  <2>9. ASSUME NEW x \in D PROVE heap'[x].In <= ci[x] /\ heap'[x].Out <= co[x]
    <3>1. CASE x = o
      <4>1. heap'[x].In = cI /\ heap'[x].Out = cO /\ ci[x] = cI /\ co[x] = cO
        BY <2>3, <2>4, <2>6, <3>1
      <4> QED  BY <4>1
    <3>2. CASE x # o
      <4>1. x \in Objects  BY <2>0, <3>2
      <4>2. heap[x].In <= cin[x] /\ heap[x].Out <= cout[x]  BY <4>1 DEF Charged
      <4> QED  BY <2>3, <2>6, <4>1, <4>2
    <3> QED  BY <3>1, <3>2
  <2>10. ASSUME NEW v \in Writers, pc'[v] = "store"
         PROVE  my'[v].old <= IF my'[v].dir = "In" THEN ci[my'[v].item] ELSE co[my'[v].item]
    <3>1. v # w /\ pc[v] = "store" /\ my'[v] = my[v]
      BY <1>m, <2>1, <2>10
    <3>2. my[v].item \in Objects
      BY <1>m, <3>1 DEF Shape, Locals
    <3>3. my[v].old <= IF my[v].dir = "In" THEN cin[my[v].item] ELSE cout[my[v].item]
      BY <3>1 DEF Charged
    <3> QED  BY <2>6, <3>1, <3>2, <3>3
  <2>11. SumFunctionOnSet(sum, D) <= billed'
    <3>1. SumFunctionOnSet(both, Objects) <= billed  BY DEF Charged, both
    <3>2. SumFunctionOnSet(both, Objects) \in Nat
      <4>1. \A x \in Objects : both[x] \in Nat  BY <2>5 DEF both
      <4> QED  BY <1>f, <4>1, SumType
    <3> QED  BY <1>t, <2>1, <2>7, <3>1, <3>2
  <2>12. reader'.In <= SumFunctionOnSet(ci, seen)
    BY <2>1, <2>8 DEF Charged
  <2>13. \A i \in reader'.next .. reader'.slice.len :
             arrays'[reader'.slice.arr][reader'.slice.off + i] \notin seen
    <3>1. reader.slice \in Header /\ fits(reader.slice) /\ reader.next \in Nat \ {0}
      BY DEF RaceTypeOK
    <3>2. \A i \in 1 .. reader.slice.len :
             arrays'[reader.slice.arr][reader.slice.off + i]
                \in {arrays[reader.slice.arr][reader.slice.off + i], Len(heap) + 1}
      BY <1>5, <3>1, PlacesKept
    <3>3. Len(heap) + 1 \notin seen  BY <1>t, <2>0, <2>3
    <3>4. ASSUME NEW i \in reader.next .. reader.slice.len
          PROVE  arrays'[reader.slice.arr][reader.slice.off + i] \notin seen
      <4>1. i \in 1 .. reader.slice.len  BY <3>1 DEF Header
      <4>2. arrays[reader.slice.arr][reader.slice.off + i] \notin seen  BY DEF Charged
      <4> QED  BY <3>2, <3>3, <4>1, <4>2
    <3> QED  BY <2>1, <3>4
  <2>14. Charged(ci, co, seen)'
    <3>1. ci \in [Objects' -> Nat] /\ co \in [Objects' -> Nat] /\ seen \subseteq Objects'
      BY <1>t, <2>0, <2>3, <2>6
    <3>2. \A x \in Objects' : heap'[x].In <= ci[x] /\ heap'[x].Out <= co[x]
      BY <2>3, <2>9
    <3>3. SumFunctionOnSet([x \in Objects' |-> ci[x] + co[x]], Objects') <= billed'
      BY <2>3, <2>11 DEF sum
    <3> QED  BY ONLY <2>10, <2>12, <2>13, <3>1, <3>2, <3>3 DEF Charged
  <2> QED  BY <2>14 DEF Balanced
<1>6. ASSUME UNCHANGED <<heap, arrays, billed, pc, my>>, reader'.In = 0 PROVE Balanced'
  <2>1. Objects' = Objects  BY <1>6 DEF Objects
  <2>2. SumFunctionOnSet(cin, {}) = 0  BY SumEmpty
  <2>3. Charged(cin, cout, {})'
    BY <1>6, <2>1, <2>2 DEF Charged
  <2> QED  BY <2>3 DEF Balanced
<1>7. CASE StatsItem
  <2>0. PICK x : x = view(reader.slice)[reader.next]
    OBVIOUS
  <2>1. /\ UNCHANGED <<heap, arrays, billed, pc, my>> /\ x # nil
        /\ reader.next <= reader.slice.len
        /\ reader' = [reader EXCEPT !.next = @ + 1, !.In = @ + heap[x].In]
    BY <1>7, <2>0 DEF StatsItem, memory, histories
  <2>2. /\ reader.slice \in Header /\ fits(reader.slice) /\ reader.next \in 1 .. reader.slice.len
        /\ reader'.next = reader.next + 1 /\ reader'.slice = reader.slice
        /\ reader'.In = reader.In + heap[x].In
    BY <2>1 DEF RaceTypeOK, Header
  <2> DEFINE a   == reader.slice.arr
             off == reader.slice.off
  <2>3. /\ x = arrays[a][off + reader.next] /\ x \in Objects
        /\ off \in Nat /\ a \in DOMAIN arrays
    BY <2>0, <2>1, <2>2, ViewType DEF Header
  <2>4. \A i \in 1 .. reader.slice.len : off + i \in 1 .. Len(arrays[a])
    BY <2>2, ViewType
  <2>5. \A i \in reader.next .. reader.slice.len : arrays[a][off + i] \notin seen
    BY DEF Charged
  <2>6. reader.next \in reader.next .. reader.slice.len  BY <2>2
  <2>7. x \notin seen  BY <2>3, <2>5, <2>6
  <2>8. ASSUME NEW i \in reader.next + 1 .. reader.slice.len
        PROVE  arrays[a][off + i] \notin seen \cup {x}
    <3>1. i \in reader.next .. reader.slice.len /\ i \in 1 .. reader.slice.len /\ i # reader.next
      BY <2>2 DEF Header
    <3>2. arrays[a][off + i] \notin seen  BY <2>5, <3>1
    <3>3. off + i # off + reader.next  BY <2>2, <2>3, <3>1
    <3>4. arrays[a][off + i] # x  BY <2>1, <2>2, <2>3, <2>4, <3>1, <3>3 DEF Unique
    <3> QED  BY <3>2, <3>4
  <2>9. reader'.In <= SumFunctionOnSet(cin, seen \cup {x})
    <3>1. \A o \in seen : cin[o] \in Nat  BY <1>t
    <3>2. cin[x] \in Nat /\ heap[x].In \in Nat  BY <1>t, <2>3 DEF Entry
    <3>3. SumFunctionOnSet(cin, seen \cup {x}) = SumFunctionOnSet(cin, seen) + cin[x]
      BY ONLY <1>f, <2>7, <3>1, <3>2, SumGrown
    <3>4. SumFunctionOnSet(cin, seen) \in Nat  BY <1>f, <3>1, SumType
    <3>5. reader.In <= SumFunctionOnSet(cin, seen) /\ heap[x].In <= cin[x]
      BY <2>3 DEF Charged
    <3> QED  BY <1>t, <2>2, <3>2, <3>3, <3>4, <3>5
  <2>10. Objects' = Objects  BY <2>1 DEF Objects
  <2>11. Charged(cin, cout, seen \cup {x})'
    <3>1. \A i \in reader'.next .. reader'.slice.len :
             arrays'[reader'.slice.arr][reader'.slice.off + i] \notin seen \cup {x}
      BY <2>1, <2>2, <2>8
    <3>2. seen \cup {x} \subseteq Objects'  BY <1>t, <2>3, <2>10
    <3> QED  BY <2>1, <2>9, <2>10, <3>1, <3>2 DEF Charged
  <2> QED  BY <2>11 DEF Balanced
<1>8. CASE StatsBegin \/ StatsEnd
  BY <1>6, <1>8 DEF StatsBegin, StatsEnd, memory, histories
<1>9. CASE StatsBreak \/ RaceTick \/ UNCHANGED raceVars
  BY <1>0, <1>9 DEF StatsBreak, RaceTick, raceVars, memory, histories
<1>10. ASSUME NEW w \in Writers, Step(w) PROVE Balanced'
  BY <1>2, <1>3, <1>4, <1>5, <1>10 DEF Step
<1> QED
  BY <1>1, <1>7, <1>8, <1>9, <1>10 DEF RaceNext

\* The first array refers to each of its entries once.
LEMMA UniqueInit == RaceInit => Unique
<1> SUFFICES ASSUME RaceInit PROVE Unique
  OBVIOUS
<1>1. PICK k \in 0 .. RingSize, room \in 0 .. MaxRoom :
          arrays = <<[i \in 1 .. k + room |-> IF i <= k THEN i ELSE nil]>>
  BY DEF RaceInit
<1>2. k + room \in Nat
  BY RaceAssumption
<1>3. /\ DOMAIN arrays = {1} /\ Len(arrays[1]) = k + room
      /\ \A i \in 1 .. k + room : arrays[1][i] = IF i <= k THEN i ELSE nil
  BY <1>1, <1>2
<1> QED
  BY <1>3 DEF Unique

\* No byte is counted twice, by the entries or by the statistics, and the slice never
\* refers to an entry twice, however the calls and analyseStats interleave
\* (process.go:42-124).
THEOREM NothingIsInvented == RaceSpec => []NothingInvented
<1> DEFINE Books == RaceTypeOK /\ Shape /\ Unique /\ Balanced
<1>1. RaceInit => Books
  BY RaceTypeInit, UniqueInit, BalancedInit
<1>2. Books /\ [RaceNext]_raceVars => Books'
  BY RaceTypeStep, UniqueStep, BalancedStep
<1>3. Books => NothingInvented
  <2> SUFFICES ASSUME RaceTypeOK, Unique, NEW cin, NEW cout, NEW seen, Charged(cin, cout, seen)
               PROVE  NothingInvented
    BY DEF Balanced
  <2> DEFINE both == [o \in Objects |-> cin[o] + cout[o]]
             held == [o \in Objects |-> heap[o].In + heap[o].Out]
  <2>1. /\ heap \in Seq(Entry) /\ Len(heap) \in Nat /\ Objects = 1 .. Len(heap)
        /\ \A o \in Objects : heap[o].In \in Nat /\ heap[o].Out \in Nat
    <3>1. heap \in Seq(Entry)  BY DEF RaceTypeOK
    <3>2. Len(heap) \in Nat /\ Objects = 1 .. Len(heap)  BY <3>1, LenProperties DEF Objects
    <3>3. \A o \in Objects : heap[o] \in Entry  BY <3>1, <3>2, ElementOfSeq
    <3> QED  BY <3>1, <3>2, <3>3 DEF Entry
  <2>2. IsFiniteSet(Objects)
    BY <2>1, FS_Interval
  <2>3. \A o \in Objects : /\ cin[o] \in Nat /\ cout[o] \in Nat
                           /\ heap[o].In <= cin[o] /\ heap[o].Out <= cout[o]
    BY DEF Charged
  <2>4. \A o \in Objects : /\ both[o] \in Nat /\ held[o] \in Nat
                           /\ held[o] <= both[o] /\ cin[o] <= both[o]
    <3>1. ASSUME NEW o \in Objects
          PROVE  both[o] \in Nat /\ held[o] \in Nat /\ held[o] <= both[o] /\ cin[o] <= both[o]
      BY <2>1, <2>3
    <3> QED  BY <3>1
  <2>5. SumFunctionOnSet(both, Objects) <= billed  BY DEF Charged
  <2> HIDE DEF both, held
  <2>6. SumFunctionOnSet(both, Objects) \in Nat /\ billed \in Nat
    BY <2>2, <2>4, SumType DEF RaceTypeOK
  <2>7. bytes(Objects) <= billed
    <3>1. SumFunctionOnSet(held, Objects) <= SumFunctionOnSet(both, Objects)
      BY ONLY <2>2, <2>4, SumMonotonic
    <3>2. SumFunctionOnSet(held, Objects) \in Nat
      BY <2>2, <2>4, SumType
    <3> QED  BY <2>5, <2>6, <3>1, <3>2 DEF bytes, held
  <2>8. reader.In <= billed
    <3>1. seen \subseteq Objects /\ reader.In <= SumFunctionOnSet(cin, seen)
      BY DEF Charged
    <3>2. IsFiniteSet(seen) /\ \A o \in seen : cin[o] \in Nat /\ cin[o] <= both[o]
      BY <2>2, <2>3, <2>4, <3>1, FS_Subset
    <3>3. SumFunctionOnSet(cin, seen) <= SumFunctionOnSet(both, Objects)
      BY ONLY <2>2, <2>4, <3>1, <3>2, SumMonotonic
    <3>4. SumFunctionOnSet(cin, seen) \in Nat /\ reader.In \in Nat
      BY <3>2, SumType DEF RaceTypeOK
    <3> QED  BY <2>5, <2>6, <3>1, <3>3, <3>4
  <2>9. ASSUME NEW i \in 1 .. poRing.len, NEW j \in 1 .. poRing.len,
               view(poRing)[i] = view(poRing)[j], view(poRing)[i] # nil
        PROVE  i = j
    <3>1. poRing \in Header /\ fits(poRing)  BY DEF RaceTypeOK
    <3>2. /\ poRing.off + i \in 1 .. Len(arrays[poRing.arr])
          /\ poRing.off + j \in 1 .. Len(arrays[poRing.arr])
          /\ view(poRing)[i] = arrays[poRing.arr][poRing.off + i]
          /\ view(poRing)[j] = arrays[poRing.arr][poRing.off + j]
      BY <3>1, ViewType
    <3>3. poRing.arr \in DOMAIN arrays /\ poRing.off \in Nat /\ poRing.len \in Nat
      BY <3>1 DEF Header
    <3>4. poRing.off + i = poRing.off + j
      BY <2>9, <3>2, <3>3 DEF Unique
    <3> QED  BY <3>3, <3>4
  <2> QED  BY <2>7, <2>8, <2>9 DEF NothingInvented
<1> HIDE DEF Books
<1> QED
  BY <1>1, <1>2, <1>3, PTL DEF RaceSpec

-----------------------------------------------------------------------------
\* Two calls that overlap lose none of the bytes of a call that ran alone. (Of four
\* calls the last to append may store the length of a slice that was shorter, and
\* leave such bytes out.) The argument: as long as two calls have been overlapped at
\* most, no third runs beside them; so a call that is about to store a header can be
\* behind by what one other call has done since, a cut and an append. K is a set of
\* entries that no call has cut. Safe(K): the slice has them, in places that every
\* header to be stored still covers. Owed: the bytes of the calls that ran alone are
\* in K or in entries that were cut.

\* The calls that are overlapped are at work, and are never one alone.
Met == involved # 1 /\ \A w \in Writers : pc[w] = "idle" => ~ overlap[w]

\* No step lowers the number of overlapped calls, and a call that begins while others
\* run raises it.
LEMMA MetStep ==
    ASSUME RaceTypeOK, Met, [RaceNext]_raceVars
    PROVE  /\ Met' /\ involved \in Nat /\ involved' \in Nat /\ involved <= involved'
           /\ \A w \in Writers, dir \in {"In", "Out"}, n \in Sizes :
                Call(w, dir, n) /\ Running # {} => involved' >= involved + 1
<1> DEFINE Hit == {w \in Writers : overlap[w]}
           met == {w \in Writers : overlap'[w]}
<1>t. /\ overlap \in [Writers -> BOOLEAN] /\ overlaps \in Nat /\ pc = [w \in Writers |-> pc[w]]
      /\ involved # 1 /\ \A w \in Writers : pc[w] = "idle" => ~ overlap[w]
  BY DEF RaceTypeOK, Met
<1>f. IsFiniteSet(Hit) /\ Cardinality(Hit) \in Nat /\ IsFiniteSet(met) /\ Cardinality(met) \in Nat
  BY RaceAssumption, FS_Subset, FS_CardinalityType
<1>i. involved = overlaps + Cardinality(Hit) /\ involved' = overlaps' + Cardinality(met)
  BY DEF involved
<1> DEFINE Grown == /\ Met' /\ involved \in Nat /\ involved' \in Nat /\ involved <= involved'
<1>0. ASSUME UNCHANGED overlaps, \A w \in Writers : overlap'[w] = overlap[w],
             \A w \in Writers : pc'[w] = "idle" => pc[w] = "idle"
      PROVE  Grown
  <2>1. met = Hit  BY <1>0
  <2> HIDE DEF met, Hit
  <2>2. involved' = involved /\ involved \in Nat  BY <1>t, <1>f, <1>i, <1>0, <2>1
  <2> QED  BY <1>t, <1>0, <2>2 DEF Met
<1>1. ASSUME NEW w \in Writers, NEW dir \in {"In", "Out"}, NEW n \in Sizes, Call(w, dir, n)
      PROVE  Grown /\ (Running # {} => involved' >= involved + 1)
  <2>1. /\ UNCHANGED overlaps /\ pc[w] = "idle" /\ pc' = [pc EXCEPT ![w] = "empty"]
        /\ \A v \in Writers : overlap'[v] = (overlap[v] \/ (Running # {} /\ v \in Running \cup {w}))
    BY <1>1 DEF Call, at, goto
  <2>2. pc'[w] = "empty" /\ \A v \in Writers \ {w} : pc'[v] = pc[v]
    BY <1>t, <2>1
  <2>3. CASE Running = {}
    <3>1. \A v \in Writers : overlap'[v] = overlap[v]  BY <1>t, <2>1, <2>3
    <3> QED  BY <1>0, <2>1, <2>2, <2>3, <3>1
  <2>4. ASSUME Running # {}
        PROVE  Grown /\ involved' >= involved + 1
    <3>1. PICK r \in Running : TRUE  BY <2>4
    <3>2. w \notin Hit /\ r # w /\ r \in Writers  BY <1>t, <2>1, <3>1 DEF Running
    <3>3. Hit \cup {w} \subseteq met /\ {w, r} \subseteq met  BY <2>1, <2>4, <3>1, <3>2
    <3> HIDE DEF met, Hit
    <3>4. Cardinality(Hit \cup {w}) = Cardinality(Hit) + 1
      BY <1>f, <3>2, FS_AddElement
    <3>5. Cardinality({w, r}) = 2
      <4> DEFINE A == {w}
      <4>1. IsFiniteSet(A) /\ Cardinality(A) = 1  BY FS_Singleton
      <4>2. r \notin A /\ {w, r} = A \cup {r}  BY <3>2
      <4> HIDE DEF A
      <4>3. Cardinality(A \cup {r}) = Cardinality(A) + 1  BY ONLY <4>1, <4>2, FS_AddElement
      <4> QED  BY <4>1, <4>2, <4>3
    <3>6. Cardinality(Hit \cup {w}) <= Cardinality(met) /\ Cardinality({w, r}) <= Cardinality(met)
      BY <1>f, <3>3, FS_Subset
    <3>7. /\ Cardinality(Hit) \in Nat /\ Cardinality(met) \in Nat /\ Cardinality(met) >= 2
          /\ Cardinality(met) >= Cardinality(Hit) + 1 /\ overlaps' = overlaps
      BY <1>f, <2>1, <3>4, <3>5, <3>6
    <3>8. involved' \in Nat /\ involved \in Nat /\ involved' >= 2 /\ involved' >= involved + 1
      BY <1>t, <1>i, <3>7
    <3>9. \A v \in Writers : pc'[v] = "idle" => ~ overlap'[v]
      <4>1. ASSUME NEW v \in Writers, pc'[v] = "idle" PROVE ~ overlap'[v]
        <5>1. v # w /\ pc[v] = "idle"  BY <2>2, <4>1
        <5> QED  BY <1>t, <2>1, <5>1 DEF Running
      <4> QED  BY <4>1
    <3>10. involved <= involved' /\ involved' # 1  BY <3>8
    <3> QED  BY <3>8, <3>9, <3>10 DEF Met
  <2> QED  BY <2>3, <2>4
<1>2. ASSUME NEW w \in Writers, pc[w] # "idle", return(w) PROVE Grown
  <2>1. /\ goto(w, "idle") /\ overlap' = [overlap EXCEPT ![w] = FALSE]
    BY <1>2 DEF return
  <2>2. /\ ~ overlap'[w] /\ \A v \in Writers \ {w} : overlap'[v] = overlap[v] /\ pc'[v] = pc[v]
    BY <1>t, <2>1 DEF goto
  <2>3. met = Hit \ {w}  BY <2>2
  <2>4. w \in Hit <=> overlap[w]  OBVIOUS
  <2> HIDE DEF met, Hit
  <2>5. Cardinality(met) = IF overlap[w] THEN Cardinality(Hit) - 1 ELSE Cardinality(Hit)
    BY <1>f, <2>3, <2>4, FS_RemoveElement
  <2>6. involved' = involved /\ involved \in Nat
    <3>1. CASE overlap[w]
      <4>1. overlaps' = overlaps + 1  BY <1>2, <3>1 DEF return
      <4>2. Cardinality(met) = Cardinality(Hit) - 1  BY <2>5, <3>1
      <4> QED  BY <1>t, <1>f, <1>i, <4>1, <4>2
    <3>2. CASE ~ overlap[w]
      <4>1. overlaps' = overlaps  BY <1>2, <3>2 DEF return
      <4>2. Cardinality(met) = Cardinality(Hit)  BY <2>5, <3>2
      <4> QED  BY <1>t, <1>f, <1>i, <4>1, <4>2
    <3> QED  BY <3>1, <3>2
  <2>7. \A v \in Writers : pc'[v] = "idle" => ~ overlap'[v]
    BY <1>t, <2>2
  <2> QED  BY <1>t, <2>6, <2>7 DEF Met
<1>3. ASSUME NEW w \in Writers, StoreItem(w) \/ StoreAppend(w) PROVE Grown
  BY <1>2, <1>3 DEF StoreItem, StoreAppend, afterAppend, at
<1>4. ASSUME NEW w \in Writers, Step(w), ~ (StoreItem(w) \/ StoreAppend(w)) PROVE Grown
  <2>1. UNCHANGED <<overlaps, overlap>>
    BY <1>4 DEF Step, TestEmpty, TestFull, LoadSlice, StoreCut, ReadLast, LoadItem, Break, histories
  <2>2. \A v \in Writers : pc'[v] = "idle" => pc[v] = "idle"
    BY <1>t, <1>4 DEF Step, TestEmpty, TestFull, LoadSlice, StoreCut, ReadLast, LoadItem, Break, goto
  <2> QED  BY <1>0, <2>1, <2>2
<1>5. ASSUME StatsBegin \/ StatsItem \/ StatsEnd \/ StatsBreak \/ RaceTick \/ UNCHANGED raceVars
      PROVE  Grown
  <2>1. UNCHANGED <<pc, overlap, overlaps>>
    BY <1>5 DEF StatsBegin, StatsItem, StatsEnd, StatsBreak, RaceTick, raceVars, histories
  <2> QED  BY <1>0, <2>1
<1>6. Grown
  <2>1. ASSUME NEW w \in Writers, Step(w) PROVE Grown  BY <1>3, <1>4, <2>1
  <2> QED  BY <1>1, <1>5, <2>1 DEF RaceNext
<1> QED
  BY <1>1, <1>6 DEF Grown

\* While two calls have been overlapped, no third runs.
LEMMA AtMostTwo ==
    ASSUME RaceTypeOK, Alone, involved <= 2, NEW a \in Writers, NEW b \in Writers, NEW c \in Writers,
           a # b, b # c, a # c, pc[a] # "idle", pc[b] # "idle", pc[c] # "idle"
    PROVE  FALSE
<1> DEFINE Hit == {w \in Writers : overlap[w]}
<1>1. {a, b, c} \subseteq Hit
  BY DEF Alone
<1>2. IsFiniteSet(Hit) /\ Cardinality(Hit) \in Nat
  BY RaceAssumption, FS_Subset, FS_CardinalityType
<1>3. involved = overlaps + Cardinality(Hit) /\ overlaps \in Nat
  BY DEF involved, RaceTypeOK
<1> HIDE DEF Hit
<1>4. Cardinality({a, b, c}) = 3 /\ IsFiniteSet({a, b, c})
  <2>1. IsFiniteSet({a}) /\ Cardinality({a}) = 1  BY FS_Singleton
  <2>2. IsFiniteSet({a} \cup {b}) /\ Cardinality({a} \cup {b}) = 2  BY <2>1, FS_AddElement
  <2>3. PICK A : A = {a} \cup {b}  OBVIOUS
  <2>4. IsFiniteSet(A) /\ Cardinality(A) = 2 /\ c \notin A  BY <2>2, <2>3
  <2>5. IsFiniteSet(A \cup {c}) /\ Cardinality(A \cup {c}) = Cardinality(A) + 1
    BY ONLY <2>4, FS_AddElement
  <2>6. A \cup {c} = {a, b, c}  BY <2>3
  <2> QED  BY <2>4, <2>5, <2>6
<1>5. Cardinality({a, b, c}) <= Cardinality(Hit)
  BY <1>1, <1>2, FS_Subset
<1> QED
  BY <1>2, <1>3, <1>4, <1>5

\* w may still come to a cut, or has read a slice that it will store.
Early(w) == pc[w] \in {"empty", "full", "cut", "cutStore"}
Holds(w) == pc[w] \in {"cutStore", "appendStore"}

\* The slice s refers to every entry in K, to none of them after place n.
Has(s, K)       == \A o \in K : \E i \in 1 .. s.len : arrays[s.arr][s.off + i] = o
Within(s, n, K) == \A i \in 1 .. s.len : arrays[s.arr][s.off + i] \in K => i <= n

\* What two calls that overlap cannot lose: the entries in K, which calls that ran
\* alone have charged and shrink has not cut off.
Safe(K) ==
    /\ K \subseteq Objects
    /\ Has(poRing, K)
    /\ \A w \in Writers : Holds(w) => Has(my[w].slice, K) /\ Within(my[w].slice, poRing.len + 1, K)
    /\ \A w \in Writers : pc[w] = "cutStore" => Within(poRing, my[w].slice.len, K)
    /\ \A w \in Writers : pc[w] = "appendStore" => Within(poRing, my[w].slice.len + 1, K)
    /\ \A v, w \in Writers : v # w /\ Holds(v) /\ pc[w] = "appendStore"
                               => Within(my[v].slice, my[w].slice.len + 1, K)
    /\ \A v, w \in Writers : v # w /\ Early(v) /\ Holds(w) => my[w].slice = poRing
    /\ \A w \in Writers : pc[w] \in {"load", "store"} /\ ~ overlap[w]
                            => \E i \in 1 .. poRing.len : arrays[poRing.arr][poRing.off + i] = my[w].item

\* What an append within the array does to the places, and to the header.
LEMMA ExtendPlaces ==
    ASSUME RaceTypeOK, NEW s \in Header, fits(s), NEW o, extend(s, o)
    PROVE  /\ s.arr \in 1 .. Len(arrays) /\ s.off + s.len + 1 \in 1 .. Len(arrays[s.arr])
           /\ \A a \in 1 .. Len(arrays) : \A i \in 1 .. Len(arrays[a]) :
                 arrays'[a][i] = IF a = s.arr /\ i = s.off + s.len + 1
                                 THEN o ELSE arrays[a][i]
<1>1. PICK S : S = Objects \cup {nil, o}  OBVIOUS
<1>2. Objects \cup {nil} \subseteq S /\ o \in S  BY <1>1
<1>3. /\ s.arr \in 1 .. Len(arrays) /\ s.off + s.len + 1 \in 1 .. Len(arrays[s.arr])
      /\ \A a \in 1 .. Len(arrays) :
           /\ Len(arrays'[a]) = Len(arrays[a])
           /\ \A i \in 1 .. Len(arrays[a]) :
                 arrays'[a][i] = IF a = s.arr /\ i = s.off + s.len + 1
                                 THEN o ELSE arrays[a][i]
  BY ONLY RaceTypeOK, s \in Header, fits(s), extend(s, o), <1>2, ExtendEffect
<1> QED  BY ONLY <1>3

LEMMA ExtendHeader ==
    ASSUME RaceTypeOK, NEW s \in Header, fits(s), NEW o, extend(s, o)
    PROVE  /\ poRing' = [poRing EXCEPT !.len = s.len + 1]
           /\ poRing' \in Header /\ poRing'.off + poRing'.len <= Len(arrays[poRing.arr])
<1>1. PICK S : S = Objects \cup {nil, o}  OBVIOUS
<1>2. Objects \cup {nil} \subseteq S /\ o \in S  BY <1>1
<1> QED  BY ONLY RaceTypeOK, s \in Header, fits(s), extend(s, o), <1>2, ExtendEffect

\* Where an append to a slice that has the entries of K puts the new entry, none of
\* them is: whatever slice shares the array, K's places in it are kept.
LEMMA KeepsPlaces ==
    ASSUME RaceTypeOK, Unique, NEW w \in Writers, StoreAppend(w),
           NEW K, K \subseteq Objects, Has(my[w].slice, K), NEW s \in Header, fits(s),
           NEW i \in 1 .. s.len
    PROVE  /\ arrays[s.arr][s.off + i] \in K => arrays'[s.arr][s.off + i] = arrays[s.arr][s.off + i]
           /\ arrays'[s.arr][s.off + i] \in K => arrays'[s.arr][s.off + i] = arrays[s.arr][s.off + i]
<1> DEFINE o  == Len(heap) + 1
           sl == my[w].slice
           S  == Objects \cup {nil, o}
           q  == s.off + i
           p  == sl.off + sl.len + 1
<1>0. Objects \cup {nil} \subseteq S /\ o \in S
  OBVIOUS
<1>1. o \notin Objects /\ nil \notin K
  <2>1. heap \in Seq(Entry)  BY DEF RaceTypeOK
  <2> QED  BY <2>1, LenProperties DEF nil, Objects
<1>2. sl \in Header /\ fits(sl)
  BY DEF RaceTypeOK, Locals
<1>3. arrays \in Seq(Seq(Objects \cup {nil}))
  BY DEF RaceTypeOK
<1>4. s.arr \in 1 .. Len(arrays) /\ q \in 1 .. Len(arrays[s.arr])
  BY <1>3, LenProperties, ViewType DEF Header
<1>5. arrays'[s.arr][q] \in {arrays[s.arr][q], o}
  BY PlacesKept
<1>6. extend(sl, o) \/ \E room \in 0 .. MaxRoom : grow(sl, o, room)
  BY DEF StoreAppend
<1>7. \A e \in K : \E j \in 1 .. sl.len : arrays[sl.arr][sl.off + j] = e
  BY DEF Has
<1>8. \A j \in 1 .. sl.len : sl.off + j \in 1 .. Len(arrays[sl.arr]) /\ sl.off + j # p
  <2>1. \A j \in 1 .. sl.len : sl.off + j \in 1 .. Len(arrays[sl.arr])
    BY ONLY RaceTypeOK, <1>2, ViewType
  <2>2. sl.off \in Nat /\ sl.len \in Nat  BY <1>2 DEF Header
  <2> QED  BY <2>1, <2>2
<1> HIDE DEF o, sl, S, q
<1>9. CASE extend(sl, o)
  <2>1. /\ \A a \in 1 .. Len(arrays) : \A j \in 1 .. Len(arrays[a]) :
             arrays'[a][j] = IF a = sl.arr /\ j = sl.off + sl.len + 1 THEN o ELSE arrays[a][j]
        /\ sl.off + sl.len + 1 \in 1 .. Len(arrays[sl.arr])
    BY ONLY RaceTypeOK, <1>2, <1>9, ExtendPlaces
  <2> HIDE DEF p
  <2>2. arrays'[s.arr][q] = IF s.arr = sl.arr /\ q = p THEN o ELSE arrays[s.arr][q]
    BY <1>4, <2>1 DEF p
  <2>3. ASSUME s.arr = sl.arr, q = p, arrays[s.arr][q] \in K PROVE FALSE
    <3>1. PICK j \in 1 .. sl.len : arrays[sl.arr][sl.off + j] = arrays[s.arr][q]
      BY <1>7, <2>3
    <3>2. arrays[sl.arr][sl.off + j] = arrays[sl.arr][p] /\ arrays[sl.arr][p] # nil
      BY <1>1, <2>3, <3>1
    <3>3. sl.arr \in DOMAIN arrays  BY <1>2 DEF Header
    <3>4. sl.off + j = p
      <4>1. p \in 1 .. Len(arrays[sl.arr])  BY <2>1 DEF p
      <4> QED  BY <1>8, <3>2, <3>3, <4>1 DEF Unique
    <3> QED  BY <1>8, <3>4
  <2>4. o \notin K  BY <1>1
  <2> QED  BY <2>2, <2>3, <2>4 DEF q
<1>10. ASSUME NEW room \in 0 .. MaxRoom, grow(sl, o, room)
       PROVE  arrays'[s.arr] = arrays[s.arr]
  <2>1. room \in Nat  BY RaceAssumption
  <2>2. \A a \in 1 .. Len(arrays) : arrays'[a] = arrays[a]
    BY ONLY RaceTypeOK, <1>0, <1>2, <1>10, <2>1, GrowEffect
  <2> QED  BY <1>4, <2>2
<1> QED
  BY <1>6, <1>9, <1>10

\* So a slice has the entries, and has them within n, as before.
LEMMA HasKept ==
    ASSUME RaceTypeOK, Unique, NEW w \in Writers, StoreAppend(w),
           NEW K, K \subseteq Objects, Has(my[w].slice, K), NEW s \in Header, fits(s)
    PROVE  /\ Has(s, K) => \A o \in K : \E i \in 1 .. s.len : arrays'[s.arr][s.off + i] = o
           /\ \A n : Within(s, n, K) => \A i \in 1 .. s.len : arrays'[s.arr][s.off + i] \in K => i <= n
<1>1. \A i \in 1 .. s.len :
         /\ arrays[s.arr][s.off + i] \in K => arrays'[s.arr][s.off + i] = arrays[s.arr][s.off + i]
         /\ arrays'[s.arr][s.off + i] \in K => arrays'[s.arr][s.off + i] = arrays[s.arr][s.off + i]
  BY KeepsPlaces
<1>2. ASSUME Has(s, K), NEW o \in K
      PROVE  \E i \in 1 .. s.len : arrays'[s.arr][s.off + i] = o
  <2>1. PICK i \in 1 .. s.len : arrays[s.arr][s.off + i] = o  BY <1>2 DEF Has
  <2> QED  BY <1>1, <2>1
<1>3. ASSUME NEW n, Within(s, n, K), NEW i \in 1 .. s.len, arrays'[s.arr][s.off + i] \in K
      PROVE  i <= n
  BY <1>1, <1>3 DEF Within
<1> QED
  BY <1>2, <1>3

\* The slice that an append stores has the entries of K, each at the place where the
\* slice had it or where the slice that the call held had it, and the new entry when
\* the call held the slice itself.
LEMMA SliceAppended ==
    ASSUME RaceTypeOK, Unique, NEW w \in Writers, StoreAppend(w),
           NEW K, K \subseteq Objects, Has(poRing, K), Has(my[w].slice, K),
           Within(poRing, my[w].slice.len + 1, K)
    PROVE  /\ Has(poRing, K)'
           /\ \A n : Within(poRing, n, K) /\ Within(my[w].slice, n, K) => Within(poRing, n, K)'
           /\ poRing'.len = my[w].slice.len + 1
           /\ my[w].slice = poRing =>
                 \E i \in 1 .. poRing'.len : arrays'[poRing'.arr][poRing'.off + i] = Len(heap) + 1
<1> DEFINE o  == Len(heap) + 1
           sl == my[w].slice
           S  == Objects \cup {nil, o}
<1>0. Objects \cup {nil} \subseteq S /\ o \in S
  OBVIOUS
<1>1. o \notin K /\ nil \notin K
  <2>1. heap \in Seq(Entry)  BY DEF RaceTypeOK
  <2> QED  BY <2>1, LenProperties DEF nil, Objects
<1>2. sl \in Header /\ fits(sl)
  BY DEF RaceTypeOK, Locals
<1>3. poRing \in Header /\ fits(poRing) /\ poRing.len \in Nat /\ sl.len \in Nat
      /\ poRing.off \in Nat /\ sl.off \in Nat
  BY <1>2 DEF RaceTypeOK, Header
<1>4. extend(sl, o) \/ \E room \in 0 .. MaxRoom : grow(sl, o, room)
  BY DEF StoreAppend
<1>5. /\ \A e \in K : \E i \in 1 .. poRing.len : arrays'[poRing.arr][poRing.off + i] = e
      /\ \A n : Within(poRing, n, K) => \A i \in 1 .. poRing.len :
                                           arrays'[poRing.arr][poRing.off + i] \in K => i <= n
  BY <1>3, HasKept
<1> HIDE DEF o, sl, S
<1>6. CASE extend(sl, o)
  <2>1. /\ \A a \in 1 .. Len(arrays) : \A j \in 1 .. Len(arrays[a]) :
             arrays'[a][j] = IF a = sl.arr /\ j = sl.off + sl.len + 1 THEN o ELSE arrays[a][j]
        /\ sl.arr \in 1 .. Len(arrays) /\ sl.off + sl.len + 1 \in 1 .. Len(arrays[sl.arr])
        /\ poRing' = [poRing EXCEPT !.len = sl.len + 1]
        /\ poRing' \in Header /\ poRing'.off + poRing'.len <= Len(arrays[poRing.arr])
    <3>1. /\ \A a \in 1 .. Len(arrays) : \A j \in 1 .. Len(arrays[a]) :
               arrays'[a][j] = IF a = sl.arr /\ j = sl.off + sl.len + 1 THEN o ELSE arrays[a][j]
          /\ sl.arr \in 1 .. Len(arrays) /\ sl.off + sl.len + 1 \in 1 .. Len(arrays[sl.arr])
      BY ONLY RaceTypeOK, <1>2, <1>6, ExtendPlaces
    <3>2. /\ poRing' = [poRing EXCEPT !.len = sl.len + 1]
          /\ poRing' \in Header /\ poRing'.off + poRing'.len <= Len(arrays[poRing.arr])
      BY ONLY RaceTypeOK, <1>2, <1>6, ExtendHeader
    <3> QED  BY <3>1, <3>2
  <2>2. poRing'.len = sl.len + 1 /\ poRing'.arr = poRing.arr /\ poRing'.off = poRing.off
    BY <1>3, <2>1 DEF Header
  <2>3. \A i \in 1 .. poRing.len : arrays'[poRing.arr][poRing.off + i] \in K => i <= sl.len + 1
    BY <1>5 DEF sl
  <2>4. ASSUME NEW e \in K PROVE \E i \in 1 .. sl.len + 1 : arrays'[poRing.arr][poRing.off + i] = e
    <3>1. PICK i \in 1 .. poRing.len : arrays'[poRing.arr][poRing.off + i] = e  BY <1>5
    <3>2. i <= sl.len + 1  BY <2>3, <3>1
    <3>3. i \in 1 .. sl.len + 1  BY <1>3, <3>2
    <3> QED  BY <3>1, <3>3
  <2>5. Has(poRing, K)'  BY <2>2, <2>4 DEF Has

  <2>6. PICK s \in Header : s = poRing'  BY <2>1
  <2>7. s.len = sl.len + 1 /\ s.arr = poRing.arr /\ s.off = poRing.off /\ fits(s)
    BY <2>1, <2>2, <2>6 DEF fits
  <2>8. ASSUME NEW i \in 1 .. s.len, arrays'[s.arr][s.off + i] \in K
        PROVE  i \in 1 .. poRing.len /\ arrays[poRing.arr][poRing.off + i] \in K
    <3>1. arrays[s.arr][s.off + i] \in K  BY <2>7, <2>8, KeepsPlaces
    <3>2. PICK j \in 1 .. poRing.len : arrays[poRing.arr][poRing.off + j] = arrays[s.arr][s.off + i]
      BY <3>1 DEF Has
    <3>3. s.off + i \in 1 .. Len(arrays[s.arr]) /\ poRing.off + j \in 1 .. Len(arrays[poRing.arr])
      BY <1>3, <2>7, ViewType
    <3>4. s.arr \in DOMAIN arrays /\ arrays[s.arr][s.off + i] # nil  BY <1>1, <3>1 DEF Header
    <3>5. s.off + i = poRing.off + j  BY <2>7, <3>2, <3>3, <3>4 DEF Unique
    <3>6. i = j  BY <1>3, <2>7, <3>5
    <3> QED  BY <2>7, <3>1, <3>6
  <2>9. ASSUME NEW n, Within(poRing, n, K) PROVE Within(poRing, n, K)'
    <3>1. \A i \in 1 .. s.len : arrays'[s.arr][s.off + i] \in K => i <= n
      BY <2>8, <2>9 DEF Within
    <3> QED  BY <2>6, <3>1 DEF Within
  <2>10. ASSUME sl = poRing
         PROVE  \E i \in 1 .. poRing'.len : arrays'[poRing'.arr][poRing'.off + i] = o
    <3>1. arrays'[poRing.arr][poRing.off + poRing.len + 1] = o
      BY <2>1, <2>10
    <3>2. poRing.off + (poRing.len + 1) = poRing.off + poRing.len + 1  BY <1>3
    <3>3. poRing.len + 1 \in 1 .. poRing'.len  BY <1>3, <2>2, <2>10
    <3> QED  BY <2>2, <3>1, <3>2, <3>3
  <2> QED  BY <2>2, <2>5, <2>9, <2>10 DEF sl, o
<1>7. ASSUME NEW room \in 0 .. MaxRoom, grow(sl, o, room)
      PROVE  /\ Has(poRing, K)'
             /\ \A n : Within(sl, n, K) => Within(poRing, n, K)'
             /\ poRing'.len = sl.len + 1
             /\ \E i \in 1 .. poRing'.len : arrays'[poRing'.arr][poRing'.off + i] = o
  <2>1. room \in Nat  BY RaceAssumption
  <2>2. /\ \A i \in 1 .. sl.len + 1 + room :
             arrays'[Len(arrays) + 1][i] = IF i <= sl.len THEN view(sl)[i]
                                           ELSE IF i = sl.len + 1 THEN o ELSE nil
        /\ poRing' = [arr |-> Len(arrays) + 1, off |-> 0, len |-> sl.len + 1]
    BY ONLY RaceTypeOK, <1>0, <1>2, <1>7, <2>1, GrowEffect
  <2>3. poRing'.len = sl.len + 1 /\ poRing'.arr = Len(arrays) + 1 /\ poRing'.off = 0
    BY <2>2
  <2>4. ASSUME NEW i \in 1 .. sl.len
        PROVE  arrays'[Len(arrays) + 1][0 + i] = arrays[sl.arr][sl.off + i]
    <3>1. i \in 1 .. sl.len + 1 + room /\ i <= sl.len /\ 0 + i = i  BY <1>3, <2>1
    <3>2. view(sl)[i] = arrays[sl.arr][sl.off + i]  BY <1>2, ViewType
    <3> QED  BY <2>2, <3>1, <3>2
  <2>5. arrays'[Len(arrays) + 1][0 + (sl.len + 1)] = o
    <3>1. sl.len + 1 \in 1 .. sl.len + 1 + room /\ ~ (sl.len + 1 <= sl.len)
          /\ 0 + (sl.len + 1) = sl.len + 1
      BY <1>3, <2>1
    <3> QED  BY <2>2, <3>1
  <2>6. ASSUME NEW e \in K PROVE \E i \in 1 .. sl.len + 1 : arrays'[Len(arrays) + 1][0 + i] = e
    <3>1. PICK i \in 1 .. sl.len : arrays[sl.arr][sl.off + i] = e  BY DEF Has, sl
    <3>2. i \in 1 .. sl.len + 1  BY <1>3
    <3> QED  BY <2>4, <3>1, <3>2
  <2>7. ASSUME NEW n, Within(sl, n, K), NEW i \in 1 .. sl.len + 1,
               arrays'[Len(arrays) + 1][0 + i] \in K
        PROVE  i <= n
    <3>1. i \in 1 .. sl.len
      <4>1. i # sl.len + 1  BY <1>1, <2>5, <2>7
      <4> QED  BY <1>3, <4>1
    <3> QED  BY <2>4, <2>7, <3>1 DEF Within
  <2>8. Has(poRing, K)'  BY <2>3, <2>6 DEF Has
  <2>9. ASSUME NEW n, Within(sl, n, K) PROVE Within(poRing, n, K)'
    BY <2>3, <2>7, <2>9 DEF Within
  <2>10. sl.len + 1 \in 1 .. sl.len + 1  BY <1>3
  <2> QED  BY <2>3, <2>5, <2>8, <2>9, <2>10
<1> QED
  BY <1>4, <1>6, <1>7 DEF sl, o

\* Without overlapped calls there is calm.
LEMMA NoneInvolved ==
    ASSUME RaceTypeOK, involved = 0
    PROVE  Calm
<1> DEFINE Hit == {w \in Writers : overlap[w]}
<1>1. IsFiniteSet(Hit) /\ Cardinality(Hit) \in Nat /\ (Cardinality(Hit) = 0 => Hit = {})
  <2>1. IsFiniteSet(Hit)  BY RaceAssumption, FS_Subset
  <2> QED  BY <2>1, FS_CardinalityType, FS_EmptySet
<1>2. involved = overlaps + Cardinality(Hit) /\ overlaps \in Nat
  BY DEF involved, RaceTypeOK
<1>3. overlaps = 0 /\ Hit = {}
  <2> HIDE DEF Hit
  <2> QED  BY <1>1, <1>2
<1> QED
  BY <1>3 DEF Calm

\* A step that leaves the slice alone and makes no call hold one keeps Safe.
LEMMA SafeKept ==
    ASSUME NEW K, Safe(K), UNCHANGED <<poRing, arrays>>, Objects \subseteq Objects',
           \A w \in Writers : Holds(w)' => pc[w] = pc'[w] /\ my'[w].slice = my[w].slice,
           \A v, w \in Writers : v # w /\ Early(v)' /\ Holds(w)' => Early(v) \/ my[w].slice = poRing,
           \A w \in Writers : pc'[w] \in {"load", "store"} /\ ~ overlap'[w] =>
              \E i \in 1 .. poRing.len : arrays[poRing.arr][poRing.off + i] = my'[w].item
    PROVE  Safe(K)'
<1>1. \A w \in Writers : Holds(w)' => Holds(w) /\ pc[w] = pc'[w] /\ my'[w].slice = my[w].slice
  BY DEF Holds
<1>2. /\ \A s : Has(s, K) => \A o \in K : \E i \in 1 .. s.len : arrays'[s.arr][s.off + i] = o
      /\ \A s, n : Within(s, n, K) => \A i \in 1 .. s.len : arrays'[s.arr][s.off + i] \in K => i <= n
  BY DEF Has, Within
<1>3. K \subseteq Objects' /\ Has(poRing, K)'
  BY DEF Safe, Has
<1>4. ASSUME NEW w \in Writers, Holds(w)'
      PROVE  Has(my[w].slice, K)' /\ Within(my[w].slice, poRing.len + 1, K)'
  <2>1. Has(my[w].slice, K) /\ Within(my[w].slice, poRing.len + 1, K)
    BY <1>1, <1>4 DEF Safe
  <2> QED  BY <1>1, <1>2, <1>4, <2>1 DEF Has, Within
<1>5. ASSUME NEW w \in Writers, pc'[w] = "cutStore"
      PROVE  Within(poRing, my[w].slice.len, K)'
  <2>1. Holds(w)'  BY <1>5 DEF Holds
  <2>2. Within(poRing, my[w].slice.len, K)  BY <1>1, <1>5, <2>1 DEF Safe
  <2> QED  BY <1>1, <2>1, <2>2 DEF Within
<1>6. ASSUME NEW w \in Writers, pc'[w] = "appendStore"
      PROVE  Within(poRing, my[w].slice.len + 1, K)'
  <2>1. Holds(w)'  BY <1>6 DEF Holds
  <2>2. Within(poRing, my[w].slice.len + 1, K)  BY <1>1, <1>6, <2>1 DEF Safe
  <2> QED  BY <1>1, <2>1, <2>2 DEF Within
<1>7. ASSUME NEW v \in Writers, NEW w \in Writers, v # w, Holds(v)', pc'[w] = "appendStore"
      PROVE  Within(my[v].slice, my[w].slice.len + 1, K)'
  <2>1. Holds(w)'  BY <1>7 DEF Holds
  <2>2. Within(my[v].slice, my[w].slice.len + 1, K)  BY <1>1, <1>7, <2>1 DEF Safe
  <2> QED  BY <1>1, <1>7, <2>1, <2>2 DEF Within
<1>8. ASSUME NEW v \in Writers, NEW w \in Writers, v # w, Early(v)', Holds(w)'
      PROVE  my'[w].slice = poRing'
  <2>1. my[w].slice = poRing  BY <1>1, <1>8 DEF Safe
  <2> QED  BY <1>1, <1>8, <2>1
<1> QED
  BY <1>3, <1>4, <1>5, <1>6, <1>7, <1>8 DEF Safe

\* A call that reads the slice, to cut or to append to, keeps Safe.
LEMMA SafeLoad ==
    ASSUME RaceTypeOK, NEW K, Safe(K), NEW w \in Writers,
           LoadSlice(w, "cut", "cutStore") \/ LoadSlice(w, "append", "appendStore")
    PROVE  Safe(K)'
<1>1. /\ UNCHANGED <<poRing, arrays, heap, overlap>> /\ pc[w] \in {"cut", "append"}
      /\ pc' = [pc EXCEPT ![w] = IF pc[w] = "cut" THEN "cutStore" ELSE "appendStore"]
      /\ my' = [my EXCEPT ![w].slice = poRing]
  BY DEF LoadSlice, goto, at, memory, histories
<1>2. /\ pc'[w] = (IF pc[w] = "cut" THEN "cutStore" ELSE "appendStore") /\ my'[w].slice = poRing
      /\ \A v \in Writers \ {w} : pc'[v] = pc[v] /\ my'[v] = my[v]
  BY <1>1 DEF RaceTypeOK, Locals
<1>3. Objects' = Objects /\ poRing.len \in Nat
  BY <1>1 DEF Objects, RaceTypeOK, Header
<1>4. Within(poRing, poRing.len, K) /\ Within(poRing, poRing.len + 1, K)
  BY <1>3 DEF Within
<1>5. /\ \A s : Has(s, K) => \A o \in K : \E i \in 1 .. s.len : arrays'[s.arr][s.off + i] = o
      /\ \A s, n : Within(s, n, K) => \A i \in 1 .. s.len : arrays'[s.arr][s.off + i] \in K => i <= n
  BY <1>1 DEF Has, Within
<1>6. Has(poRing, K) /\ K \subseteq Objects'
  BY <1>3 DEF Safe
<1>7. ASSUME NEW v \in Writers, Holds(v)'
      PROVE  Has(my[v].slice, K)' /\ Within(my[v].slice, poRing.len + 1, K)'
  <2>1. Has(my'[v].slice, K) /\ Within(my'[v].slice, poRing.len + 1, K)
    <3>1. CASE v = w  BY <1>2, <1>4, <1>6, <3>1
    <3>2. CASE v # w
      <4>1. Holds(v)  BY <1>2, <1>7, <3>2 DEF Holds
      <4> QED  BY <1>2, <3>2, <4>1 DEF Safe
    <3> QED  BY <3>1, <3>2
  <2> QED  BY <1>1, <1>5, <2>1 DEF Has, Within
<1>8. ASSUME NEW v \in Writers, pc'[v] = "cutStore"
      PROVE  Within(poRing, my[v].slice.len, K)'
  <2>1. Within(poRing, my'[v].slice.len, K)
    <3>1. CASE v = w  BY <1>2, <1>4, <3>1
    <3>2. CASE v # w  BY <1>2, <1>8, <3>2 DEF Safe
    <3> QED  BY <3>1, <3>2
  <2> QED  BY <1>1, <2>1 DEF Within
<1>9. ASSUME NEW v \in Writers, pc'[v] = "appendStore"
      PROVE  Within(poRing, my[v].slice.len + 1, K)'
  <2>1. Within(poRing, my'[v].slice.len + 1, K)
    <3>1. CASE v = w  BY <1>2, <1>4, <3>1
    <3>2. CASE v # w  BY <1>2, <1>9, <3>2 DEF Safe
    <3> QED  BY <3>1, <3>2
  <2> QED  BY <1>1, <2>1 DEF Within
<1>10. ASSUME NEW u \in Writers, NEW v \in Writers, u # v, Holds(u)', pc'[v] = "appendStore"
       PROVE  Within(my[u].slice, my[v].slice.len + 1, K)'
  <2>1. Within(my'[u].slice, my'[v].slice.len + 1, K)
    <3>1. CASE v = w
      <4>1. Holds(u)  BY <1>2, <1>10, <3>1 DEF Holds
      <4>2. Within(my[u].slice, poRing.len + 1, K)  BY <4>1 DEF Safe
      <4> QED  BY <1>2, <1>10, <3>1, <4>2
    <3>2. CASE u = w
      <4>1. pc[v] = "appendStore"  BY <1>2, <1>10, <3>2
      <4>2. Within(poRing, my[v].slice.len + 1, K)  BY <4>1 DEF Safe
      <4> QED  BY <1>2, <1>10, <3>2, <4>2
    <3>3. CASE u # w /\ v # w
      <4>1. Holds(u) /\ pc[v] = "appendStore"  BY <1>2, <1>10, <3>3 DEF Holds
      <4>2. Within(my[u].slice, my[v].slice.len + 1, K)  BY <1>10, <4>1 DEF Safe
      <4> QED  BY <1>2, <3>3, <4>2
    <3> QED  BY <3>1, <3>2, <3>3
  <2> QED  BY <1>1, <2>1 DEF Within
<1>11. ASSUME NEW u \in Writers, NEW v \in Writers, u # v, Early(u)', Holds(v)'
       PROVE  my'[v].slice = poRing'
  <2>1. Early(u)
    <3>1. CASE u = w  BY <1>1, <1>2, <1>11, <3>1 DEF Early
    <3>2. CASE u # w  BY <1>2, <1>11, <3>2 DEF Early
    <3> QED  BY <3>1, <3>2
  <2>2. CASE v = w  BY <1>1, <1>2, <2>2
  <2>3. CASE v # w
    <3>1. Holds(v)  BY <1>2, <1>11, <2>3 DEF Holds
    <3> QED  BY <1>1, <1>2, <1>11, <2>1, <2>3, <3>1 DEF Safe
  <2> QED  BY <2>2, <2>3
<1>12. ASSUME NEW v \in Writers, pc'[v] \in {"load", "store"}, ~ overlap'[v]
       PROVE  \E i \in 1 .. poRing'.len : arrays'[poRing'.arr][poRing'.off + i] = my'[v].item
  <2>1. v # w  BY <1>2, <1>12
  <2> QED  BY <1>1, <1>2, <1>12, <2>1 DEF Safe
<1>13. Has(poRing, K)'
  BY <1>1, <1>5, <1>6 DEF Has
<1> QED
  BY <1>6, <1>7, <1>8, <1>9, <1>10, <1>11, <1>12, <1>13 DEF Safe

\* A cut costs the entry that it cuts off, and no other.
LEMMA SafeCut ==
    ASSUME RaceTypeOK, Shape, Alone, involved <= 2, NEW K, Safe(K), NEW w \in Writers, StoreCut(w),
           NEW c, c = view(my[w].slice)[1]
    PROVE  Safe(K \ {c})'
<1>s. PICK h : h = my[w].slice
  OBVIOUS
<1>j. PICK J : J = K \ {c}
  OBVIOUS
<1>1. /\ pc[w] = "cutStore" /\ UNCHANGED <<arrays, heap, overlap>>
      /\ pc' = [pc EXCEPT ![w] = "last"] /\ my' = [my EXCEPT ![w].slice = noSlice]
      /\ poRing' = cutOff(h)
  BY <1>s DEF StoreCut, goto, at
<1>2. pc'[w] = "last" /\ \A v \in Writers \ {w} : pc'[v] = pc[v] /\ my'[v] = my[v]
  BY <1>1 DEF RaceTypeOK
<1>3. h \in Header /\ fits(h) /\ h.len \in Nat /\ h.off \in Nat /\ h.len > 0
  BY <1>s, <1>1 DEF RaceTypeOK, Locals, Header, Shape
<1>4. poRing' = [arr |-> h.arr, off |-> h.off + 1, len |-> h.len - 1]
  BY <1>1, <1>3 DEF cutOff, Header
<1>5. \A i \in 1 .. h.len - 1 :
         i + 1 \in 1 .. h.len /\ arrays'[poRing'.arr][poRing'.off + i] = arrays[h.arr][h.off + (i + 1)]
  <2>1. ASSUME NEW i \in 1 .. h.len - 1
        PROVE  i + 1 \in 1 .. h.len /\ poRing'.off + i = h.off + (i + 1)
    BY <1>3, <1>4
  <2> QED  BY <1>1, <1>4, <2>1
<1>6. /\ K \subseteq Objects /\ Has(h, K) /\ Within(h, poRing.len + 1, K) /\ Within(poRing, h.len, K)
      /\ \A v \in Writers \ {w} : Holds(v) => my[v].slice = poRing /\ Has(my[v].slice, K)
  <2>1. Holds(w) /\ Early(w)  BY <1>1 DEF Holds, Early
  <2> QED  BY <1>s, <1>1, <2>1 DEF Safe
<1>7. c = arrays[h.arr][h.off + 1]
  <2>1. 1 \in 1 .. h.len  BY <1>3
  <2> QED  BY <1>s, <1>3, <2>1, ViewType
<1>8. J \subseteq Objects' /\ J \subseteq K /\ c \notin J
  <2>1. Objects' = Objects  BY <1>1 DEF Objects
  <2> QED  BY <1>j, <1>6, <2>1
<1>9. Has(poRing, J)'
  <2>1. ASSUME NEW e \in J PROVE \E i \in 1 .. h.len - 1 : arrays'[poRing'.arr][poRing'.off + i] = e
    <3>1. PICK i \in 1 .. h.len : arrays[h.arr][h.off + i] = e  BY <1>6, <1>8 DEF Has
    <3>2. i # 1  BY <1>7, <1>8, <3>1
    <3>3. i - 1 \in 1 .. h.len - 1 /\ (i - 1) + 1 = i  BY <1>3, <3>2
    <3> QED  BY <1>5, <3>1, <3>3
  <2>2. poRing'.len = h.len - 1  BY <1>4
  <2> QED  BY <2>1, <2>2 DEF Has
<1>10. ASSUME NEW n \in Nat, Within(h, n + 1, K) PROVE Within(poRing, n, J)'
  <2>1. ASSUME NEW i \in 1 .. h.len - 1, arrays'[poRing'.arr][poRing'.off + i] \in J
        PROVE  i <= n
    <3>1. i + 1 <= n + 1  BY <1>5, <1>8, <1>10, <2>1 DEF Within
    <3> QED  BY <3>1
  <2>2. poRing'.len = h.len - 1  BY <1>4
  <2> QED  BY <2>1, <2>2 DEF Within
<1>11. ASSUME NEW v \in Writers, Holds(v)'
       PROVE  /\ v # w /\ Holds(v) /\ my'[v] = my[v] /\ pc'[v] = pc[v]
              /\ my[v].slice = poRing /\ Has(my[v].slice, K)
  <2>1. v # w  BY <1>2, <1>11 DEF Holds
  <2>2. Holds(v)  BY <1>2, <1>11, <2>1 DEF Holds
  <2> QED  BY <1>2, <1>6, <2>1, <2>2
<1>12. ASSUME NEW v \in Writers, Holds(v)'
       PROVE  Has(my[v].slice, J)' /\ Within(my[v].slice, poRing.len + 1, J)'
  <2>1. Within(my[v].slice, h.len, K) /\ Has(my[v].slice, K)  BY <1>6, <1>11, <1>12
  <2>2. poRing'.len + 1 = h.len  BY <1>3, <1>4
  <2>3. my'[v].slice = my[v].slice  BY <1>11, <1>12
  <2> QED  BY <1>1, <1>8, <2>1, <2>2, <2>3 DEF Has, Within
<1>13. poRing.len \in Nat
  BY DEF RaceTypeOK, Header
<1>14. ASSUME NEW v \in Writers, pc'[v] = "cutStore"
       PROVE  Within(poRing, my[v].slice.len, J)'
  <2>1. Holds(v)' /\ v # w  BY <1>2, <1>14 DEF Holds
  <2>2. my[v].slice = poRing /\ my'[v].slice = my[v].slice /\ pc[v] = "cutStore"
    BY <1>11, <1>14, <2>1
  <2>3. h = poRing
    <3>1. Early(v) /\ Holds(w)  BY <1>1, <2>2 DEF Early, Holds
    <3> QED  BY <1>s, <2>1, <3>1 DEF Safe
  <2>4. \A i \in 1 .. poRing'.len : i <= my'[v].slice.len
    BY <1>3, <1>4, <2>2, <2>3
  <2> QED  BY <2>4 DEF Within
<1>15. ASSUME NEW v \in Writers, pc'[v] = "appendStore"
       PROVE  Within(poRing, my[v].slice.len + 1, J)'
  <2>1. Holds(v)' /\ v # w  BY <1>2, <1>15 DEF Holds
  <2>2. my[v].slice = poRing /\ my'[v].slice = my[v].slice  BY <1>11, <2>1
  <2>3. PICK n \in Nat : n = poRing.len + 1  BY <1>13
  <2>4. Within(h, n + 1, K)
    <3>1. Within(h, n, K)  BY <1>6, <2>3
    <3> QED  BY <3>1 DEF Within
  <2>5. Within(poRing, n, J)'  BY <1>10, <2>4
  <2>6. my'[v].slice.len + 1 = n  BY <2>2, <2>3
  <2> QED  BY <2>5, <2>6 DEF Within
<1>16. ASSUME NEW u \in Writers, NEW v \in Writers, u # v, Holds(u)' \/ Early(u)', Holds(v)'
       PROVE  FALSE
  <2>1. u # w /\ pc[u] # "idle"  BY <1>2, <1>16 DEF Holds, Early
  <2>2. v # w /\ pc[v] # "idle"  BY <1>2, <1>16 DEF Holds
  <2> QED  BY <1>1, <1>16, <2>1, <2>2, AtMostTwo
<1>17. \A v \in Writers : pc'[v] = "appendStore" => Holds(v)'
  BY DEF Holds
<1>18. ASSUME NEW v \in Writers, pc'[v] \in {"load", "store"}, ~ overlap'[v]
       PROVE  FALSE
  <2>1. v # w /\ pc[v] # "idle" /\ ~ overlap[v]  BY <1>1, <1>2, <1>18
  <2> QED  BY <1>1, <2>1 DEF Alone
<1>19. Safe(J)'
  BY <1>8, <1>9, <1>12, <1>14, <1>15, <1>16, <1>17, <1>18 DEF Safe
<1> QED
  BY <1>j, <1>19

\* An append keeps Safe, and one that runs alone adds its entry to K.
LEMMA SafeAppend ==
    ASSUME RaceTypeOK, Unique, Alone, involved <= 2, NEW K, Safe(K), NEW w \in Writers, StoreAppend(w),
           NEW o, o = Len(heap) + 1
    PROVE  Safe(K)' /\ (~ overlap[w] => Safe(K \cup {o})')
<1>s. PICK h : h = my[w].slice
  OBVIOUS
<1>1. /\ pc[w] = "appendStore" /\ heap' = Append(heap, newItem(w))
      /\ pc' = [pc EXCEPT ![w] = "idle"] /\ my' = [my EXCEPT ![w] = locals]
      /\ overlap' = [overlap EXCEPT ![w] = FALSE]
  BY DEF StoreAppend, afterAppend, return, goto, at
<1>2. pc'[w] = "idle" /\ \A v \in Writers \ {w} : pc'[v] = pc[v] /\ my'[v] = my[v] /\ overlap'[v] = overlap[v]
  BY <1>1 DEF RaceTypeOK
<1>3. h \in Header /\ fits(h) /\ h.len \in Nat /\ poRing.len \in Nat /\ \A v \in Writers : my[v].slice.len \in Nat
  BY <1>s DEF RaceTypeOK, Locals, Header
<1>4. Objects \subseteq Objects' /\ Len(heap) + 1 \in Objects'
  <2>1. heap \in Seq(Entry)  BY DEF RaceTypeOK
  <2>2. DOMAIN heap = 1 .. Len(heap) /\ DOMAIN heap' = 1 .. Len(heap) + 1 /\ Len(heap) \in Nat
    BY <1>1, <2>1, LenProperties
  <2> QED  BY <2>2 DEF Objects
<1>5. K \subseteq Objects /\ Has(poRing, K) /\ Has(h, K) /\ Within(poRing, h.len + 1, K)
  <2>1. Holds(w)  BY <1>1 DEF Holds
  <2> QED  BY <1>s, <1>1, <2>1 DEF Safe
<1>6. /\ Has(poRing, K)'
      /\ \A n : Within(poRing, n, K) /\ Within(h, n, K) => Within(poRing, n, K)'
      /\ poRing'.len = h.len + 1
      /\ h = poRing =>
            \E i \in 1 .. poRing'.len : arrays'[poRing'.arr][poRing'.off + i] = Len(heap) + 1
  BY <1>s, <1>5, SliceAppended
<1>7. ASSUME NEW v \in Writers, Holds(v)'
      PROVE  v # w /\ Holds(v) /\ my'[v] = my[v] /\ pc'[v] = pc[v]
  <2>1. v # w  BY <1>2, <1>7 DEF Holds
  <2> QED  BY <1>2, <1>7, <2>1 DEF Holds
<1>8. ASSUME NEW v \in Writers, Holds(v)'
      PROVE  Has(my[v].slice, K)' /\ Within(my[v].slice, poRing.len + 1, K)'
  <2>s. PICK s \in Header : s = my[v].slice /\ fits(s)
    BY DEF RaceTypeOK, Locals
  <2>1. Has(s, K) /\ Within(s, h.len + 1, K)
    BY <1>s, <1>1, <1>7, <1>8, <2>s DEF Safe
  <2>2. /\ \A e \in K : \E i \in 1 .. s.len : arrays'[s.arr][s.off + i] = e
        /\ \A i \in 1 .. s.len : arrays'[s.arr][s.off + i] \in K => i <= h.len + 1
    <3>1. Has(my[w].slice, K) /\ K \subseteq Objects /\ w \in Writers /\ s \in Header /\ fits(s)
      BY <1>s, <1>5, <2>s
    <3>2. /\ Has(s, K) => \A e \in K : \E i \in 1 .. s.len : arrays'[s.arr][s.off + i] = e
          /\ \A n : Within(s, n, K) => \A i \in 1 .. s.len : arrays'[s.arr][s.off + i] \in K => i <= n
      BY ONLY RaceTypeOK, Unique, StoreAppend(w), <3>1, HasKept
    <3> QED  BY <2>1, <3>2
  <2>3. my'[v].slice = s /\ poRing'.len + 1 = h.len + 2  BY <1>3, <1>6, <1>7, <1>8, <2>s
  <2>4. \A i \in 1 .. s.len : i <= h.len + 1 => i <= h.len + 2  BY <1>3
  <2> QED  BY <2>2, <2>3, <2>4 DEF Has, Within
<1>9. ASSUME NEW v \in Writers, pc'[v] = "cutStore"
      PROVE  Within(poRing, my[v].slice.len, K)'
  <2>1. Holds(v)'  BY <1>9 DEF Holds
  <2>2. pc[v] = "cutStore" /\ v # w /\ my'[v] = my[v]  BY <1>7, <1>9, <2>1
  <2>3. h = poRing
    <3>1. Early(v) /\ Holds(w)  BY <1>1, <2>2 DEF Early, Holds
    <3> QED  BY <1>s, <2>2, <3>1 DEF Safe
  <2>4. PICK n : n = my[v].slice.len  OBVIOUS
  <2>5. Within(poRing, n, K)  BY <2>2, <2>4 DEF Safe
  <2>6. Within(poRing, n, K)'  BY <1>6, <2>3, <2>5
  <2> QED  BY <2>2, <2>4, <2>6 DEF Within
<1>10. ASSUME NEW v \in Writers, pc'[v] = "appendStore"
       PROVE  Within(poRing, my[v].slice.len + 1, K)'
  <2>1. Holds(v)'  BY <1>10 DEF Holds
  <2>2. pc[v] = "appendStore" /\ v # w /\ my'[v] = my[v] /\ Holds(w)
    BY <1>1, <1>7, <1>10, <2>1 DEF Holds
  <2>3. PICK n : n = my[v].slice.len + 1  OBVIOUS
  <2>4. Within(poRing, n, K) /\ Within(h, n, K)  BY <1>s, <2>2, <2>3 DEF Safe
  <2>5. Within(poRing, n, K)'  BY <1>6, <2>4
  <2> QED  BY <2>2, <2>3, <2>5 DEF Within
<1>11. ASSUME NEW u \in Writers, NEW v \in Writers, u # v, Holds(u)' \/ Early(u)', Holds(v)'
       PROVE  FALSE
  <2>1. u # w /\ pc[u] # "idle"  BY <1>2, <1>11 DEF Holds, Early
  <2>2. v # w /\ pc[v] # "idle"  BY <1>2, <1>11 DEF Holds
  <2> QED  BY <1>1, <1>11, <2>1, <2>2, AtMostTwo
<1>12. \A v \in Writers : pc'[v] = "appendStore" => Holds(v)'
  BY DEF Holds
<1>13. ASSUME NEW v \in Writers, pc'[v] \in {"load", "store"}, ~ overlap'[v]
       PROVE  FALSE
  <2>1. v # w /\ pc[v] # "idle" /\ ~ overlap[v]  BY <1>2, <1>13
  <2> QED  BY <1>1, <2>1 DEF Alone
<1>14. K \subseteq Objects'
  BY <1>4, <1>5
<1>15. Safe(K)'
  BY <1>6, <1>8, <1>9, <1>10, <1>11, <1>12, <1>13, <1>14 DEF Safe
<1>16. ASSUME ~ overlap[w] PROVE Safe(K \cup {o})'
  <2>j. PICK J : J = K \cup {o}  OBVIOUS
  <2>1. h = poRing /\ \A v \in Writers : v # w => pc[v] = "idle"
    BY <1>s, <1>1, <1>16 DEF Alone
  <2>2. \A v \in Writers : pc'[v] = "idle"  BY <1>2, <2>1
  <2>3. J \subseteq Objects'  BY <1>4, <1>14, <2>j
  <2>4. Has(poRing, J)'  BY <1>6, <2>1, <2>j DEF Has
  <2>5. Safe(J)'  BY <2>2, <2>3, <2>4 DEF Safe, Holds
  <2> QED  BY <2>j, <2>5
<1> QED
  BY <1>15, <1>16

\* The lower books: sin[o] and sout[o] are what calls that ran alone charged to entry
\* o; no entry and no value that is about to be written has less.
Owed(sin, sout, K) ==
    /\ sin \in [Objects -> Nat] /\ sout \in [Objects -> Nat]
    /\ \A o \in Objects : sin[o] <= heap[o].In /\ sout[o] <= heap[o].Out
    /\ \A w \in Writers : pc[w] = "store" =>
          (IF my[w].dir = "In" THEN sin[my[w].item] ELSE sout[my[w].item]) <= my[w].old
    /\ SumFunctionOnSet([o \in Objects |-> sin[o] + sout[o]], Objects) >= solo
    /\ \A o \in Objects \ (K \cup evicted) : sin[o] = 0 /\ sout[o] = 0

\* Until a third call is overlapped there are such entries and such books.
Kept == involved <= 2 => \E K, sin, sout : Safe(K) /\ Owed(sin, sout, K)

\* At the start every entry is in the slice.
LEMMA KeptInit == RaceInit => Kept
<1> SUFFICES ASSUME RaceInit PROVE Kept
  OBVIOUS
<1>1. PICK k \in 0 .. RingSize, room \in 0 .. MaxRoom :
          /\ poRing = [arr |-> 1, off |-> 0, len |-> k]
          /\ arrays = <<[i \in 1 .. k + room |-> IF i <= k THEN i ELSE nil]>>
          /\ heap = [i \in 1 .. k |-> [Timestamp |-> i - k - 1, In |-> 1, Out |-> 0]]
          /\ solo = k
  BY DEF RaceInit
<1>2. k \in Nat /\ room \in Nat /\ Objects = 1 .. k
  BY <1>1, RaceAssumption DEF Objects
<1> DEFINE sin  == [o \in Objects |-> 1]
           sout == [o \in Objects |-> 0]
           both == [o \in Objects |-> sin[o] + sout[o]]
<1>3. sin \in [Objects -> Nat] /\ sout \in [Objects -> Nat]
  OBVIOUS
<1>4. \A o \in Objects : sin[o] <= heap[o].In /\ sout[o] <= heap[o].Out
  BY <1>1, <1>2
<1>5. SumFunctionOnSet(both, Objects) >= solo
  <2>1. \A o \in Objects : both[o] = 1  OBVIOUS
  <2>2. IsFiniteSet(Objects) /\ Cardinality(Objects) = k  BY <1>2, FS_Interval
  <2> HIDE DEF both
  <2>3. SumFunctionOnSet(both, Objects) = k  BY <2>1, <2>2, SumOnes
  <2> QED  BY <1>1, <1>2, <2>3
<1>6. \A w \in Writers : pc[w] = "idle"
  BY DEF RaceInit
<1>7. Has(poRing, Objects)
  <2>1. ASSUME NEW o \in Objects PROVE \E i \in 1 .. poRing.len : arrays[poRing.arr][poRing.off + i] = o
    <3>1. o \in 1 .. k /\ o \in 1 .. k + room /\ 0 + o = o  BY <1>2
    <3>2. arrays[1][o] = o  BY <1>1, <3>1
    <3> QED  BY <1>1, <3>1, <3>2
  <2> QED  BY <2>1 DEF Has
<1>8. Safe(Objects)
  BY <1>6, <1>7 DEF Safe, Holds
<1>9. Owed(sin, sout, Objects)
  <2> HIDE DEF sin, sout
  <2> QED  BY <1>3, <1>4, <1>5, <1>6 DEF Owed
<1> QED
  BY <1>8, <1>9 DEF Kept

\* A call that begins finds a call that runs alone, if it finds one, with the slice in
\* its hand.
LEMMA SafeCall ==
    ASSUME RaceTypeOK, Alone, Met, involved' <= 2, NEW K, Safe(K),
           NEW w \in Writers, NEW dir \in {"In", "Out"}, NEW n \in Sizes, Call(w, dir, n)
    PROVE  Safe(K)'
<1>1. /\ UNCHANGED <<poRing, arrays, heap>> /\ pc[w] = "idle" /\ pc' = [pc EXCEPT ![w] = "empty"]
      /\ \A v \in Writers : overlap'[v] = (overlap[v] \/ (Running # {} /\ v \in Running \cup {w}))
      /\ \A v \in Writers \ {w} : my'[v] = my[v]
  <2>1. my \in [Writers -> Locals]  BY DEF RaceTypeOK
  <2> QED  BY <2>1 DEF Call, at, goto, memory
<1>2. pc'[w] = "empty" /\ \A v \in Writers \ {w} : pc'[v] = pc[v]
  BY <1>1 DEF RaceTypeOK
<1>3. \A v \in Writers : Holds(v)' => v # w /\ pc[v] = pc'[v] /\ my'[v] = my[v]
  BY <1>1, <1>2 DEF Holds
<1>4. ASSUME NEW v \in Writers, Holds(v)' PROVE my[v].slice = poRing
  <2>1. v # w /\ pc[v] \in {"cutStore", "appendStore"}  BY <1>3, <1>4 DEF Holds
  <2>2. Running # {}  BY <2>1 DEF Running
  <2>3. involved \in Nat /\ involved' \in Nat /\ involved' >= involved + 1
    <3>1. [RaceNext]_raceVars  BY DEF RaceNext
    <3> QED  BY <2>2, <3>1, MetStep
  <2>4. involved = 0  BY <2>3 DEF Met
  <2>5. ~ overlap[v]  BY <2>4, NoneInvolved DEF Calm
  <2> QED  BY <2>1, <2>5 DEF Alone
<1>5. \A v \in Writers : pc'[v] \in {"load", "store"} /\ ~ overlap'[v] =>
              \E i \in 1 .. poRing.len : arrays[poRing.arr][poRing.off + i] = my'[v].item
  <2>1. ASSUME NEW v \in Writers, pc'[v] \in {"load", "store"}, ~ overlap'[v]
        PROVE  \E i \in 1 .. poRing.len : arrays[poRing.arr][poRing.off + i] = my'[v].item
    <3>1. v # w /\ pc[v] \in {"load", "store"} /\ ~ overlap[v] /\ my'[v] = my[v]
      BY <1>1, <1>2, <2>1
    <3> QED  BY <3>1 DEF Safe
  <2> QED  BY <2>1
<1>6. Objects \subseteq Objects'
  BY <1>1 DEF Objects
<1> QED
  BY <1>1, <1>3, <1>4, <1>5, <1>6, SafeKept

\* The lower books balance under every step.
LEMMA KeptStep ==
    RaceTypeOK /\ Shape /\ Alone /\ Unique /\ Met /\ Kept /\ [RaceNext]_raceVars => Kept'
<1> SUFFICES ASSUME RaceTypeOK, Shape, Alone, Unique, Met, Kept, [RaceNext]_raceVars, involved' <= 2
             PROVE  (\E K, sin, sout : Safe(K) /\ Owed(sin, sout, K))'
  BY DEF Kept
<1>0. involved \in Nat /\ involved' \in Nat /\ involved <= involved'
  BY MetStep
<1>2. involved <= 2
  BY <1>0
<1>k. PICK K, sin, sout : Safe(K) /\ Owed(sin, sout, K)
  BY <1>2 DEF Kept
<1> DEFINE Goal == \E J, ti, to : Safe(J)' /\ Owed(ti, to, J)'
<1>g. SUFFICES Goal
  OBVIOUS
<1> HIDE DEF Goal
<1>t. /\ sin \in [Objects -> Nat] /\ sout \in [Objects -> Nat] /\ solo \in Nat
      /\ heap \in Seq(Entry) /\ Len(heap) \in Nat /\ Objects = 1 .. Len(heap)
      /\ \A o \in Objects : heap[o] \in Entry
      /\ IsFiniteSet(Objects) /\ K \subseteq Objects
  <2>1. heap \in Seq(Entry)  BY DEF RaceTypeOK
  <2>2. Len(heap) \in Nat /\ Objects = 1 .. Len(heap)  BY <2>1, LenProperties DEF Objects
  <2>3. \A o \in Objects : heap[o] \in Entry  BY <2>1, <2>2, ElementOfSeq
  <2>4. IsFiniteSet(Objects)  BY <2>2, FS_Interval
  <2> QED  BY <1>k, <2>1, <2>2, <2>3, <2>4 DEF Owed, Safe, RaceTypeOK
<1>m. my \in [Writers -> Locals] /\ pc = [w \in Writers |-> pc[w]] /\ overlap \in [Writers -> BOOLEAN]
      /\ \A w \in Writers : my[w].n \in Nat /\ my[w].dir \in {"In", "Out"}
  BY DEF RaceTypeOK, Locals
<1>o. /\ \A o \in Objects : sin[o] \in Nat /\ sout[o] \in Nat /\ sin[o] <= heap[o].In /\ sout[o] <= heap[o].Out
      /\ \A w \in Writers : pc[w] = "store" =>
            (IF my[w].dir = "In" THEN sin[my[w].item] ELSE sout[my[w].item]) <= my[w].old
      /\ SumFunctionOnSet([o \in Objects |-> sin[o] + sout[o]], Objects) >= solo
      /\ \A o \in Objects \ (K \cup evicted) : sin[o] = 0 /\ sout[o] = 0
  <2>1. \A o \in Objects : sin[o] \in Nat /\ sout[o] \in Nat  BY <1>t
  <2> QED  BY <1>k, <2>1 DEF Owed
<1>3. ASSUME UNCHANGED <<heap, evicted, solo>>, Safe(K)',
             \A v \in Writers : pc'[v] = "store" => pc[v] = "store" /\ my'[v] = my[v]
      PROVE  Goal
  <2>1. Objects' = Objects  BY <1>3 DEF Objects
  <2>2. Owed(sin, sout, K)'
    BY <1>t, <1>o, <1>3, <2>1 DEF Owed
  <2> QED  BY <1>3, <2>2 DEF Goal
<1>4. ASSUME NEW w \in Writers, NEW dir \in {"In", "Out"}, NEW n \in Sizes, Call(w, dir, n)
      PROVE  Goal
  <2>1. Safe(K)'  BY <1>k, <1>4, SafeCall
  <2>2. UNCHANGED <<heap, evicted, solo>>  BY <1>4 DEF Call, memory
  <2>3. \A v \in Writers : pc'[v] = "store" => pc[v] = "store" /\ my'[v] = my[v]
    BY <1>m, <1>4 DEF Call, goto
  <2> QED  BY <1>3, <2>1, <2>2, <2>3
<1>5. ASSUME NEW w \in Writers,
             LoadSlice(w, "cut", "cutStore") \/ LoadSlice(w, "append", "appendStore")
      PROVE  Goal
  <2>1. Safe(K)'  BY <1>k, <1>5, SafeLoad
  <2>2. UNCHANGED <<heap, evicted, solo>>  BY <1>5 DEF LoadSlice, memory, histories
  <2>3. \A v \in Writers : pc'[v] = "store" => pc[v] = "store" /\ my'[v] = my[v]
    BY <1>m, <1>5 DEF LoadSlice, goto
  <2> QED  BY <1>3, <2>1, <2>2, <2>3
<1>6. ASSUME NEW w \in Writers, TestEmpty(w) \/ TestFull(w) \/ ReadLast(w) \/ Break(w)
      PROVE  Goal
  <2>1. UNCHANGED <<poRing, arrays, heap, evicted, solo, overlap>>
    BY <1>6 DEF TestEmpty, TestFull, ReadLast, Break, memory, histories
  <2>2. \A v \in Writers : pc'[v] = "store" => pc[v] = "store" /\ my'[v] = my[v]
    BY <1>m, <1>6 DEF TestEmpty, TestFull, ReadLast, Break, goto
  <2>3. \A v \in Writers : Holds(v)' => pc[v] = pc'[v] /\ my'[v].slice = my[v].slice
    BY <1>m, <1>6 DEF Holds, TestEmpty, TestFull, ReadLast, Break, goto
  <2>4. \A v \in Writers : Early(v)' => Early(v)
    <3>1. \A v \in Writers \ {w} : pc'[v] = pc[v]
      BY <1>m, <1>6 DEF TestEmpty, TestFull, ReadLast, Break, goto
    <3>2. pc'[w] = pc[w] \/ pc[w] \in {"empty", "full"} \/ pc'[w] \in {"load", "append"}
      BY <1>m, <1>6 DEF TestEmpty, TestFull, ReadLast, Break, goto, at
    <3> QED  BY <3>1, <3>2 DEF Early
  <2>5. ASSUME NEW v \in Writers, pc'[v] \in {"load", "store"}, ~ overlap'[v]
        PROVE  \E i \in 1 .. poRing.len : arrays[poRing.arr][poRing.off + i] = my'[v].item
    <3>1. CASE pc'[v] = pc[v] /\ my'[v] = my[v]
      BY <1>k, <2>1, <2>5, <3>1 DEF Safe
    <3>2. CASE ~ (pc'[v] = pc[v] /\ my'[v] = my[v])
      <4>1. ReadLast(w) /\ v = w
        BY <1>m, <1>6, <2>5, <3>2 DEF TestEmpty, TestFull, ReadLast, Break, goto
      <4>2. HasLast /\ my'[w].item = view(poRing)[poRing.len]
        BY <1>m, <2>5, <4>1 DEF ReadLast, goto, Locals
      <4>3. poRing \in Header /\ fits(poRing) /\ poRing.len \in 1 .. poRing.len
        <5>1. poRing \in Header /\ fits(poRing)  BY DEF RaceTypeOK
        <5>2. poRing.len \in Nat  BY <5>1 DEF Header
        <5> QED  BY <4>2, <5>1, <5>2 DEF HasLast
      <4>4. view(poRing)[poRing.len] = arrays[poRing.arr][poRing.off + poRing.len]
        BY <4>3, ViewType
      <4> QED  BY <4>1, <4>2, <4>3, <4>4
    <3> QED  BY <3>1, <3>2
  <2>6. Objects \subseteq Objects'  BY <2>1 DEF Objects
  <2>7. Safe(K)'  BY <1>k, <2>1, <2>3, <2>4, <2>5, <2>6, SafeKept
  <2> QED  BY <1>3, <2>1, <2>2, <2>7
<1>7. ASSUME StatsBegin \/ StatsItem \/ StatsEnd \/ StatsBreak \/ RaceTick \/ UNCHANGED raceVars
      PROVE  Goal
  <2>1. UNCHANGED <<poRing, arrays, heap, pc, my, evicted, overlap, solo>>
    BY <1>7 DEF StatsBegin, StatsItem, StatsEnd, StatsBreak, RaceTick, raceVars, memory, histories
  <2>2. Safe(K)'
    <3>1. Safe(K)  BY <1>k
    <3>2. Objects' = Objects  BY <2>1 DEF Objects
    <3>3. \A v \in Writers : Early(v)' => Early(v)  BY <2>1 DEF Early
    <3>4. \A v \in Writers : Holds(v)' => pc[v] = pc'[v] /\ my'[v].slice = my[v].slice
      BY <2>1 DEF Holds
    <3>5. ASSUME NEW v \in Writers, pc'[v] \in {"load", "store"}, ~ overlap'[v]
          PROVE  \E i \in 1 .. poRing.len : arrays[poRing.arr][poRing.off + i] = my'[v].item
      BY <2>1, <3>1, <3>5 DEF Safe
    <3> QED  BY <2>1, <3>1, <3>2, <3>3, <3>4, <3>5, SafeKept
  <2> QED  BY <1>3, <2>1, <2>2
<1>8. ASSUME NEW w \in Writers, LoadItem(w) PROVE Goal
  <2>1. /\ UNCHANGED <<poRing, arrays, heap, evicted, solo, overlap>> /\ pc[w] = "load"
        /\ my' = [my EXCEPT ![w].old = heap[my[w].item][my[w].dir]]
        /\ pc' = [pc EXCEPT ![w] = "store"]
    BY <1>8 DEF LoadItem, memory, histories, goto, at
  <2>2. my[w].item \in Objects
    BY <1>m, <2>1 DEF Shape, Locals
  <2>3. /\ my'[w].old = heap[my[w].item][my[w].dir] /\ my'[w].dir = my[w].dir
        /\ my'[w].item = my[w].item /\ pc'[w] = "store"
        /\ \A v \in Writers \ {w} : my'[v] = my[v] /\ pc'[v] = pc[v]
    BY <1>m, <2>1 DEF Locals
  <2>4. (IF my[w].dir = "In" THEN sin[my[w].item] ELSE sout[my[w].item]) <= heap[my[w].item][my[w].dir]
    <3>1. CASE my[w].dir = "In"  BY <1>o, <2>2, <3>1
    <3>2. CASE my[w].dir = "Out"  BY <1>o, <2>2, <3>2
    <3> QED  BY <1>m, <3>1, <3>2
  <2>5. \A v \in Writers : pc'[v] = "store" =>
          (IF my'[v].dir = "In" THEN sin[my'[v].item] ELSE sout[my'[v].item]) <= my'[v].old
    BY <1>o, <2>3, <2>4
  <2>6. Objects' = Objects  BY <2>1 DEF Objects
  <2>7. Safe(K)'
    <3>1. \A v \in Writers : Holds(v)' => pc[v] = pc'[v] /\ my'[v].slice = my[v].slice
      BY <2>3 DEF Holds
    <3>2. \A v \in Writers : Early(v)' => Early(v)
      BY <2>3 DEF Early
    <3>3. ASSUME NEW v \in Writers, pc'[v] \in {"load", "store"}, ~ overlap'[v]
          PROVE  \E i \in 1 .. poRing.len : arrays[poRing.arr][poRing.off + i] = my'[v].item
      <4>1. pc[v] \in {"load", "store"} /\ my'[v].item = my[v].item /\ ~ overlap[v]
        BY <2>1, <2>3, <3>3
      <4> QED  BY <1>k, <4>1 DEF Safe
    <3> QED  BY <1>k, <2>1, <2>6, <3>1, <3>2, <3>3, SafeKept
  <2>8. Owed(sin, sout, K)'
    BY <1>t, <1>o, <2>1, <2>5, <2>6 DEF Owed
  <2> QED  BY <2>7, <2>8 DEF Goal
<1>9. ASSUME NEW w \in Writers, StoreCut(w) PROVE Goal
  <2>0. PICK c : c = view(my[w].slice)[1]  OBVIOUS
  <2>1. /\ UNCHANGED <<heap, solo>> /\ evicted' = evicted \cup ({c} \ {nil})
        /\ pc' = [pc EXCEPT ![w] = "last"] /\ my' = [my EXCEPT ![w].slice = noSlice]
    BY <1>9, <2>0 DEF StoreCut, goto
  <2>2. Safe(K \ {c})'
    BY <1>k, <1>2, <1>9, <2>0, SafeCut
  <2>3. \A v \in Writers : pc'[v] = "store" => pc[v] = "store" /\ my'[v] = my[v]
    BY <1>m, <2>1
  <2>4. Objects' = Objects  BY <2>1 DEF Objects
  <2>5. \A o \in Objects \ ((K \ {c}) \cup evicted') : sin[o] = 0 /\ sout[o] = 0
    <3>1. nil \notin Objects  BY <1>t DEF nil
    <3> QED  BY <1>o, <2>1, <3>1
  <2>6. \A v \in Writers : pc'[v] = "store" =>
          (IF my'[v].dir = "In" THEN sin[my'[v].item] ELSE sout[my'[v].item]) <= my'[v].old
    BY <1>o, <2>3
  <2>7. Owed(sin, sout, K \ {c})'
    BY <1>t, <1>o, <2>1, <2>4, <2>5, <2>6 DEF Owed
  <2> QED  BY <2>2, <2>7 DEF Goal
<1>n. ASSUME NEW w \in Writers
      PROVE  \E cI, cO \in Nat :
                /\ cI + cO = IF overlap[w] THEN 0 ELSE my[w].n
                /\ my[w].dir = "In" => cI <= my[w].n /\ cO = 0
                /\ my[w].dir = "Out" => cI = 0 /\ cO <= my[w].n
                /\ overlap[w] => cI = 0 /\ cO = 0
  <2>1. CASE overlap[w]  BY <1>m, <2>1
  <2>2. CASE ~ overlap[w] /\ my[w].dir = "In"
    <3>1. my[w].n + 0 = my[w].n  BY <1>m
    <3> QED  BY <1>m, <2>2, <3>1
  <2>3. CASE ~ overlap[w] /\ my[w].dir = "Out"
    <3>1. 0 + my[w].n = my[w].n  BY <1>m
    <3> QED  BY <1>m, <2>3, <3>1
  <2> QED  BY <1>m, <2>1, <2>2, <2>3
<1>r. ASSUME NEW w \in Writers, return(w), NEW x \in Nat, x = IF overlap[w] THEN 0 ELSE my[w].n
      PROVE  solo' = solo + x
  <2>1. CASE overlap[w]  BY <1>t, <1>r, <2>1 DEF return
  <2>2. CASE ~ overlap[w]  BY <1>r, <2>2 DEF return
  <2> QED  BY <2>1, <2>2
<1>10. ASSUME NEW w \in Writers, StoreItem(w) PROVE Goal
  <2>0. PICK item \in Objects, n \in Nat : item = my[w].item /\ n = my[w].n
    <3>1. pc[w] = "store"  BY <1>10 DEF StoreItem, at
    <3>2. my[w].item \in Objects  BY <1>m, <3>1 DEF Shape, Locals
    <3> QED  BY <1>m, <3>2
  <2>1. /\ pc[w] = "store" /\ UNCHANGED <<poRing, arrays, evicted>>
        /\ heap' = [heap EXCEPT ![item][my[w].dir] = my[w].old + n]
        /\ my' = [my EXCEPT ![w] = locals] /\ pc' = [pc EXCEPT ![w] = "idle"]
        /\ overlap' = [overlap EXCEPT ![w] = FALSE]
        /\ return(w)
    BY <1>10, <2>0 DEF StoreItem, return, goto, at
  <2>2. PICK cI, cO \in Nat :
                /\ cI + cO = IF overlap[w] THEN 0 ELSE n
                /\ my[w].dir = "In" => cI <= n /\ cO = 0
                /\ my[w].dir = "Out" => cI = 0 /\ cO <= n
                /\ overlap[w] => cI = 0 /\ cO = 0
    BY <1>n, <2>0
  <2>j. PICK J : J = IF overlap[w] THEN K ELSE K \cup {item}
    OBVIOUS
  <2>3. solo' = solo + (cI + cO)
    <3>1. PICK x \in Nat : x = cI + cO  OBVIOUS
    <3> QED  BY <1>r, <2>0, <2>1, <2>2, <3>1
  <2> DEFINE ti   == [sin EXCEPT ![item] = @ + cI]
             to   == [sout EXCEPT ![item] = @ + cO]
             both == [o \in Objects |-> sin[o] + sout[o]]
             sum  == [o \in Objects |-> ti[o] + to[o]]
             e    == [heap[item] EXCEPT ![my[w].dir] = my[w].old + n]
  <2>4. /\ ti \in [Objects -> Nat] /\ to \in [Objects -> Nat]
        /\ ti[item] = sin[item] + cI /\ to[item] = sout[item] + cO
        /\ \A o \in Objects \ {item} : ti[o] = sin[o] /\ to[o] = sout[o]
    <3>1. sin[item] + cI \in Nat /\ sout[item] + cO \in Nat
      BY <1>o, <2>0, <2>2
    <3> QED  BY <1>t, <2>0, <3>1
  <2>5. SumFunctionOnSet(sum, Objects) = SumFunctionOnSet(both, Objects) + (cI + cO)
    <3>1. sum[item] = both[item] + (cI + cO)
      <4>1. sum[item] = (sin[item] + cI) + (sout[item] + cO) /\ both[item] = sin[item] + sout[item]
        BY <2>0, <2>4
      <4>2. sin[item] \in Nat /\ sout[item] \in Nat  BY <1>o, <2>0
      <4> HIDE DEF sum, both
      <4> QED  BY <4>1, <4>2
    <3>2. \A o \in Objects : both[o] \in Nat  BY <1>o
    <3>3. \A o \in Objects \ {item} : sum[o] = both[o]  BY <2>4
    <3>4. cI + cO \in Nat  OBVIOUS
    <3> HIDE DEF sum, both
    <3>5. IsFiniteSet(Objects) /\ item \in Objects  BY <1>t, <2>0
    <3> QED  BY ONLY <3>1, <3>2, <3>3, <3>4, <3>5, SumRaised
  <2>6. ti[item] <= e.In /\ to[item] <= e.Out
    <3>1. heap[item] \in Entry /\ sin[item] <= heap[item].In /\ sout[item] <= heap[item].Out
      BY <1>t, <1>o, <2>0
    <3>2. (IF my[w].dir = "In" THEN sin[item] ELSE sout[item]) <= my[w].old
      BY <1>o, <2>0, <2>1
    <3>3. my[w].old \in Nat /\ sin[item] \in Nat /\ sout[item] \in Nat
      BY <1>m, <1>o, <2>0 DEF Locals
    <3>4. CASE my[w].dir = "In"
      <4>1. e.In = my[w].old + n /\ e.Out = heap[item].Out  BY <3>1, <3>4 DEF Entry
      <4>2. sin[item] <= my[w].old /\ cI <= n /\ cO = 0  BY <2>2, <3>2, <3>4
      <4> HIDE DEF e, ti, to
      <4> QED  BY <2>4, <3>1, <3>3, <4>1, <4>2
    <3>5. CASE my[w].dir = "Out"
      <4>1. e.Out = my[w].old + n /\ e.In = heap[item].In  BY <3>1, <3>5 DEF Entry
      <4>2. sout[item] <= my[w].old /\ cO <= n /\ cI = 0  BY <2>2, <3>2, <3>5
      <4> HIDE DEF e, ti, to
      <4> QED  BY <2>4, <3>1, <3>3, <4>1, <4>2
    <3> QED  BY <1>m, <3>4, <3>5
  <2> HIDE DEF ti, to, e, sum, both
  <2>7. /\ Objects' = Objects
        /\ \A o \in Objects : ti[o] <= heap'[o].In /\ to[o] <= heap'[o].Out
    <3>1. heap' = [heap EXCEPT ![item] = e]  BY <2>1 DEF e
    <3>2. Objects' = Objects  BY <3>1 DEF Objects
    <3>3. ASSUME NEW o \in Objects
          PROVE  ti[o] <= heap'[o].In /\ to[o] <= heap'[o].Out
      <4>1. CASE o = item
        <5>1. heap'[o] = e  BY <3>1, <4>1 DEF Objects
        <5> QED  BY <2>6, <4>1, <5>1
      <4>2. CASE o # item
        <5>1. heap'[o] = heap[o]  BY <3>1, <4>2 DEF Objects
        <5> QED  BY <1>o, <2>4, <4>2, <5>1
      <4> QED  BY <4>1, <4>2
    <3> QED  BY <3>2, <3>3
  <2>8. pc'[w] = "idle" /\ \A v \in Writers \ {w} : my'[v] = my[v] /\ pc'[v] = pc[v] /\ overlap'[v] = overlap[v]
    BY <1>m, <2>1
  <2>9. ASSUME NEW v \in Writers, pc'[v] = "store"
        PROVE  (IF my'[v].dir = "In" THEN ti[my'[v].item] ELSE to[my'[v].item]) <= my'[v].old
    <3>1. v # w /\ pc[v] = "store" /\ my'[v] = my[v]
      BY <2>8, <2>9
    <3>2. overlap[w]  BY <2>1, <3>1 DEF Alone
    <3>3. my[v].item \in Objects  BY <1>m, <3>1 DEF Shape, Locals
    <3>4. ti[my[v].item] = sin[my[v].item] /\ to[my[v].item] = sout[my[v].item]
      <4>1. ti[item] = sin[item] /\ to[item] = sout[item]  BY <1>o, <2>0, <2>2, <2>4, <3>2
      <4> QED  BY <2>4, <3>3, <4>1
    <3> QED  BY <1>o, <3>1, <3>4
  <2>10. SumFunctionOnSet(sum, Objects) >= solo'
    <3>1. SumFunctionOnSet(both, Objects) >= solo  BY <1>o DEF both
    <3>2. SumFunctionOnSet(both, Objects) \in Nat
      <4>1. \A o \in Objects : both[o] \in Nat  BY <1>o DEF both
      <4> QED  BY <1>t, <4>1, SumType
    <3> QED  BY <1>t, <2>3, <2>5, <3>1, <3>2
  <2>11. \A o \in Objects \ (J \cup evicted') : ti[o] = 0 /\ to[o] = 0
    <3>1. ASSUME NEW o \in Objects \ (J \cup evicted') PROVE ti[o] = 0 /\ to[o] = 0
      <4>1. o \notin K /\ o \notin evicted  BY <2>1, <2>j, <3>1
      <4>2. sin[o] = 0 /\ sout[o] = 0  BY <1>o, <3>1, <4>1
      <4>3. CASE o # item  BY <2>4, <3>1, <4>2, <4>3
      <4>4. CASE o = item
        <5>1. overlap[w]  BY <2>j, <3>1, <4>4
        <5> QED  BY <2>2, <2>4, <4>2, <4>4, <5>1
      <4> QED  BY <4>3, <4>4
    <3> QED  BY <3>1
  <2>12. Owed(ti, to, J)'
    <3>1. [o \in Objects' |-> ti[o] + to[o]] = sum  BY <2>7 DEF sum
    <3>2. ti \in [Objects' -> Nat] /\ to \in [Objects' -> Nat]  BY <2>4, <2>7
    <3>3. \A o \in Objects' : ti[o] <= heap'[o].In /\ to[o] <= heap'[o].Out  BY <2>7
    <3>4. SumFunctionOnSet([o \in Objects' |-> ti[o] + to[o]], Objects') >= solo'
      BY <2>7, <2>10, <3>1
    <3>5. \A o \in Objects' \ (J \cup evicted') : ti[o] = 0 /\ to[o] = 0  BY <2>7, <2>11
    <3> QED  BY ONLY <2>9, <3>2, <3>3, <3>4, <3>5 DEF Owed
  <2>13. Safe(J)'
    <3>1. CASE overlap[w]
      <4>1. \A v \in Writers : Holds(v)' => pc[v] = pc'[v] /\ my'[v].slice = my[v].slice
        BY <2>8 DEF Holds
      <4>2. \A v \in Writers : Early(v)' => Early(v)
        BY <2>8 DEF Early
      <4>3. ASSUME NEW v \in Writers, pc'[v] \in {"load", "store"}, ~ overlap'[v]
            PROVE  \E i \in 1 .. poRing.len : arrays[poRing.arr][poRing.off + i] = my'[v].item
        <5>1. pc[v] \in {"load", "store"} /\ my'[v] = my[v] /\ ~ overlap[v]  BY <2>8, <4>3
        <5> QED  BY <1>k, <5>1 DEF Safe
      <4> QED  BY <1>k, <2>1, <2>7, <2>j, <3>1, <4>1, <4>2, <4>3, SafeKept
    <3>2. CASE ~ overlap[w]
      <4>1. \A v \in Writers : pc'[v] = "idle"  BY <2>1, <2>8, <3>2 DEF Alone
      <4>2. \E i \in 1 .. poRing.len : arrays[poRing.arr][poRing.off + i] = item
        BY <1>k, <2>0, <2>1, <3>2 DEF Safe
      <4>3. Has(poRing, K)  BY <1>k DEF Safe
      <4>4. Has(poRing, J)'  BY <2>1, <2>j, <3>2, <4>2, <4>3 DEF Has
      <4>5. J \subseteq Objects'  BY <1>t, <2>0, <2>7, <2>j
      <4> QED  BY <4>1, <4>4, <4>5 DEF Safe, Holds
    <3> QED  BY <3>1, <3>2
  <2> QED  BY <2>12, <2>13 DEF Goal
<1>11. ASSUME NEW w \in Writers, StoreAppend(w) PROVE Goal
  <2>n. PICK n \in Nat, o \in Nat : n = my[w].n /\ o = Len(heap) + 1
    BY <1>m, <1>t
  <2>d. PICK D : D = Objects \cup {o}
    OBVIOUS
  <2>j. PICK J : J = IF overlap[w] THEN K ELSE K \cup {o}
    OBVIOUS
  <2>1. /\ pc[w] = "appendStore" /\ UNCHANGED evicted
        /\ heap' = Append(heap, newItem(w)) /\ return(w)
        /\ my' = [my EXCEPT ![w] = locals] /\ pc' = [pc EXCEPT ![w] = "idle"]
    BY <1>11 DEF StoreAppend, afterAppend, return, goto, at
  <2>2. PICK cI, cO \in Nat :
                /\ cI + cO = IF overlap[w] THEN 0 ELSE n
                /\ my[w].dir = "In" => cI <= n /\ cO = 0
                /\ my[w].dir = "Out" => cI = 0 /\ cO <= n
                /\ overlap[w] => cI = 0 /\ cO = 0
    BY <1>n, <2>n
  <2>s. solo' = solo + (cI + cO)
    <3>1. PICK x \in Nat : x = cI + cO  OBVIOUS
    <3> QED  BY <1>r, <2>n, <2>1, <2>2, <3>1
  <2> DEFINE ti   == [x \in D |-> IF x = o THEN cI ELSE sin[x]]
             to   == [x \in D |-> IF x = o THEN cO ELSE sout[x]]
             both == [x \in Objects |-> sin[x] + sout[x]]
             sum  == [x \in D |-> ti[x] + to[x]]
  <2>3. o \notin Objects /\ Objects' = D
        /\ heap'[o] = newItem(w) /\ \A x \in Objects : heap'[x] = heap[x]
    <3>1. newItem(w) \in Entry
      <4>1. my[w].t \in Int /\ my[w].n \in Nat /\ my[w].dir \in {"In", "Out"}
        BY <1>m, RaceAssumption DEF Locals
      <4>2. CASE my[w].dir = "In"   BY <4>1, <4>2 DEF Entry, newItem
      <4>3. CASE my[w].dir = "Out"  BY <4>1, <4>3 DEF Entry, newItem
      <4> QED  BY <4>1, <4>2, <4>3
    <3>2. heap' \in Seq(Entry) /\ Len(heap') = o /\ heap'[o] = newItem(w)
          /\ \A x \in 1 .. Len(heap) : heap'[x] = heap[x]
      BY <1>t, <2>n, <2>1, <3>1, AppendProperties
    <3>3. Objects' = 1 .. o  BY <3>2, LenProperties DEF Objects
    <3> QED  BY <1>t, <2>n, <2>d, <3>2, <3>3
  <2>4. cI <= newItem(w).In /\ cO <= newItem(w).Out
    <3>1. CASE my[w].dir = "In"   BY <2>n, <2>2, <3>1 DEF newItem
    <3>2. CASE my[w].dir = "Out"  BY <2>n, <2>2, <3>2 DEF newItem
    <3> QED  BY <1>m, <3>1, <3>2
  <2>5. /\ ti \in [D -> Nat] /\ to \in [D -> Nat] /\ ti[o] = cI /\ to[o] = cO
        /\ \A x \in Objects : ti[x] = sin[x] /\ to[x] = sout[x]
    <3>1. \A x \in Objects : x \in D /\ x # o  BY <2>d, <2>3
    <3>2. \A x \in D : x # o => sin[x] \in Nat /\ sout[x] \in Nat  BY <1>o, <2>d
    <3> QED  BY <2>d, <3>1, <3>2
  <2>6. SumFunctionOnSet(sum, D) = SumFunctionOnSet(both, Objects) + (cI + cO)
    <3>1. sum[o] = cI + cO /\ sum[o] \in Nat  BY <2>d, <2>5
    <3>2. \A x \in Objects : both[x] \in Nat /\ sum[x] = both[x]  BY <1>o, <2>d, <2>5
    <3> HIDE DEF sum, both
    <3>3. SumFunctionOnSet(sum, Objects \cup {o}) = SumFunctionOnSet(both, Objects) + sum[o]
      <4>1. IsFiniteSet(Objects) /\ o \notin Objects /\ sum[o] \in Nat  BY <1>t, <2>3, <3>1
      <4> QED  BY ONLY <4>1, <3>2, SumGrown
    <3> QED  BY <2>d, <3>1, <3>3
  <2> HIDE DEF ti, to, sum, both
  <2>7. ASSUME NEW x \in D PROVE ti[x] <= heap'[x].In /\ to[x] <= heap'[x].Out
    <3>1. CASE x = o  BY <2>3, <2>4, <2>5, <3>1
    <3>2. CASE x # o
      <4>1. x \in Objects  BY <2>d, <3>2
      <4> QED  BY <1>o, <2>3, <2>5, <4>1
    <3> QED  BY <3>1, <3>2
  <2>8. ASSUME NEW v \in Writers, pc'[v] = "store"
        PROVE  (IF my'[v].dir = "In" THEN ti[my'[v].item] ELSE to[my'[v].item]) <= my'[v].old
    <3>1. v # w /\ pc[v] = "store" /\ my'[v] = my[v]
      BY <1>m, <2>1, <2>8
    <3>2. my[v].item \in Objects
      BY <1>m, <3>1 DEF Shape, Locals
    <3> QED  BY <1>o, <2>5, <3>1, <3>2
  <2>9. SumFunctionOnSet(sum, D) >= solo'
    <3>1. SumFunctionOnSet(both, Objects) >= solo  BY <1>o DEF both
    <3>2. SumFunctionOnSet(both, Objects) \in Nat
      <4>1. \A x \in Objects : both[x] \in Nat  BY <1>o DEF both
      <4> QED  BY <1>t, <4>1, SumType
    <3> QED  BY <1>t, <2>s, <2>6, <3>1, <3>2
  <2>10. \A x \in D \ (J \cup evicted') : ti[x] = 0 /\ to[x] = 0
    <3>1. ASSUME NEW x \in D, x \notin J, x \notin evicted' PROVE ti[x] = 0 /\ to[x] = 0
      <4>1. x \notin K /\ x \notin evicted  BY <2>1, <2>j, <3>1
      <4>2. CASE x # o
        <5>1. x \in Objects \ (K \cup evicted)  BY <2>d, <3>1, <4>1, <4>2
        <5> QED  BY <1>o, <2>5, <5>1
      <4>3. CASE x = o
        <5>1. overlap[w]  BY <2>j, <3>1, <4>3
        <5> QED  BY <2>2, <2>5, <4>3, <5>1
      <4> QED  BY <4>2, <4>3
    <3> QED  BY <3>1
  <2>11. Owed(ti, to, J)'
    <3>1. ti \in [Objects' -> Nat] /\ to \in [Objects' -> Nat]  BY <2>3, <2>5
    <3>2. \A x \in Objects' : ti[x] <= heap'[x].In /\ to[x] <= heap'[x].Out  BY <2>3, <2>7
    <3>3. SumFunctionOnSet([x \in Objects' |-> ti[x] + to[x]], Objects') >= solo'
      BY <2>3, <2>9 DEF sum
    <3>4. \A x \in Objects' \ (J \cup evicted') : ti[x] = 0 /\ to[x] = 0  BY <2>3, <2>10
    <3> QED  BY ONLY <2>8, <3>1, <3>2, <3>3, <3>4 DEF Owed
  <2>12. Safe(J)'
    <3>1. Safe(K)' /\ (~ overlap[w] => Safe(K \cup {o})')
      BY <1>k, <1>2, <1>11, <2>n, SafeAppend
    <3> QED  BY <2>j, <3>1
  <2> QED  BY <2>11, <2>12 DEF Goal
<1>12. ASSUME NEW w \in Writers, Step(w) PROVE Goal
  BY <1>5, <1>6, <1>8, <1>9, <1>10, <1>11, <1>12 DEF Step
<1> QED
  BY <1>4, <1>7, <1>12 DEF RaceNext

\* A race of at most two calls costs their own bytes and no others: what calls that
\* ran alone added stays in the slice, or shrink has cut it off (process.go:42-124).
THEOREM TwoKeepSolo ==
    RaceSpec => [](involved <= 2 => bytes((Range(view(poRing)) \ {nil}) \cup evicted) >= solo)
<1> DEFINE KeptInv == RaceInv /\ Unique /\ Met /\ Kept
<1>1. RaceInit => KeptInv
  <2> SUFFICES ASSUME RaceInit PROVE KeptInv
    OBVIOUS
  <2>1. RaceInv /\ Unique /\ Kept  BY RaceInvInit, UniqueInit, KeptInit
  <2>2. Met
    <3>1. overlap = [w \in Writers |-> FALSE] /\ overlaps = 0  BY DEF RaceInit
    <3>2. {w \in Writers : overlap[w]} = {}  BY <3>1
    <3>3. involved = 0  BY <3>1, <3>2, FS_EmptySet DEF involved
    <3> QED  BY <3>1, <3>3 DEF Met
  <2> QED  BY <2>1, <2>2
<1>2. KeptInv /\ [RaceNext]_raceVars => KeptInv'
  BY RaceInvStep, UniqueStep, MetStep, KeptStep DEF RaceInv
<1>3. KeptInv => (involved <= 2 => bytes((Range(view(poRing)) \ {nil}) \cup evicted) >= solo)
  <2> SUFFICES ASSUME RaceTypeOK, NEW K, NEW sin, NEW sout, Safe(K), Owed(sin, sout, K)
               PROVE  bytes((Range(view(poRing)) \ {nil}) \cup evicted) >= solo
    BY DEF Kept, RaceInv
  <2> DEFINE T    == (Range(view(poRing)) \ {nil}) \cup evicted
             both == [o \in Objects |-> sin[o] + sout[o]]
             held == [o \in Objects |-> heap[o].In + heap[o].Out]
             same == [o \in T |-> o]
  <2>1. /\ IsFiniteSet(Objects) /\ nil \notin Objects
        /\ \A o \in Objects : heap[o].In \in Nat /\ heap[o].Out \in Nat
    <3>1. heap \in Seq(Entry)  BY DEF RaceTypeOK
    <3>2. Len(heap) \in Nat /\ Objects = 1 .. Len(heap)  BY <3>1, LenProperties DEF Objects
    <3>3. \A o \in Objects : heap[o] \in Entry  BY <3>1, <3>2, ElementOfSeq
    <3>4. IsFiniteSet(Objects) /\ nil \notin Objects  BY <3>2, FS_Interval DEF nil
    <3> QED  BY <3>3, <3>4 DEF Entry
  <2>2. poRing \in Header /\ fits(poRing)  BY DEF RaceTypeOK
  <2>3. \A i \in 1 .. poRing.len :
           view(poRing)[i] = arrays[poRing.arr][poRing.off + i] /\ view(poRing)[i] \in Objects \cup {nil}
    BY <2>2, ViewType
  <2>4. Range(view(poRing)) = {view(poRing)[i] : i \in 1 .. poRing.len}
    BY DEF Range, view
  <2>5. T \subseteq Objects
    BY <2>3, <2>4 DEF RaceTypeOK
  <2>6. K \cup evicted \subseteq T
    <3>1. ASSUME NEW o \in K PROVE o \in Range(view(poRing)) \ {nil}
      <4>1. PICK i \in 1 .. poRing.len : arrays[poRing.arr][poRing.off + i] = o  BY DEF Safe, Has
      <4>2. o \in Objects  BY DEF Safe
      <4> QED  BY <2>1, <2>3, <2>4, <4>1, <4>2
    <3> QED  BY <3>1
  <2>7. \A o \in Objects : /\ both[o] \in Nat /\ held[o] \in Nat /\ both[o] <= held[o]
                           /\ o \notin T => both[o] = 0
    <3>1. ASSUME NEW o \in Objects
          PROVE  both[o] \in Nat /\ held[o] \in Nat /\ both[o] <= held[o]
      <4>1. sin[o] \in Nat /\ sout[o] \in Nat /\ sin[o] <= heap[o].In /\ sout[o] <= heap[o].Out
        BY DEF Owed
      <4> QED  BY <2>1, <4>1
    <3>2. ASSUME NEW o \in Objects, o \notin T PROVE both[o] = 0
      <4>1. o \in Objects \ (K \cup evicted)  BY <2>6, <3>2
      <4>2. sin[o] = 0 /\ sout[o] = 0  BY <4>1 DEF Owed
      <4> QED  BY <4>2
    <3> QED  BY <3>1, <3>2
  <2>8. SumFunctionOnSet(both, Objects) >= solo  BY DEF Owed
  <2>9. \A o \in T : same[o] = o  OBVIOUS
  <2> HIDE DEF T, both, held, same
  <2>10. IsFiniteSet(T)  BY <2>1, <2>5, FS_Subset
  <2>11. SumFunctionOnSet(both, T) = SumFunctionOnSet(both, Objects)
    <3>1. /\ \A o \in T : both[o] \in Nat /\ same[o] \in Objects /\ both[o] = both[same[o]]
          /\ \A o, p \in T : same[o] = same[p] => o = p
          /\ \A p \in Objects : (\A o \in T : same[o] # p) => both[p] = 0
          /\ \A p \in Objects : both[p] \in Nat
      BY <2>5, <2>7, <2>9
    <3> QED  BY ONLY <2>1, <2>10, <3>1, SumSame
  <2>12. SumFunctionOnSet(both, T) <= SumFunctionOnSet(held, T)
    <3>1. \A o \in T : both[o] \in Nat /\ held[o] \in Nat /\ both[o] <= held[o]  BY <2>5, <2>7
    <3> QED  BY ONLY <2>10, <3>1, SumMonotonic
  <2>13. SumFunctionOnSet(both, T) \in Nat /\ SumFunctionOnSet(held, T) \in Nat
    BY <2>5, <2>7, <2>10, SumType
  <2>14. bytes(T) = SumFunctionOnSet(held, T)  BY DEF bytes, held
  <2>15. solo \in Nat  BY DEF RaceTypeOK
  <2> QED  BY <2>8, <2>11, <2>12, <2>13, <2>14, <2>15 DEF T
<1> QED
  BY <1>1, <1>2, <1>3, PTL DEF RaceSpec
=============================================================================
