---------------------------- MODULE SumTheorems ----------------------------
(***************************************************************************)
(* Sums over finite sets, MapThenSumSet as the specifications use it.  The *)
(* operator unfolds to a recursive function on the subsets of its set; the *)
(* facts below are proved from that definition by induction on the         *)
(* subsets, with sets of subsets in the place of an induction hypothesis.  *)
(***************************************************************************)
EXTENDS Integers, FiniteSetsExt, FiniteSetTheorems, TLAPS

(* A non-empty set of naturals has a least element.                        *)
LEMMA LeastNatural ==
    ASSUME NEW S, S \subseteq Nat, S # {}
    PROVE  \E i \in S : \A j \in S : i <= j
    <1> DEFINE R == OpToRel(<, Nat)
    <1>1. IsWellFoundedOn(R, Nat)
        BY NatLessThanWellFounded
    <1>2. \A x, y \in Nat : <<y, x>> \in R <=> y < x
        BY DEF OpToRel
    <1> HIDE DEF R
    <1>3. \E x \in S : \A y \in S : ~ (<<y, x>> \in R)
        BY <1>1, WFMin, Zenon
    <1>4. PICK x \in S : \A y \in S : ~ (<<y, x>> \in R)
        BY <1>3, Zenon
    <1>5. \A y \in S : ~ (y < x)
        BY <1>2, <1>4, Zenon
    <1>6. \A y \in S : x <= y
        BY <1>5
    <1>7. QED
        BY <1>6, Zenon

(* A property of the empty set that adding an element keeps holds of every *)
(* subset; G is the set of the subsets that have it.                       *)
LEMMA SubsetInduction ==
    ASSUME NEW S, IsFiniteSet(S), NEW G, {} \in G,
           \A T \in SUBSET S :
             (T # {} /\ \A x \in T : T \ {x} \in G) => T \in G
    PROVE  SUBSET S \subseteq G
    <1> DEFINE bad == (SUBSET S) \ G
               sizes == {Cardinality(T) : T \in bad}
    <1>1. SUFFICES ASSUME bad # {} PROVE FALSE
        OBVIOUS
    <1>2. \A T \in SUBSET S : IsFiniteSet(T) /\ Cardinality(T) \in Nat
        BY FS_Subset, FS_CardinalityType
    <1>3. sizes \subseteq Nat /\ sizes # {}
        BY <1>1, <1>2
    <1> HIDE DEF sizes
    <1>4. PICK n \in sizes : \A m \in sizes : n <= m
        BY <1>3, LeastNatural
    <1>5. PICK T \in bad : n = Cardinality(T)
        BY <1>4 DEF sizes
    <1>6. ASSUME NEW x \in T PROVE T \ {x} \in G
        <2>1. Cardinality(T \ {x}) = Cardinality(T) - 1
            BY <1>2, FS_RemoveElement
        <2>2. SUFFICES ASSUME T \ {x} \in bad PROVE FALSE
            BY <1>5
        <2>3. Cardinality(T \ {x}) \in sizes
            BY <2>2 DEF sizes
        <2>4. QED
            BY <1>2, <1>4, <1>5, <2>1, <2>3
    <1>7. QED
        BY <1>5, <1>6

-----------------------------------------------------------------------------
pick(s) == CHOOSE x \in s : TRUE

LEMMA PickIn == \A s : s # {} => pick(s) \in s
    BY DEF pick

(* h is the recursive function that summing f over S unfolds to.           *)
IsSum(f, S, h) ==
    h = [s \in SUBSET S |-> IF s = {} THEN 0 ELSE f[pick(s)] + h[s \ {pick(s)}]]

SumOver(f, S) == MapThenSumSet(LAMBDA x : f[x], S)

(* There is such a function.                                               *)
LEMMA SumExists ==
    ASSUME NEW f, NEW S, IsFiniteSet(S)
    PROVE  \E h : IsSum(f, S, h)
    <1> DEFINE Small(n) == {s \in SUBSET S : Cardinality(s) <= n}
               Part(n, h) == h = [s \in Small(n) |-> IF s = {} THEN 0
                                    ELSE f[pick(s)] + h[s \ {pick(s)}]]
               bad == {n \in Nat : ~ \E h : Part(n, h)}
    <1>1. \A s \in SUBSET S : IsFiniteSet(s) /\ Cardinality(s) \in 0..Cardinality(S)
        BY FS_Subset, FS_CardinalityType
    <1>2. \A s \in SUBSET S : s # {} =>
            /\ s \ {pick(s)} \in SUBSET S
            /\ Cardinality(s \ {pick(s)}) = Cardinality(s) - 1
        BY <1>1, FS_RemoveElement, PickIn
    <1>3. 0 \notin bad
        <2> DEFINE h == [s \in Small(0) |-> 0]
        <2>1. \A s \in Small(0) : s = {}
            BY <1>1, FS_EmptySet
        <2>2. Part(0, h)
            BY <2>1
        <2>3. QED
            BY <2>2
    <1>4. ASSUME NEW n \in Nat, n \notin bad
          PROVE  n + 1 \notin bad
        <2>1. PICK h : Part(n, h)
            BY <1>4
        <2> DEFINE k == [s \in Small(n + 1) |-> IF s = {} THEN 0
                           ELSE f[pick(s)] + h[s \ {pick(s)}]]
        <2>2. \A s \in Small(n) : s \in Small(n + 1) /\ k[s] = h[s]
            <3>1. \A s \in Small(n) : s \in Small(n + 1)
                BY <1>1
            <3>2. \A s \in Small(n) :
                    h[s] = IF s = {} THEN 0 ELSE f[pick(s)] + h[s \ {pick(s)}]
                BY <2>1
            <3> HIDE DEF Small
            <3>3. QED
                BY <3>1, <3>2
        <2>3. \A s \in Small(n + 1) : s # {} => s \ {pick(s)} \in Small(n)
            BY <1>1, <1>2
        <2>4. \A s \in Small(n + 1) : s # {} =>
                h[s \ {pick(s)}] = k[s \ {pick(s)}]
            BY <2>2, <2>3
        <2>5. Part(n + 1, k)
            BY <2>4
        <2>6. QED
            BY <2>5
    <1>5. bad = {}
        <2>1. SUFFICES ASSUME bad # {} PROVE FALSE
            OBVIOUS
        <2>2. bad \subseteq Nat
            OBVIOUS
        <2> HIDE DEF bad
        <2>3. PICK n \in bad : \A m \in bad : n <= m
            BY <2>1, <2>2, LeastNatural
        <2>4. n # 0 /\ n \in Nat
            BY <1>3, <2>2
        <2>5. n - 1 \in Nat /\ n - 1 \notin bad
            BY <2>3, <2>4, <2>2
        <2>6. (n - 1) + 1 \notin bad
            BY <1>4, <2>5
        <2>7. QED
            BY <2>4, <2>6
    <1>6. Cardinality(S) \in Nat
        BY FS_CardinalityType
    <1>7. PICK h : Part(Cardinality(S), h)
        BY <1>5, <1>6
    <1>8. Small(Cardinality(S)) = SUBSET S
        BY <1>1
    <1>9. IsSum(f, S, h)
        BY <1>7, <1>8 DEF IsSum
    <1>10. QED
        BY <1>9

(* There is only one: a sum over a larger set agrees with it.              *)
LEMMA SumUnique ==
    ASSUME NEW f, NEW S, IsFiniteSet(S), NEW T \in SUBSET S,
           NEW h, NEW k, IsSum(f, S, h), IsSum(f, T, k)
    PROVE  h[T] = k[T]
    <1>1. \A s \in SUBSET S :
            h[s] = IF s = {} THEN 0 ELSE f[pick(s)] + h[s \ {pick(s)}]
        BY DEF IsSum
    <1>2. \A s \in SUBSET T :
            k[s] = IF s = {} THEN 0 ELSE f[pick(s)] + k[s \ {pick(s)}]
        BY DEF IsSum
    <1> DEFINE bad == {s \in SUBSET T : h[s] # k[s]}
               sizes == {Cardinality(s) : s \in bad}
    <1>5. \A s \in SUBSET T : IsFiniteSet(s) /\ Cardinality(s) \in Nat
        BY FS_Subset, FS_CardinalityType
    <1>6. SUFFICES ASSUME bad # {} PROVE FALSE
        OBVIOUS
    <1>7. sizes \subseteq Nat /\ sizes # {}
        BY <1>5, <1>6
    <1> HIDE DEF sizes
    <1>8. PICK n \in sizes : \A m \in sizes : n <= m
        BY <1>7, LeastNatural
    <1>9. PICK s \in bad : n = Cardinality(s)
        BY <1>8 DEF sizes
    <1>10. s # {}
        BY <1>1, <1>2, <1>9
    <1>11. Cardinality(s \ {pick(s)}) = Cardinality(s) - 1
        BY <1>5, <1>10, PickIn, FS_RemoveElement
    <1>12. s \ {pick(s)} \in bad
        BY <1>1, <1>2, <1>9, <1>10
    <1>13. Cardinality(s \ {pick(s)}) \in sizes
        BY <1>12 DEF sizes
    <1>14. QED
        BY <1>5, <1>8, <1>9, <1>11, <1>13

(* The sum is the value at S of any such function.                         *)
LEMMA SumOverIs ==
    ASSUME NEW f, NEW S, IsFiniteSet(S), NEW h, IsSum(f, S, h)
    PROVE  SumOver(f, S) = h[S]
    <1>1. \E k : IsSum(f, S, k) /\ SumOver(f, S) = k[S]
        BY DEF SumOver, MapThenSumSet, MapThenFoldSet, IsSum, pick
    <1>2. QED
        BY <1>1, SumUnique

(* The sum of nothing, and the sum with one element taken out.             *)
THEOREM SumOverEmpty == \A f : SumOver(f, {}) = 0
    <1>1. TAKE f
    <1>2. PICK h : IsSum(f, {}, h)
        BY SumExists, FS_EmptySet
    <1>3. SumOver(f, {}) = h[{}]
        BY <1>2, SumOverIs, FS_EmptySet
    <1>4. QED
        BY <1>2, <1>3 DEF IsSum

LEMMA SumOverPart ==
    ASSUME NEW f, NEW S, IsFiniteSet(S), NEW T \in SUBSET S
    PROVE  \E h : IsSum(f, S, h) /\ SumOver(f, S) = h[S] /\ SumOver(f, T) = h[T]
    <1>1. IsFiniteSet(T)
        BY FS_Subset
    <1>2. PICK h : IsSum(f, S, h)
        BY SumExists
    <1>3. PICK k : IsSum(f, T, k)
        BY <1>1, SumExists
    <1>4. SumOver(f, S) = h[S] /\ SumOver(f, T) = k[T]
        BY <1>1, <1>2, <1>3, SumOverIs
    <1>6. h[T] = k[T]
        BY <1>2, <1>3, SumUnique
    <1>7. QED
        BY <1>2, <1>4, <1>6

LEMMA SumOverPick ==
    ASSUME NEW f, NEW S, IsFiniteSet(S), S # {}
    PROVE  SumOver(f, S) = f[pick(S)] + SumOver(f, S \ {pick(S)})
    <1>1. PICK h : /\ IsSum(f, S, h) /\ SumOver(f, S) = h[S]
                   /\ SumOver(f, S \ {pick(S)}) = h[S \ {pick(S)}]
        BY SumOverPart
    <1>2. h[S] = f[pick(S)] + h[S \ {pick(S)}]
        BY <1>1 DEF IsSum
    <1>3. QED
        BY <1>1, <1>2

THEOREM SumOverInt ==
    ASSUME NEW f, NEW S, IsFiniteSet(S), \A x \in S : f[x] \in Int
    PROVE  SumOver(f, S) \in Int
    <1> DEFINE G == {T \in SUBSET S : SumOver(f, T) \in Int}
    <1>1. {} \in G
        BY SumOverEmpty
    <1>2. ASSUME NEW T \in SUBSET S, T # {}, \A x \in T : T \ {x} \in G
          PROVE  T \in G
        <2>1. IsFiniteSet(T) /\ pick(T) \in T
            BY <1>2, FS_Subset, PickIn
        <2>2. SumOver(f, T) = f[pick(T)] + SumOver(f, T \ {pick(T)})
            BY <1>2, <2>1, SumOverPick
        <2>3. SumOver(f, T \ {pick(T)}) \in Int /\ f[pick(T)] \in Int
            BY <1>2, <2>1
        <2>4. QED
            BY <2>2, <2>3
    <1> HIDE DEF G
    <1>3. SUBSET S \subseteq G
        BY <1>1, <1>2, SubsetInduction
    <1>4. QED
        BY <1>3 DEF G

(* ... whichever element that is.                                          *)
THEOREM SumOverRemove ==
    ASSUME NEW f, NEW S, IsFiniteSet(S), \A x \in S : f[x] \in Int, NEW e \in S
    PROVE  SumOver(f, S) = f[e] + SumOver(f, S \ {e})
    <1> DEFINE G == {T \in SUBSET S : \A x \in T :
                       SumOver(f, T) = f[x] + SumOver(f, T \ {x})}
    <1>1. {} \in G
        OBVIOUS
    <1>2. ASSUME NEW T \in SUBSET S, T # {}, \A x \in T : T \ {x} \in G
          PROVE  T \in G
        <2>1. SUFFICES ASSUME NEW x \in T
                       PROVE  SumOver(f, T) = f[x] + SumOver(f, T \ {x})
            OBVIOUS
        <2> DEFINE y == pick(T)
        <2>2. IsFiniteSet(T) /\ y \in T
            BY <1>2, FS_Subset, PickIn
        <2>3. SumOver(f, T) = f[y] + SumOver(f, T \ {y})
            BY <1>2, <2>2, SumOverPick
        <2> HIDE DEF y
        <2>4. CASE x = y
            BY <2>3, <2>4
        <2>5. CASE x # y
            <3>1. T \ {x} \in G /\ T \ {y} \in G
                BY <1>2, <2>2
            <3>2. SumOver(f, T \ {y}) = f[x] + SumOver(f, (T \ {y}) \ {x})
                BY <2>5, <3>1
            <3>3. SumOver(f, T \ {x}) = f[y] + SumOver(f, (T \ {x}) \ {y})
                BY <2>2, <2>5, <3>1
            <3>4. (T \ {y}) \ {x} = (T \ {x}) \ {y}
                OBVIOUS
            <3>5. SumOver(f, (T \ {x}) \ {y}) \in Int
                <4>1. (T \ {x}) \ {y} \in SUBSET S
                    OBVIOUS
                <4>2. QED
                    BY <4>1, FS_Subset, SumOverInt
            <3>6. f[x] \in Int /\ f[y] \in Int
                BY <2>2
            <3>7. SumOver(f, T) = f[y] + (f[x] + SumOver(f, (T \ {x}) \ {y}))
                BY <2>3, <3>2, <3>4
            <3>8. QED
                BY <3>3, <3>5, <3>6, <3>7
        <2>6. QED
            BY <2>4, <2>5
    <1> HIDE DEF G
    <1>3. SUBSET S \subseteq G
        BY <1>1, <1>2, SubsetInduction
    <1>4. S \in G
        BY <1>3
    <1>5. QED
        BY <1>4 DEF G

(* A sum of naturals is a natural.                                         *)
THEOREM SumOverNat ==
    ASSUME NEW f, NEW S, IsFiniteSet(S), \A x \in S : f[x] \in Nat
    PROVE  SumOver(f, S) \in Nat
    <1> DEFINE G == {T \in SUBSET S : SumOver(f, T) \in Nat}
    <1>1. {} \in G
        BY SumOverEmpty
    <1>2. ASSUME NEW T \in SUBSET S, T # {}, \A x \in T : T \ {x} \in G
          PROVE  T \in G
        <2>1. IsFiniteSet(T) /\ pick(T) \in T
            BY <1>2, FS_Subset, PickIn
        <2>2. SumOver(f, T) = f[pick(T)] + SumOver(f, T \ {pick(T)})
            BY <1>2, <2>1, SumOverPick
        <2>3. SumOver(f, T \ {pick(T)}) \in Nat /\ f[pick(T)] \in Nat
            BY <1>2, <2>1
        <2>4. QED
            BY <2>2, <2>3
    <1> HIDE DEF G
    <1>3. SUBSET S \subseteq G
        BY <1>1, <1>2, SubsetInduction
    <1>4. QED
        BY <1>3 DEF G

(* Adding an element.                                                      *)
THEOREM SumOverAdd ==
    ASSUME NEW f, NEW S, IsFiniteSet(S), NEW e, e \notin S,
           \A x \in S \cup {e} : f[x] \in Int
    PROVE  SumOver(f, S \cup {e}) = f[e] + SumOver(f, S)
    <1>1. IsFiniteSet(S \cup {e}) /\ (S \cup {e}) \ {e} = S
        BY FS_AddElement
    <1>2. QED
        BY <1>1, SumOverRemove

(* Functions that agree on the set have the same sum.                      *)
THEOREM SumOverSame ==
    ASSUME NEW f, NEW g, NEW S, IsFiniteSet(S), \A x \in S : f[x] = g[x]
    PROVE  SumOver(f, S) = SumOver(g, S)
    <1> DEFINE G == {T \in SUBSET S : SumOver(f, T) = SumOver(g, T)}
    <1>1. {} \in G
        BY SumOverEmpty
    <1>2. ASSUME NEW T \in SUBSET S, T # {}, \A x \in T : T \ {x} \in G
          PROVE  T \in G
        <2>1. IsFiniteSet(T) /\ pick(T) \in T
            BY <1>2, FS_Subset, PickIn
        <2>2. /\ SumOver(f, T) = f[pick(T)] + SumOver(f, T \ {pick(T)})
              /\ SumOver(g, T) = g[pick(T)] + SumOver(g, T \ {pick(T)})
            BY <1>2, <2>1, SumOverPick
        <2>3. QED
            BY <1>2, <2>1, <2>2
    <1> HIDE DEF G
    <1>3. SUBSET S \subseteq G
        BY <1>1, <1>2, SubsetInduction
    <1>4. QED
        BY <1>3 DEF G

(* Zero everywhere, and no summand negative.                               *)
THEOREM SumOverZero ==
    ASSUME NEW f, NEW S, IsFiniteSet(S), \A x \in S : f[x] = 0
    PROVE  SumOver(f, S) = 0
    <1> DEFINE G == {T \in SUBSET S : SumOver(f, T) = 0}
    <1>1. {} \in G
        BY SumOverEmpty
    <1>2. ASSUME NEW T \in SUBSET S, T # {}, \A x \in T : T \ {x} \in G
          PROVE  T \in G
        <2>1. IsFiniteSet(T) /\ pick(T) \in T
            BY <1>2, FS_Subset, PickIn
        <2>2. SumOver(f, T) = f[pick(T)] + SumOver(f, T \ {pick(T)})
            BY <1>2, <2>1, SumOverPick
        <2>3. QED
            BY <1>2, <2>1, <2>2
    <1> HIDE DEF G
    <1>3. SUBSET S \subseteq G
        BY <1>1, <1>2, SubsetInduction
    <1>4. QED
        BY <1>3 DEF G

(* The sum of a function that is a sum, and of a difference.               *)
THEOREM SumOverPlus ==
    ASSUME NEW f, NEW g, NEW h, NEW S, IsFiniteSet(S),
           \A x \in S : f[x] \in Int /\ g[x] \in Int /\ h[x] = f[x] + g[x]
    PROVE  SumOver(h, S) = SumOver(f, S) + SumOver(g, S)
    <1> DEFINE G == {T \in SUBSET S : SumOver(h, T) = SumOver(f, T) + SumOver(g, T)}
    <1>1. {} \in G
        BY SumOverEmpty
    <1>2. ASSUME NEW T \in SUBSET S, T # {}, \A x \in T : T \ {x} \in G
          PROVE  T \in G
        <2> DEFINE y == pick(T)
                   U == T \ {y}
        <2>1. IsFiniteSet(T) /\ y \in T
            BY <1>2, FS_Subset, PickIn
        <2>2. /\ SumOver(f, T) = f[y] + SumOver(f, U)
              /\ SumOver(g, T) = g[y] + SumOver(g, U)
              /\ SumOver(h, T) = h[y] + SumOver(h, U)
            BY <1>2, <2>1, SumOverPick
        <2>3. SumOver(h, U) = SumOver(f, U) + SumOver(g, U)
            BY <1>2, <2>1
        <2>4. f[y] \in Int /\ g[y] \in Int /\ h[y] = f[y] + g[y]
            BY <2>1
        <2>5. IsFiniteSet(U) /\ U \in SUBSET S
            BY FS_Subset
        <2>6. SumOver(f, U) \in Int /\ SumOver(g, U) \in Int
            BY <2>5, SumOverInt
        <2> HIDE DEF U, y
        <2>7. QED
            BY <2>2, <2>3, <2>4, <2>6
    <1> HIDE DEF G
    <1>3. SUBSET S \subseteq G
        BY <1>1, <1>2, SubsetInduction
    <1>4. QED
        BY <1>3 DEF G

(* Elements that add nothing may be left out.                              *)
THEOREM SumOverSubset ==
    ASSUME NEW f, NEW S, IsFiniteSet(S), NEW T \in SUBSET S,
           \A x \in S : f[x] \in Int, \A x \in S \ T : f[x] = 0
    PROVE  SumOver(f, S) = SumOver(f, T)
    <1> DEFINE G == {U \in SUBSET S : SumOver(f, U) = SumOver(f, U \cap T)}
    <1>1. {} \in G
        OBVIOUS
    <1>2. ASSUME NEW U \in SUBSET S, U # {}, \A x \in U : U \ {x} \in G
          PROVE  U \in G
        <2> DEFINE y == pick(U)
                   V == U \ {y}
        <2>1. IsFiniteSet(U) /\ IsFiniteSet(U \cap T) /\ y \in U
            BY <1>2, FS_Subset, PickIn
        <2>2. SumOver(f, U) = f[y] + SumOver(f, V)
            BY <1>2, <2>1, SumOverPick
        <2>3. SumOver(f, V) = SumOver(f, V \cap T)
            BY <1>2, <2>1
        <2>4. CASE y \in T
            <3>1. y \in U \cap T /\ (U \cap T) \ {y} = V \cap T
                BY <2>1, <2>4
            <3>2. SumOver(f, U \cap T) = f[y] + SumOver(f, (U \cap T) \ {y})
                BY <2>1, <3>1, SumOverRemove
            <3>3. QED
                BY <2>2, <2>3, <3>1, <3>2
        <2>5. CASE y \notin T
            <3>1. V \cap T = U \cap T /\ f[y] = 0
                BY <2>1, <2>5
            <3>2. V \cap T \in SUBSET S /\ IsFiniteSet(V \cap T)
                BY <2>1, FS_Subset
            <3>3. SumOver(f, V \cap T) \in Int
                BY <3>2, SumOverInt
            <3>4. SumOver(f, V) = SumOver(f, U \cap T) /\ SumOver(f, V) \in Int
                BY <2>3, <3>1, <3>3
            <3>5. SumOver(f, U) = SumOver(f, V)
                BY <2>2, <3>1, <3>4
            <3>6. QED
                BY <3>4, <3>5
        <2>6. QED
            BY <2>4, <2>5
    <1> HIDE DEF G
    <1>3. SUBSET S \subseteq G
        BY <1>1, <1>2, SubsetInduction
    <1>4. S \in G /\ S \cap T = T
        BY <1>3
    <1>5. QED
        BY <1>4 DEF G

(* Two sets without a common element.                                      *)
THEOREM SumOverUnion ==
    ASSUME NEW f, NEW S, IsFiniteSet(S), NEW T, IsFiniteSet(T), S \cap T = {},
           \A x \in S \cup T : f[x] \in Int
    PROVE  SumOver(f, S \cup T) = SumOver(f, S) + SumOver(f, T)
    <1> DEFINE G == {U \in SUBSET S : SumOver(f, U \cup T) = SumOver(f, U) + SumOver(f, T)}
    <1>0. SumOver(f, T) \in Int
        BY SumOverInt
    <1>1. {} \in G
        <2>1. SumOver(f, {}) = 0 /\ {} \cup T = T
            BY SumOverEmpty
        <2>2. QED
            BY <1>0, <2>1
    <1>2. ASSUME NEW U \in SUBSET S, U # {}, \A x \in U : U \ {x} \in G
          PROVE  U \in G
        <2> DEFINE y == pick(U)
                   V == U \ {y}
        <2>1. IsFiniteSet(U) /\ IsFiniteSet(U \cup T) /\ y \in U
            BY <1>2, FS_Subset, FS_Union, PickIn
        <2>2. SumOver(f, U) = f[y] + SumOver(f, V)
            BY <1>2, <2>1, SumOverPick
        <2>3. SumOver(f, V \cup T) = SumOver(f, V) + SumOver(f, T)
            BY <1>2, <2>1
        <2>4. y \in U \cup T /\ (U \cup T) \ {y} = V \cup T
            BY <2>1
        <2>5. SumOver(f, U \cup T) = f[y] + SumOver(f, (U \cup T) \ {y})
            BY <2>1, <2>4, SumOverRemove
        <2>6. SumOver(f, U \cup T) = f[y] + SumOver(f, V \cup T)
            BY <2>4, <2>5
        <2>7. V \in SUBSET S /\ IsFiniteSet(V)
            BY FS_Subset
        <2>8. SumOver(f, V) \in Int /\ f[y] \in Int
            BY <2>1, <2>7, SumOverInt
        <2>9. SumOver(f, U \cup T) = SumOver(f, U) + SumOver(f, T)
            BY <1>0, <2>2, <2>3, <2>6, <2>8
        <2>10. QED
            BY <2>9
    <1> HIDE DEF G
    <1>3. SUBSET S \subseteq G
        BY <1>1, <1>2, SubsetInduction
    <1>4. S \in G
        BY <1>3
    <1>5. QED
        BY <1>4 DEF G

(* The elements of S whose key is in B.                                    *)
Among(S, key, B) == {x \in S : key[x] \in B}

(* g[a] is the sum of f over the elements of S whose key is a.             *)
IsParts(g, A, f, S, key) ==
    \A a \in A : g[a] = SumOver(f, Among(S, key, {a}))

(* A sum by parts: the sum of g over A is the sum over the elements whose  *)
(* key is in A.                                                            *)
THEOREM SumOverParts ==
    ASSUME NEW f, NEW S, IsFiniteSet(S), \A x \in S : f[x] \in Int,
           NEW key, NEW A, IsFiniteSet(A), NEW g,
           IsParts(g, A, f, S, key)
    PROVE  SumOver(g, A) = SumOver(f, Among(S, key, A))
    <1> DEFINE G == {B \in SUBSET A : SumOver(g, B) = SumOver(f, Among(S, key, B))}
    <1>1. {} \in G
        <2>1. Among(S, key, {}) = {}
            BY DEF Among
        <2>2. QED
            BY <2>1, SumOverEmpty
    <1>2. ASSUME NEW B \in SUBSET A, B # {}, \A a \in B : B \ {a} \in G
          PROVE  B \in G
        <2> DEFINE a == pick(B)
                   C == B \ {a}
                   one == Among(S, key, {a})
        <2>1. IsFiniteSet(B) /\ a \in B
            BY <1>2, FS_Subset, PickIn
        <2>2. SumOver(g, B) = g[a] + SumOver(g, C)
            BY <1>2, <2>1, SumOverPick
        <2>3. SumOver(g, C) = SumOver(f, Among(S, key, C))
            BY <1>2, <2>1
        <2>4. g[a] = SumOver(f, one)
            BY <2>1 DEF IsParts
        <2>5. Among(S, key, C) \in SUBSET S /\ one \in SUBSET S
            BY DEF Among
        <2>6. IsFiniteSet(Among(S, key, C)) /\ IsFiniteSet(one)
            BY <2>5, FS_Subset
        <2>7. one \cap Among(S, key, C) = {} /\ one \cup Among(S, key, C) = Among(S, key, B)
            BY <2>1 DEF Among
        <2>8. SumOver(f, one \cup Among(S, key, C)) = SumOver(f, one) + SumOver(f, Among(S, key, C))
            <3> HIDE DEF one
            <3>1. QED
                BY <2>5, <2>6, <2>7, SumOverUnion
        <2>9. SumOver(f, Among(S, key, B)) = SumOver(f, one) + SumOver(f, Among(S, key, C))
            BY <2>7, <2>8
        <2>10. SumOver(g, B) = SumOver(f, Among(S, key, B))
            BY <2>2, <2>3, <2>4, <2>9
        <2>11. QED
            BY <2>10
    <1> HIDE DEF G
    <1>3. SUBSET A \subseteq G
        BY <1>1, <1>2, SubsetInduction
    <1>4. A \in G
        BY <1>3
    <1>5. QED
        BY <1>4 DEF G
=============================================================================
