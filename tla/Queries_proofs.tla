--------------------------- MODULE Queries_proofs ---------------------------
(***************************************************************************)
(* Proofs about the questions that are put to the system.                  *)
(*                                                                         *)
(* ElementData, for every calendar, set of zones, number of sensors and    *)
(* rows: the types, that an answer divides its period, that a point lies   *)
(* between its numbers, and that the answers for week, month and day       *)
(* agree.                                                                  *)
(*                                                                         *)
(* DeviceQueries, for any number of devices, queries, other commands and   *)
(* deliveries: the types, that no temporary queue outlives its query, and  *)
(* that an element query is answered by its own device.                    *)
(***************************************************************************)
EXTENDS ElementData, DeviceQueries, FiniteSetTheorems, WellFoundedInduction, TLAPS

-----------------------------------------------------------------------------
(* Induction.                                                              *)

\* Induction over the numbers, for a set of them.
LEMMA NumberInduction ==
    ASSUME NEW P, 0 \in P, \A n \in Nat : n \in P => n + 1 \in P
    PROVE  \A n \in Nat : n \in P
<1> DEFINE Out == Nat \ P
<1> SUFFICES ASSUME Out # {} PROVE FALSE
  OBVIOUS
<1>1. PICK n \in Out : \A m \in Out : ~(<<m, n>> \in OpToRel(<, Nat))
  BY NatLessThanWellFounded, WFMin, Out \subseteq Nat
<1>2. n \in Nat \ {0} /\ \A m \in Out : ~(m < n)
  BY <1>1 DEF OpToRel
<1>3. n - 1 \in Nat /\ n - 1 < n /\ (n - 1) + 1 = n
  BY <1>2
<1>4. n - 1 \in Out
  BY <1>1, <1>3
<1> QED BY <1>2, <1>3, <1>4

\* A set of n + 1 elements, one of them taken out.
LEMMA OneLess ==
    ASSUME NEW S, IsFiniteSet(S), NEW n \in Nat, Cardinality(S) = n + 1
    PROVE  S # {} /\ \A x \in S : IsFiniteSet(S \ {x}) /\ Cardinality(S \ {x}) = n
<1>1. S # {}
  BY FS_EmptySet
<1>2. ASSUME NEW x \in S PROVE IsFiniteSet(S \ {x}) /\ Cardinality(S \ {x}) = n
  <2>1. IsFiniteSet(S \ {x}) /\ Cardinality(S \ {x}) = Cardinality(S) - 1
    BY FS_RemoveElement
  <2> QED BY <2>1
<1> QED BY <1>1, <1>2

\* Induction over a finite set, for a set of its subsets.
LEMMA SubsetInduction ==
    ASSUME NEW S, IsFiniteSet(S), NEW P, {} \in P,
           \A T \in SUBSET S : \A x \in S \ T : T \in P => T \cup {x} \in P
    PROVE  S \in P
<1> DEFINE Q == {n \in Nat : \A T \in SUBSET S : Cardinality(T) = n => T \in P}
<1>1. \A T \in SUBSET S : IsFiniteSet(T) /\ Cardinality(T) \in Nat
  BY FS_Subset, FS_CardinalityType
<1>2. 0 \in Q
  BY <1>1, FS_EmptySet
<1>3. ASSUME NEW n \in Nat, n \in Q PROVE n + 1 \in Q
  <2> SUFFICES ASSUME NEW T \in SUBSET S, Cardinality(T) = n + 1 PROVE T \in P
    OBVIOUS
  <2>0. IsFiniteSet(T)
    BY <1>1
  <2>1. PICK x \in T : TRUE
    BY <2>0, OneLess
  <2>2. Cardinality(T \ {x}) = n
    BY <2>0, <2>1, OneLess
  <2>3. T \ {x} \in P /\ T \ {x} \in SUBSET S /\ x \in S \ (T \ {x})
    BY <1>3, <2>2
  <2>4. (T \ {x}) \cup {x} = T
    OBVIOUS
  <2> QED BY <2>3, <2>4
<1>4. \A n \in Nat : n \in Q
  <2> HIDE DEF Q
  <2> QED BY <1>2, <1>3, NumberInduction
<1> QED BY <1>1, <1>4

-----------------------------------------------------------------------------
(* Sums.                                                                   *)

Total(S) == MapThenSumSet(LAMBDA r : r.data, S)

Pick(s) == CHOOSE x \in s : TRUE

\* g has the sums of the members of D, a set of sets.
IsSum(g, D) == g = [s \in D |-> IF s = {} THEN 0 ELSE Pick(s).data + g[s \ {Pick(s)}]]

\* There is a function with the sums of all subsets, built up by their number of members.
LEMMA SumExists ==
    ASSUME NEW S, IsFiniteSet(S)
    PROVE  \E g : IsSum(g, SUBSET S)
<1> DEFINE D(n) == {s \in SUBSET S : Cardinality(s) <= n}
           P == {n \in Nat : \E g : IsSum(g, D(n))}
<1>1. \A s \in SUBSET S : /\ IsFiniteSet(s) /\ Cardinality(s) \in Nat
                          /\ Cardinality(s) <= Cardinality(S)
  BY FS_Subset, FS_CardinalityType
<1>2. 0 \in P
  <2> DEFINE g == [s \in D(0) |-> 0]
  <2>1. \A s \in D(0) : s = {}
    BY <1>1, FS_EmptySet
  <2>2. IsSum(g, D(0))
    BY <2>1 DEF IsSum
  <2> QED BY <2>2
<1>3. ASSUME NEW n \in Nat, n \in P PROVE n + 1 \in P
  <2>1. PICK g : IsSum(g, D(n))
    BY <1>3
  <2> DEFINE h == [s \in D(n + 1) |-> IF s = {} THEN 0 ELSE Pick(s).data + g[s \ {Pick(s)}]]
  <2>2. \A s \in D(n) : s \in D(n + 1) /\ h[s] = g[s]
    <3> SUFFICES ASSUME NEW s \in D(n) PROVE s \in D(n + 1) /\ h[s] = g[s]
      OBVIOUS
    <3>1. Cardinality(s) \in Nat /\ Cardinality(s) <= n
      BY <1>1
    <3>2. s \in D(n + 1)
      BY <3>1
    <3>3. g[s] = IF s = {} THEN 0 ELSE Pick(s).data + g[s \ {Pick(s)}]
      BY <2>1 DEF IsSum
    <3> QED BY <3>2, <3>3
  <2>3. ASSUME NEW s \in D(n + 1), s # {} PROVE s \ {Pick(s)} \in D(n)
    <3>1. Pick(s) \in s
      BY <2>3 DEF Pick
    <3>2. Cardinality(s \ {Pick(s)}) = Cardinality(s) - 1
      BY <1>1, <3>1, FS_RemoveElement
    <3> QED BY <1>1, <3>2
  <2>4. IsSum(h, D(n + 1))
    BY <2>2, <2>3 DEF IsSum
  <2>5. \E f : IsSum(f, D(n + 1))
    BY <2>4
  <2>6. n + 1 \in Nat
    OBVIOUS
  <2> QED BY <2>5, <2>6, Zenon
<1>4. \A n \in Nat : n \in P
  <2> HIDE DEF P
  <2> QED BY <1>2, <1>3, NumberInduction
<1>5. D(Cardinality(S)) = SUBSET S /\ Cardinality(S) \in Nat
  BY <1>1, FS_CardinalityType
<1> QED BY <1>4, <1>5

\* MapThenSumSet adds up.
LEMMA TotalIsSum ==
    ASSUME NEW S, IsFiniteSet(S)
    PROVE  \E g : IsSum(g, SUBSET S) /\ Total(S) = g[S]
<1> DEFINE g == CHOOSE g : IsSum(g, SUBSET S)
<1>1. IsSum(g, SUBSET S)
  BY SumExists, Zenon
<1>2. Total(S) = g[S]
  BY Zenon DEF Total, IsSum, MapThenSumSet, MapThenFoldSet, Pick
<1> QED BY <1>1, <1>2

\* One function has the totals of all subsets.
LEMMA TotalsOfSubsets ==
    ASSUME NEW S, IsFiniteSet(S), NEW g, IsSum(g, SUBSET S), NEW T \in SUBSET S
    PROVE  Total(T) = g[T]
<1>1. IsFiniteSet(T)
  BY FS_Subset
<1>2. PICK h : IsSum(h, SUBSET T) /\ Total(T) = h[T]
  BY <1>1, TotalIsSum
<1> DEFINE Q == {n \in Nat : \A s \in SUBSET T : Cardinality(s) = n => h[s] = g[s]}
<1>3. \A s \in SUBSET T : IsFiniteSet(s) /\ Cardinality(s) \in Nat /\ s \in SUBSET S
  BY <1>1, FS_Subset, FS_CardinalityType
<1>4. h[{}] = 0 /\ g[{}] = 0
  BY <1>2 DEF IsSum
<1>5. 0 \in Q
  BY <1>3, <1>4, FS_EmptySet
<1>6. ASSUME NEW n \in Nat, n \in Q PROVE n + 1 \in Q
  <2> SUFFICES ASSUME NEW s \in SUBSET T, Cardinality(s) = n + 1 PROVE h[s] = g[s]
    OBVIOUS
  <2>0. IsFiniteSet(s)
    BY <1>3
  <2>1. s # {} /\ Pick(s) \in s
    BY <2>0, OneLess DEF Pick
  <2>2. Cardinality(s \ {Pick(s)}) = n /\ s \ {Pick(s)} \in SUBSET T
    BY <2>0, <2>1, OneLess
  <2>3. h[s \ {Pick(s)}] = g[s \ {Pick(s)}]
    BY <1>6, <2>2
  <2>4. h[s] = Pick(s).data + h[s \ {Pick(s)}]
    BY <1>2, <2>1 DEF IsSum
  <2>5. g[s] = Pick(s).data + g[s \ {Pick(s)}]
    BY <2>1 DEF IsSum
  <2> QED BY <2>3, <2>4, <2>5
<1>7. \A n \in Nat : n \in Q
  <2> HIDE DEF Q
  <2> QED BY <1>5, <1>6, NumberInduction
<1>8. T \in SUBSET T /\ Cardinality(T) \in Nat
  BY <1>3
<1> QED BY <1>2, <1>7, <1>8

\* The total of nothing.
LEMMA TotalEmpty == Total({}) = 0
<1>1. PICK g : IsSum(g, SUBSET {}) /\ Total({}) = g[{}]
  BY FS_EmptySet, TotalIsSum
<1> QED BY <1>1 DEF IsSum

\* The total without one of the members, whichever.
LEMMA TotalWithout ==
    ASSUME NEW S, IsFiniteSet(S), \A r \in S : r.data \in Int, NEW r \in S
    PROVE  Total(S) \in Int /\ Total(S \ {r}) \in Int /\ Total(S) = r.data + Total(S \ {r})
<1>1. PICK g : IsSum(g, SUBSET S)
  BY SumExists
<1>2. \A T \in SUBSET S : Total(T) = g[T] /\ IsFiniteSet(T) /\ Cardinality(T) \in Nat
  BY <1>1, TotalsOfSubsets, FS_Subset, FS_CardinalityType
<1>3. \A s \in SUBSET S : s # {} => Pick(s) \in s /\ g[s] = Pick(s).data + g[s \ {Pick(s)}]
  BY <1>1 DEF IsSum, Pick
<1>4. g[{}] = 0
  BY <1>1 DEF IsSum
<1> DEFINE Q == {n \in Nat : \A s \in SUBSET S : Cardinality(s) = n => g[s] \in Int}
           R == {n \in Nat : \A s \in SUBSET S : Cardinality(s) = n =>
                                \A x \in s : g[s] = x.data + g[s \ {x}]}
<1>5. ASSUME NEW n \in Nat, NEW s \in SUBSET S, Cardinality(s) = n + 1
      PROVE  /\ s # {} /\ Pick(s) \in s /\ g[s] = Pick(s).data + g[s \ {Pick(s)}]
             /\ \A x \in s : Cardinality(s \ {x}) = n /\ x.data \in Int
  <2>1. IsFiniteSet(s)
    BY <1>2
  <2>2. s # {} /\ \A x \in s : Cardinality(s \ {x}) = n
    BY <1>5, <2>1, OneLess
  <2> QED BY <1>3, <2>2
<1>6. \A s \in SUBSET S : Cardinality(s) = 0 => s = {}
  BY <1>2, FS_EmptySet
<1>7. \A n \in Nat : n \in Q
  <2>1. 0 \in Q
    BY <1>4, <1>6
  <2>2. ASSUME NEW n \in Nat, n \in Q PROVE n + 1 \in Q
    <3> SUFFICES ASSUME NEW s \in SUBSET S, Cardinality(s) = n + 1 PROVE g[s] \in Int
      OBVIOUS
    <3>1. Pick(s) \in s /\ g[s] = Pick(s).data + g[s \ {Pick(s)}] /\ Cardinality(s \ {Pick(s)}) = n
      BY <1>5
    <3>2. g[s \ {Pick(s)}] \in Int /\ Pick(s).data \in Int
      BY <2>2, <3>1
    <3> QED BY <3>1, <3>2
  <2> HIDE DEF Q
  <2> QED BY <2>1, <2>2, NumberInduction
<1>8. \A s \in SUBSET S : g[s] \in Int
  BY <1>2, <1>7
<1>9. ASSUME NEW n \in Nat, n \in R PROVE n + 1 \in R
  <2> SUFFICES ASSUME NEW s \in SUBSET S, Cardinality(s) = n + 1, NEW x \in s
               PROVE  g[s] = x.data + g[s \ {x}]
    OBVIOUS
  <2> DEFINE c == Pick(s)
  <2>1. /\ c \in s /\ g[s] = c.data + g[s \ {c}]
        /\ \A y \in s : Cardinality(s \ {y}) = n /\ y.data \in Int
    BY <1>5
  <2> HIDE DEF c
  <2>2. \A y, z \in s : y # z => g[s \ {y}] = z.data + g[(s \ {y}) \ {z}]
    BY <1>9, <2>1
  <2>3. CASE x = c
    BY <2>1, <2>3
  <2>4. CASE x # c
    <3> DEFINE rest == (s \ {c}) \ {x}
    <3>1. g[s \ {c}] = x.data + g[rest] /\ g[s \ {x}] = c.data + g[rest]
      <4>1. rest = (s \ {x}) \ {c}
        OBVIOUS
      <4> QED BY <2>1, <2>2, <2>4, <4>1
    <3>2. g[rest] \in Int /\ c.data \in Int /\ x.data \in Int
      BY <1>8, <2>1
    <3> HIDE DEF rest
    <3> QED BY <2>1, <3>1, <3>2
  <2> QED BY <2>3, <2>4
<1>10. \A n \in Nat : n \in R
  <2>1. 0 \in R
    BY <1>6
  <2> HIDE DEF R
  <2> QED BY <1>9, <2>1, NumberInduction
<1>11. \A s \in SUBSET S : \A x \in s : g[s] = x.data + g[s \ {x}]
  BY <1>2, <1>10
<1> QED BY <1>2, <1>8, <1>11

\* Totals are numbers.
LEMMA TotalInt ==
    ASSUME NEW S, IsFiniteSet(S), \A r \in S : r.data \in Int
    PROVE  Total(S) \in Int
<1>1. CASE S = {}
  BY <1>1, TotalEmpty
<1>2. CASE S # {}
  <2>1. PICK r \in S : TRUE
    BY <1>2
  <2> QED BY <2>1, TotalWithout
<1> QED BY <1>1, <1>2

\* The total of two sets without a common member.
LEMMA TotalOfBoth ==
    ASSUME NEW A, IsFiniteSet(A), \A r \in A : r.data \in Int,
           NEW B, IsFiniteSet(B), \A r \in B : r.data \in Int, A \cap B = {}
    PROVE  Total(A \cup B) = Total(A) + Total(B)
<1> DEFINE P == {T \in SUBSET B : Total(A \cup T) = Total(A) + Total(T)}
<1>1. Total(A) \in Int
  BY TotalInt
<1>2. {} \in P
  BY <1>1, TotalEmpty
<1>3. ASSUME NEW T \in SUBSET B, NEW r \in B \ T, T \in P PROVE T \cup {r} \in P
  <2>1. IsFiniteSet(T) /\ IsFiniteSet(T \cup {r})
    BY FS_Subset
  <2>2. IsFiniteSet(A \cup (T \cup {r}))
    BY <2>1, FS_Union
  <2>3. (T \cup {r}) \ {r} = T /\ (A \cup (T \cup {r})) \ {r} = A \cup T
    OBVIOUS
  <2>4. Total(T \cup {r}) = r.data + Total(T) /\ Total(T) \in Int
    BY <2>1, <2>3, TotalWithout
  <2>5. Total(A \cup (T \cup {r})) = r.data + Total(A \cup T)
    BY <2>2, <2>3, TotalWithout
  <2>6. r.data \in Int /\ Total(A) \in Int /\ Total(A \cup T) = Total(A) + Total(T)
    BY <1>1, <1>3
  <2> QED BY <2>4, <2>5, <2>6
<1>4. B \in P
  <2> HIDE DEF P
  <2> QED BY <1>2, <1>3, SubsetInduction
<1> QED BY <1>4

\* Total and number of each part of S are in Ok, and adding keeps them there.
PartsIn(S, part, Ok) ==
    /\ \A p, q \in Ok : <<p[1] + q[1], p[2] + q[2]>> \in Ok
    /\ \A k \in S : LET P == {r \in S : part[r] = part[k]}
                    IN  <<Total(P), Cardinality(P)>> \in Ok

\* What holds of total and number of each part of a set holds of the whole, if adding
\* keeps it.
LEMMA PartsAddUp ==
    ASSUME NEW S, IsFiniteSet(S), S # {}, \A r \in S : r.data \in Int,
           NEW part, NEW Ok, PartsIn(S, part, Ok)
    PROVE  <<Total(S), Cardinality(S)>> \in Ok
<1> DEFINE Parts == {part[r] : r \in S}
           Of(U) == {r \in S : part[r] \in U}
           P == {U \in SUBSET Parts : U # {} => <<Total(Of(U)), Cardinality(Of(U))>> \in Ok}
<1>1. IsFiniteSet(Parts)
  <2> DEFINE f == [r \in S |-> part[r]]
  <2>1. f \in Surjection(S, Parts)
    BY DEF Surjection
  <2> QED BY <2>1, FS_Surjection
<1>2. {} \in P
  OBVIOUS
<1>3. ASSUME NEW U \in SUBSET Parts, NEW k \in Parts \ U, U \in P PROVE U \cup {k} \in P
  <2> DEFINE new == {r \in S : part[r] = k}
  <2>1. PICK x \in S : k = part[x]
    OBVIOUS
  <2>2. <<Total(new), Cardinality(new)>> \in Ok
    BY <2>1 DEF PartsIn
  <2>3. Of(U \cup {k}) = Of(U) \cup new /\ Of(U) \cap new = {} /\ Of(U) \subseteq S /\ new \subseteq S
    OBVIOUS
  <2>4. CASE U = {}
    <3>1. Of(U \cup {k}) = new
      BY <2>4
    <3> QED BY <2>2, <3>1
  <2>5. CASE U # {}
    <3>1. <<Total(Of(U)), Cardinality(Of(U))>> \in Ok
      BY <1>3, <2>5
    <3> DEFINE old == Of(U)
    <3>2. IsFiniteSet(old) /\ IsFiniteSet(new)
      BY FS_Subset
    <3>3. Total(old \cup new) = Total(old) + Total(new)
      <4> HIDE DEF old, new
      <4> QED BY <2>3, <3>2, TotalOfBoth DEF old, new
    <3>4. Cardinality(old \cup new) = Cardinality(old) + Cardinality(new)
      <4>1. old \cap new = {}
        OBVIOUS
      <4> HIDE DEF old, new
      <4>2. Cardinality({}) = 0 /\ Cardinality(old) \in Nat /\ Cardinality(new) \in Nat
        BY <3>2, FS_EmptySet, FS_CardinalityType
      <4>3. Cardinality(old \cup new) = Cardinality(old) + Cardinality(new) - Cardinality(old \cap new)
        BY <3>2, FS_Union
      <4>4. Cardinality(old \cap new) = 0
        BY <4>1, <4>2
      <4> QED BY <4>2, <4>3, <4>4
    <3>5. <<Total(old) + Total(new), Cardinality(old) + Cardinality(new)>> \in Ok
      <4> DEFINE p == <<Total(old), Cardinality(old)>>
                 q == <<Total(new), Cardinality(new)>>
      <4>1. p \in Ok /\ q \in Ok
        BY <2>2, <3>1
      <4>2. <<p[1] + q[1], p[2] + q[2]>> \in Ok
        BY <4>1 DEF PartsIn
      <4> QED BY <4>2
    <3> QED BY <2>3, <3>3, <3>4, <3>5
  <2> QED BY <2>4, <2>5
<1>4. Parts \in P
  <2> HIDE DEF P, Parts
  <2> QED BY <1>1, <1>2, <1>3, SubsetInduction
<1>5. Parts # {} /\ Of(Parts) = S
  OBVIOUS
<1> QED BY <1>4, <1>5

-----------------------------------------------------------------------------
(* Times.                                                                  *)

\* Quotient and remainder.
LEMMA Division ==
    ASSUME NEW a \in Int, NEW b \in Nat \ {0}
    PROVE  a \div b \in Int /\ a % b \in 0..(b - 1) /\ a = b * (a \div b) + (a % b)
OBVIOUS

\* Products with a positive number keep the order.
LEMMA Products ==
    ASSUME NEW a \in Int, NEW b \in Int, NEW n \in Nat \ {0}
    PROVE  /\ n * a \in Int /\ n * (a + 1) = n * a + n
           /\ a < b => n * a + n <= n * b
           /\ n * a < n * b => a < b
           /\ n * a = n * b => a = b
OBVIOUS

\* The quotient is the only number that leaves a remainder below the divisor.
LEMMA OneQuotient ==
    ASSUME NEW a \in Int, NEW b \in Nat \ {0}, NEW q \in Int, NEW r \in 0..(b - 1), a = b * q + r
    PROVE  a \div b = q
<1> DEFINE p == a \div b
<1>1. p \in Int /\ a % b \in 0..(b - 1) /\ a = b * p + (a % b)
  BY Division
<1> HIDE DEF p
<1>2. ~(p < q) /\ ~(q < p)
  <2>1. b * p \in Int /\ b * q \in Int /\ b * p - b * q = r - (a % b)
    BY <1>1, Products
  <2>2. p < q => b * p + b <= b * q
    BY <1>1, Products
  <2>3. q < p => b * q + b <= b * p
    BY <1>1, Products
  <2> QED BY <1>1, <2>1, <2>2, <2>3
<1> QED BY <1>1, <1>2 DEF p

\* A time is cut at the start of the hour, day, ... of the zone that it is in.
LEMMA TruncatedTime ==
    ASSUME NEW t \in Int, NEW unit \in Nat \ {0}, NEW zone \in Zone
    PROVE  /\ LocalNumber(t, unit, zone) \in Int /\ DateTrunc(t, unit, zone) \in Int
           /\ DateTrunc(t, unit, zone) = unit * LocalNumber(t, unit, zone) - Offset[zone]
           /\ DateTrunc(t, unit, zone) <= t /\ t < DateTrunc(t, unit, zone) + unit
<1>1. t + Offset[zone] \in Int /\ Offset[zone] \in Int
  BY ZoneAssumption
<1> DEFINE a == t + Offset[zone]
<1>2. a \div unit \in Int /\ a % unit \in 0..(unit - 1) /\ a = unit * (a \div unit) + (a % unit)
  BY <1>1, Division
<1> DEFINE q == a \div unit
           r == a % unit
<1>3. LocalNumber(t, unit, zone) = q /\ DateTrunc(t, unit, zone) = t - r
  BY DEF LocalNumber, DateTrunc
<1>4. unit * q \in Int
  BY <1>2
<1>5. a = t + Offset[zone]
  OBVIOUS
<1> HIDE DEF q, r, a
<1>6. r \in 0..(unit - 1) /\ a = unit * q + r /\ q \in Int
  BY <1>2 DEF q, r
<1> QED BY <1>1, <1>3, <1>4, <1>5, <1>6

\* Two times are cut at the same one, or one unit at least apart.
LEMMA SameOrApart ==
    ASSUME NEW t \in Int, NEW s \in Int, NEW unit \in Nat \ {0}, NEW zone \in Zone
    PROVE  /\ DateTrunc(t, unit, zone) = DateTrunc(s, unit, zone)
                <=> LocalNumber(t, unit, zone) = LocalNumber(s, unit, zone)
           /\ DateTrunc(t, unit, zone) < DateTrunc(s, unit, zone)
                => DateTrunc(t, unit, zone) + unit <= DateTrunc(s, unit, zone)
           /\ DateTrunc(t, unit, zone) = DateTrunc(s, unit, zone)
                <=> DateTrunc(t, unit, zone) <= s /\ s < DateTrunc(t, unit, zone) + unit
<1> DEFINE m == LocalNumber(t, unit, zone)
           n == LocalNumber(s, unit, zone)
           c == DateTrunc(t, unit, zone)
           d == DateTrunc(s, unit, zone)
<1>1. /\ m \in Int /\ n \in Int /\ c \in Int /\ d \in Int
      /\ c = unit * m - Offset[zone] /\ d = unit * n - Offset[zone]
      /\ d <= s /\ s < d + unit
  BY TruncatedTime
<1>2. Offset[zone] \in Int
  BY ZoneAssumption
<1> HIDE DEF m, n, c, d
<1>3. /\ unit * m \in Int /\ unit * n \in Int
      /\ m < n => unit * m + unit <= unit * n
      /\ n < m => unit * n + unit <= unit * m
  BY <1>1, Products
<1>4. c = d <=> m = n
  BY <1>1, <1>2, <1>3
<1>5. c < d => c + unit <= d
  BY <1>1, <1>2, <1>3
<1>6. d < c => d + unit <= c
  BY <1>1, <1>2, <1>3
<1>7. c = d <=> c <= s /\ s < c + unit
  BY <1>1, <1>5, <1>6
<1> QED BY <1>4, <1>5, <1>7 DEF m, n, c, d

\* Times that are in the same unit are in the same larger one.
LEMMA Coarser ==
    ASSUME NEW t \in Int, NEW s \in Int, NEW unit \in Nat \ {0}, NEW length \in Nat \ {0},
           length % unit = 0, NEW zone \in Zone,
           DateTrunc(t, unit, zone) = DateTrunc(s, unit, zone)
    PROVE  DateTrunc(t, length, zone) = DateTrunc(s, length, zone)
<1> DEFINE k == length \div unit
           n == LocalNumber(t, unit, zone)
<1>1. k \in Int /\ length = unit * k
  BY Division
<1>2. k \in Nat \ {0}
  <2>1. ~(k < 1)
    <3> HIDE DEF k
    <3> SUFFICES ASSUME k < 1 PROVE FALSE
      OBVIOUS
    <3>1. k = 0 \/ unit * k + unit <= unit * 0
      BY <1>1, Products
    <3> QED BY <1>1, <3>1
  <2> QED BY <1>1, <2>1
<1>3. n \in Int /\ LocalNumber(s, unit, zone) = n
  BY SameOrApart, TruncatedTime
<1> DEFINE q == n \div k
           r == n % k
<1> HIDE DEF k, n
<1>4. q \in Int /\ r \in 0..(k - 1) /\ n = k * q + r
  BY <1>2, <1>3, Division
<1> HIDE DEF q, r
<1>5. ASSUME NEW x \in Int, LocalNumber(x, unit, zone) = n
      PROVE  LocalNumber(x, length, zone) = q
  <2> DEFINE a == x + Offset[zone]
             b == a % unit
  <2>1. a \in Int
    BY ZoneAssumption
  <2>2. b \in 0..(unit - 1) /\ a = unit * n + b
    BY <1>5, <2>1, Division DEF LocalNumber
  <2> HIDE DEF a, b
  <2>3. unit * n = length * q + unit * r
    BY <1>1, <1>2, <1>3, <1>4
  <2>4. unit * r \in Int /\ unit * r >= 0 /\ unit * r + unit <= length
    <3>1. r < k /\ r \in Int /\ r >= 0
      BY <1>2, <1>4
    <3>2. unit * r + unit <= unit * k
      BY <1>2, <3>1, Products
    <3>3. unit * r >= 0
      BY <3>1
    <3> QED BY <1>1, <3>1, <3>2, <3>3
  <2>5. a = length * q + (unit * r + b) /\ unit * r + b \in 0..(length - 1)
    BY <1>3, <1>4, <2>1, <2>2, <2>3, <2>4, Products
  <2>6. a \div length = q
    BY <1>4, <2>1, <2>5, OneQuotient
  <2> QED BY <2>6 DEF a, LocalNumber
<1>6. LocalNumber(t, length, zone) = LocalNumber(s, length, zone)
  BY <1>3, <1>5 DEF n
<1> QED BY <1>6, SameOrApart

-----------------------------------------------------------------------------
(* Averages.                                                               *)

\* Total and number of numbers whose rounded mean is m or more, and M or less.
AtLeast(m) == {p \in Int \X (Nat \ {0}) :
                  \/ p[2] * (2 * m - 1) < 2 * p[1]
                  \/ p[2] * (2 * m - 1) = 2 * p[1] /\ m % 2 = 0}

AtMost(M) == {p \in Int \X (Nat \ {0}) :
                 \/ 2 * p[1] < p[2] * (2 * M + 1)
                 \/ 2 * p[1] = p[2] * (2 * M + 1) /\ M % 2 = 0}

\* The rounded mean is compared with a number by the sign of a linear term.
LEMMA Rounding ==
    ASSUME NEW sum \in Int, NEW n \in Nat \ {0}, NEW m \in Int
    PROVE  /\ RoundedMean(sum, n) \in Int
           /\ m <= RoundedMean(sum, n) <=> <<sum, n>> \in AtLeast(m)
           /\ RoundedMean(sum, n) <= m <=> <<sum, n>> \in AtMost(m)
<1> DEFINE q == sum \div n
           r == sum % n
           R == RoundedMean(sum, n)
<1>1. q \in Int /\ r \in 0..(n - 1) /\ sum = n * q + r
  BY Division
<1>2. \/ R = q + 1 /\ (2 * r > n \/ (2 * r = n /\ q % 2 = 1))
      \/ R = q /\ (2 * r < n \/ (2 * r = n /\ q % 2 = 0))
  <2>1. R = IF 2 * r > n \/ (2 * r = n /\ q % 2 = 1) THEN q + 1 ELSE q
    BY DEF RoundedMean
  <2>2. q % 2 \in {0, 1}
    BY <1>1
  <2> HIDE DEF q, r, R
  <2> QED BY <1>1, <2>1, <2>2
<1> DEFINE T(k) == n * (2 * k - 1) < 2 * sum \/ (n * (2 * k - 1) = 2 * sum /\ k % 2 = 0)
<1> HIDE DEF q, r, R
<1>3. R \in Int
  BY <1>1, <1>2
<1>4. ASSUME NEW k \in Int PROVE k <= R <=> T(k)
  <2> DEFINE a == n * (2 * k - 1)
             b == n * q
  <2>1. b \in Int /\ sum = b + r
    BY <1>1
  <2>2. a \in Int
    OBVIOUS
  <2>3. /\ k <= q => a + n <= 2 * b
        /\ k = q + 1 => a = 2 * b + n
        /\ k >= q + 2 => a >= 2 * b + 3 * n
    <3>1. a = 2 * (n * k) - n /\ n * k \in Int
      OBVIOUS
    <3>2. k <= q => n * k <= b
      BY <1>1, Products
    <3>3. k = q + 1 => n * k = b + n
      BY <1>1, Products
    <3>4. k >= q + 2 => n * k >= b + 2 * n
      <4> SUFFICES ASSUME k >= q + 2 PROVE n * k >= b + 2 * n
        OBVIOUS
      <4>1. q + 1 \in Int /\ q + 1 < k /\ n * (q + 1) = n * q + n
        BY <1>1, Products
      <4>2. n * (q + 1) + n <= n * k
        BY <4>1, Products
      <4> QED BY <2>1, <3>1, <4>1, <4>2
    <3> HIDE DEF a, b
    <3> QED BY <2>1, <3>1, <3>2, <3>3, <3>4
  <2>4. k = q + 1 => (k % 2 = 0 <=> q % 2 = 1)
    BY <1>1
  <2>5. T(k) <=> a < 2 * sum \/ (a = 2 * sum /\ k % 2 = 0)
    OBVIOUS
  <2> HIDE DEF a, b, T
  <2>6. CASE k <= q
    BY <1>1, <1>2, <2>1, <2>2, <2>3, <2>5, <2>6
  <2>7. CASE k = q + 1
    BY <1>1, <1>2, <2>1, <2>2, <2>3, <2>4, <2>5, <2>7
  <2>8. CASE k >= q + 2
    BY <1>1, <1>2, <2>1, <2>2, <2>3, <2>5, <2>8
  <2> QED BY <1>1, <2>6, <2>7, <2>8
<1>5. m <= R <=> <<sum, n>> \in AtLeast(m)
  BY <1>4 DEF AtLeast
<1>6. R <= m <=> <<sum, n>> \in AtMost(m)
  <2>1. R <= m <=> ~T(m + 1)
    <3> HIDE DEF T
    <3> QED BY <1>3, <1>4
  <2>2. 2 * (m + 1) - 1 = 2 * m + 1 /\ n * (2 * m + 1) \in Int
    OBVIOUS
  <2>3. (m + 1) % 2 = 0 <=> m % 2 # 0
    OBVIOUS
  <2> DEFINE c == n * (2 * m + 1)
  <2>4. T(m + 1) <=> c < 2 * sum \/ (c = 2 * sum /\ m % 2 # 0)
    BY <2>2, <2>3
  <2>5. <<sum, n>> \in AtMost(m) <=> 2 * sum < c \/ (2 * sum = c /\ m % 2 = 0)
    BY DEF AtMost
  <2> HIDE DEF c, T
  <2> QED BY <2>1, <2>2, <2>4, <2>5 DEF c
<1> QED BY <1>3, <1>5, <1>6 DEF R

\* Adding keeps a mean between its bounds.
LEMMA BoundsAdd ==
    ASSUME NEW m \in Int
    PROVE  /\ \A p, q \in AtLeast(m) : <<p[1] + q[1], p[2] + q[2]>> \in AtLeast(m)
           /\ \A p, q \in AtMost(m) : <<p[1] + q[1], p[2] + q[2]>> \in AtMost(m)
<1>1. ASSUME NEW a \in Nat \ {0}, NEW b \in Nat \ {0}, NEW k \in Int
      PROVE  (a + b) * k = a * k + b * k /\ a * k \in Int /\ b * k \in Int
  OBVIOUS
<1>2. ASSUME NEW p \in AtLeast(m), NEW q \in AtLeast(m)
      PROVE  <<p[1] + q[1], p[2] + q[2]>> \in AtLeast(m)
  <2> DEFINE k == 2 * m - 1
  <2>1. p[1] \in Int /\ p[2] \in Nat \ {0} /\ q[1] \in Int /\ q[2] \in Nat \ {0} /\ k \in Int
    BY DEF AtLeast
  <2>2. /\ p[2] * k < 2 * p[1] \/ (p[2] * k = 2 * p[1] /\ m % 2 = 0)
        /\ q[2] * k < 2 * q[1] \/ (q[2] * k = 2 * q[1] /\ m % 2 = 0)
    BY DEF AtLeast
  <2>3. <<p[1] + q[1], p[2] + q[2]>> \in Int \X (Nat \ {0})
    BY <2>1
  <2> HIDE DEF k
  <2>4. \/ (p[2] + q[2]) * k < 2 * (p[1] + q[1])
        \/ (p[2] + q[2]) * k = 2 * (p[1] + q[1]) /\ m % 2 = 0
    <3>1. (p[2] + q[2]) * k = p[2] * k + q[2] * k /\ p[2] * k \in Int /\ q[2] * k \in Int
      BY <1>1, <2>1
    <3> QED BY <2>1, <2>2, <3>1
  <2> QED BY <2>3, <2>4 DEF AtLeast, k
<1>3. ASSUME NEW p \in AtMost(m), NEW q \in AtMost(m)
      PROVE  <<p[1] + q[1], p[2] + q[2]>> \in AtMost(m)
  <2> DEFINE k == 2 * m + 1
  <2>1. p[1] \in Int /\ p[2] \in Nat \ {0} /\ q[1] \in Int /\ q[2] \in Nat \ {0} /\ k \in Int
    BY DEF AtMost
  <2>2. /\ 2 * p[1] < p[2] * k \/ (2 * p[1] = p[2] * k /\ m % 2 = 0)
        /\ 2 * q[1] < q[2] * k \/ (2 * q[1] = q[2] * k /\ m % 2 = 0)
    BY DEF AtMost
  <2>3. <<p[1] + q[1], p[2] + q[2]>> \in Int \X (Nat \ {0})
    BY <2>1
  <2> HIDE DEF k
  <2>4. \/ 2 * (p[1] + q[1]) < (p[2] + q[2]) * k
        \/ 2 * (p[1] + q[1]) = (p[2] + q[2]) * k /\ m % 2 = 0
    <3>1. (p[2] + q[2]) * k = p[2] * k + q[2] * k /\ p[2] * k \in Int /\ q[2] * k \in Int
      BY <1>1, <2>1
    <3> QED BY <2>1, <2>2, <3>1
  <2> QED BY <2>3, <2>4 DEF AtMost, k
<1> QED BY <1>2, <1>3

-----------------------------------------------------------------------------
(* Sorting.                                                                *)

\* Points with different dates have one order.
LEMMA SortedPoints ==
    ASSUME NEW S, IsFiniteSet(S), \A p \in S : p.date \in Int,
           \A p, q \in S : p.date = q.date => p = q
    PROVE  /\ Cardinality(S) \in Nat
           /\ Sorted(S) \in [1..Cardinality(S) -> S]
           /\ \A i, j \in 1..Cardinality(S) : i < j => Sorted(S)[i].date < Sorted(S)[j].date
           /\ \A p \in S : \E i \in 1..Cardinality(S) : Sorted(S)[i] = p
<1> DEFINE n == Cardinality(S)
           before(p) == {q \in S : q.date < p.date}
           rank == [p \in S |-> Cardinality(before(p)) + 1]
<1>1. n \in Nat /\ IsFiniteSet(1..n) /\ Cardinality(1..n) = n
  <2>1. n \in Nat
    BY FS_CardinalityType
  <2>2. IsFiniteSet(1..n) /\ Cardinality(1..n) = IF 1 > n THEN 0 ELSE n - 1 + 1
    <3> HIDE DEF n
    <3> QED BY <2>1, FS_Interval
  <2> HIDE DEF n
  <2> QED BY <2>1, <2>2
<1>2. ASSUME NEW p \in S
      PROVE  /\ IsFiniteSet(before(p)) /\ Cardinality(before(p)) \in Nat
             /\ IsFiniteSet(before(p) \cup {p})
             /\ Cardinality(before(p) \cup {p}) = Cardinality(before(p)) + 1
  <2>1. IsFiniteSet(before(p))
    BY FS_Subset
  <2>2. p \notin before(p)
    OBVIOUS
  <2> HIDE DEF before
  <2> QED BY <2>1, <2>2, FS_AddElement, FS_CardinalityType
<1>3. ASSUME NEW p \in S, NEW q \in S, p.date < q.date PROVE rank[p] < rank[q]
  <2>1. before(p) \cup {p} \in SUBSET before(q)
    BY <1>3
  <2>2. Cardinality(before(p) \cup {p}) <= Cardinality(before(q))
    BY <1>2, <2>1, FS_Subset
  <2>3. rank[p] = Cardinality(before(p)) + 1 /\ rank[q] = Cardinality(before(q)) + 1
    OBVIOUS
  <2>4. /\ Cardinality(before(p)) \in Nat /\ Cardinality(before(q)) \in Nat
        /\ Cardinality(before(p) \cup {p}) = Cardinality(before(p)) + 1
    BY <1>2
  <2> HIDE DEF before, rank
  <2> QED BY <2>2, <2>3, <2>4
<1>4. rank \in [S -> 1..n]
  <2> SUFFICES ASSUME NEW p \in S PROVE Cardinality(before(p)) + 1 \in 1..n
    OBVIOUS
  <2>1. before(p) \cup {p} \in SUBSET S
    OBVIOUS
  <2>2. Cardinality(before(p) \cup {p}) <= n
    BY <2>1, FS_Subset
  <2> HIDE DEF before, n
  <2> QED BY <1>1, <1>2, <2>2
<1> HIDE DEF rank
<1>5. \A p, q \in S : rank[p] = rank[q] => p = q
  <2> SUFFICES ASSUME NEW p \in S, NEW q \in S, rank[p] = rank[q] PROVE p = q
    OBVIOUS
  <2>1. rank[p] \in Int /\ rank[q] \in Int
    BY <1>1, <1>4
  <2>2. ~(p.date < q.date) /\ ~(q.date < p.date)
    BY <1>3, <2>1
  <2> QED BY <2>2
<1>6. \A i \in 1..n : \E p \in S : rank[p] = i
  <2>1. rank \in Injection(S, 1..n)
    BY <1>4, <1>5 DEF Injection, IsInjective
  <2>2. rank \in Surjection(S, 1..n)
    BY <1>1, <2>1, FS_Injection
  <2> QED BY <2>2 DEF Surjection
<1> DEFINE Ordered(s) == \A i, j \in 1..n : i < j => s[i].date < s[j].date
<1>7. \E s \in [1..n -> S] : Ordered(s)
  <2> DEFINE s == [i \in 1..n |-> CHOOSE p \in S : rank[p] = i]
  <2>1. \A i \in 1..n : s[i] \in S /\ rank[s[i]] = i
    BY <1>6
  <2>2. s \in [1..n -> S]
    BY <2>1
  <2>3. ASSUME NEW i \in 1..n, NEW j \in 1..n, i < j PROVE s[i].date < s[j].date
    <3> DEFINE a == s[i]
               b == s[j]
    <3>1. a \in S /\ b \in S /\ rank[a] = i /\ rank[b] = j
      BY <2>1
    <3> HIDE DEF a, b, s, n
    <3>2. a.date # b.date
      BY <1>1, <2>3, <3>1
    <3>3. ~(b.date < a.date)
      BY <1>1, <1>3, <2>3, <3>1
    <3>4. a.date \in Int /\ b.date \in Int
      BY <3>1
    <3>5. a.date < b.date
      BY <3>2, <3>3, <3>4
    <3> QED BY <3>5 DEF a, b
  <2> HIDE DEF s
  <2> QED BY <2>2, <2>3
<1>8. Sorted(S) \in [1..n -> S] /\ Ordered(Sorted(S))
  BY <1>7, Zenon DEF Sorted
<1>9. \A p \in S : \E i \in 1..n : Sorted(S)[i] = p
  <2> DEFINE s == Sorted(S)
  <2> HIDE DEF s, n
  <2>1. s \in [1..n -> S] /\ \A i, j \in 1..n : i < j => s[i].date < s[j].date
    BY <1>8 DEF s, n
  <2>2. \A i, j \in 1..n : s[i] = s[j] => i = j
    <3> SUFFICES ASSUME NEW i \in 1..n, NEW j \in 1..n, s[i] = s[j] PROVE i = j
      OBVIOUS
    <3>1. s[i].date \in Int /\ s[i].date = s[j].date
      BY <2>1
    <3>2. ~(i < j) /\ ~(j < i)
      BY <2>1, <3>1
    <3> QED BY <1>1, <3>2
  <2>3. s \in Injection(1..n, S)
    BY <2>1, <2>2 DEF Injection, IsInjective
  <2>4. s \in Surjection(1..n, S)
    <3>1. Cardinality(1..n) = Cardinality(S)
      BY <1>1 DEF n
    <3> QED BY <2>3, <3>1, FS_Injection
  <2> QED BY <2>4 DEF Surjection, s
<1> QED BY <1>1, <1>8, <1>9

-----------------------------------------------------------------------------
(* Smallest and largest.                                                   *)

\* A finite set of numbers has a smallest and a largest.
LEMMA MinMax ==
    ASSUME NEW S \in SUBSET Int, IsFiniteSet(S), S # {}
    PROVE  /\ Min(S) \in S /\ \A x \in S : Min(S) <= x
           /\ Max(S) \in S /\ \A x \in S : x <= Max(S)
<1> DEFINE P == {T \in SUBSET S : T # {} => /\ \E m \in T : \A x \in T : m <= x
                                           /\ \E m \in T : \A x \in T : x <= m}
<1>1. ASSUME NEW T \in SUBSET S, NEW y \in S \ T, T \in P PROVE T \cup {y} \in P
  <2> SUFFICES /\ \E m \in T \cup {y} : \A x \in T \cup {y} : m <= x
               /\ \E m \in T \cup {y} : \A x \in T \cup {y} : x <= m
    OBVIOUS
  <2>1. CASE T = {}
    <3>1. y <= y
      OBVIOUS
    <3> QED BY <2>1, <3>1
  <2>2. CASE T # {}
    <3>1. PICK a \in T : \A x \in T : a <= x
      BY <1>1, <2>2
    <3>2. PICK b \in T : \A x \in T : x <= b
      BY <1>1, <2>2
    <3>3. \E m \in T \cup {y} : \A x \in T \cup {y} : m <= x
      <4>1. CASE a <= y
        BY <3>1, <4>1
      <4>2. CASE y < a
        <5>1. \A x \in T \cup {y} : y <= x
          BY <3>1, <4>2
        <5> QED BY <5>1
      <4> QED BY <4>1, <4>2
    <3>4. \E m \in T \cup {y} : \A x \in T \cup {y} : x <= m
      <4>1. CASE y <= b
        BY <3>2, <4>1
      <4>2. CASE b < y
        <5>1. \A x \in T \cup {y} : x <= y
          BY <3>2, <4>2
        <5> QED BY <5>1
      <4> QED BY <4>1, <4>2
    <3> QED BY <3>3, <3>4
  <2> QED BY <2>1, <2>2
<1>2. {} \in P
  OBVIOUS
<1>3. S \in P
  <2> HIDE DEF P
  <2> QED BY <1>1, <1>2, SubsetInduction
<1>4. \E m \in S : \A x \in S : m <= x
  BY <1>3
<1>5. \E m \in S : \A x \in S : m >= x
  <2>1. \E m \in S : \A x \in S : x <= m
    BY <1>3
  <2> QED BY <2>1
<1>6. Min(S) \in S /\ \A x \in S : Min(S) <= x
  BY <1>4, Zenon DEF Min
<1>7. Max(S) \in S /\ \A x \in S : Max(S) >= x
  BY <1>5, Zenon DEF Max
<1> QED BY <1>6, <1>7

-----------------------------------------------------------------------------
(* The rows of a point.                                                    *)

\* A period is a number of steps.
LEMMA Lengths ==
    ASSUME NEW period \in Grouped
    PROVE  /\ LengthOf(period) \in Nat \ {0} /\ StepOf(period) \in Nat \ {0}
           /\ LengthOf(period) % StepOf(period) = 0
BY CalendarAssumption DEF Grouped, LengthOf, StepOf

\* The rows cut at t, over all rows.
RowsAt(t, unit, zone) == {r \in rows : DateTrunc(r.time, unit, zone) = t}

\* What the numbers of the instance have in common.
DataFinite == IsFiniteSet(rows) /\ rows \subseteq Row /\ now \in Int

\* The fields of a row.
LEMMA RowFields ==
    ASSUME DataFinite, NEW r \in rows
    PROVE  r.time \in Int /\ r.data \in Int \cup {Null} /\ r.id \in Int
<1>1. r \in Row
  BY DEF DataFinite
<1>2. r.time \in (-Hour)..(MaxTime + Hour) /\ r.data \in Value \cup {Null} /\ r.id \in 1..MaxRows
  BY <1>1 DEF Row
<1>3. Hour \in Int /\ MaxTime \in Int /\ MaxRows \in Int
  BY CalendarAssumption, DataBoundsAssumption
<1>4. r.time \in Int /\ r.id \in Int
  BY <1>2, <1>3
<1>5. r.data \in Int \cup {Null}
  BY <1>2, ValueAssumption
<1> QED BY <1>4, <1>5

\* The numbers among some rows.
LEMMA NumbersOf ==
    ASSUME DataFinite, NEW S \in SUBSET rows, NEW element \in Element
    PROVE  /\ IsFiniteSet(Numbers(S, element)) /\ Numbers(S, element) \subseteq S
           /\ \A r \in Numbers(S, element) : r.data \in Int
           /\ Numbers(S, element) # {} => Cardinality(Numbers(S, element)) \in Nat \ {0}
<1>1. Numbers(S, element) \subseteq S /\ \A r \in Numbers(S, element) : r.data # Null
  BY DEF Numbers
<1>2. IsFiniteSet(Numbers(S, element))
  BY <1>1, FS_Subset DEF DataFinite
<1>3. \A r \in Numbers(S, element) : r.data \in Int
  BY <1>1, RowFields
<1>4. Numbers(S, element) # {} => Cardinality(Numbers(S, element)) \in Nat \ {0}
  <2>1. Cardinality(Numbers(S, element)) \in Nat
    BY <1>2, FS_CardinalityType
  <2>2. Cardinality(Numbers(S, element)) = 0 <=> Numbers(S, element) = {}
    BY <1>2, FS_EmptySet
  <2> QED BY <2>1, <2>2
<1> QED BY <1>1, <1>2, <1>3, <1>4

\* The average of some rows, with the total of their numbers.
LEMMA AverageOf ==
    ASSUME DataFinite, NEW S \in SUBSET rows, NEW element \in Element
    PROVE  /\ Numbers(S, element) = {} => Average(S, element) = Null
           /\ Numbers(S, element) # {} =>
                 /\ Average(S, element) = RoundedMean(Total(Numbers(S, element)),
                                                      Cardinality(Numbers(S, element)))
                 /\ Total(Numbers(S, element)) \in Int
                 /\ Cardinality(Numbers(S, element)) \in Nat \ {0}
                 /\ Average(S, element) \in Int /\ Average(S, element) # Null
<1> DEFINE N == Numbers(S, element)
<1>1. IsFiniteSet(N) /\ (\A r \in N : r.data \in Int) /\ (N # {} => Cardinality(N) \in Nat \ {0})
  BY NumbersOf
<1>2. Average(S, element) = IF N = {} THEN Null ELSE RoundedMean(Total(N), Cardinality(N))
  BY Zenon DEF Average, Total
<1> HIDE DEF N
<1>3. Total(N) \in Int
  BY <1>1, TotalInt
<1>4. N # {} => RoundedMean(Total(N), Cardinality(N)) \in Int
  BY <1>1, <1>3, Rounding
<1> QED BY <1>1, <1>2, <1>3, <1>4, ValueAssumption DEF N

\* A point of an answer stands for all rows between its date and the next step.
LEMMA GroupPoints ==
    ASSUME DataFinite, NEW element \in Element, NEW period \in Grouped, NEW zone \in Zone
    PROVE  LET points == Group(Match(period, zone), element, period, zone)
               step == StepOf(period)
           IN  /\ \A p \in points :
                     /\ p.date \in Int /\ RowsAt(p.date, step, zone) # {}
                     /\ RowsAt(p.date, step, zone) \subseteq Match(period, zone)
                     /\ RowsAt(p.date, step, zone)
                          = {r \in rows : p.date <= r.time /\ r.time < p.date + step}
                     /\ p = [date |-> p.date, value |-> Average(RowsAt(p.date, step, zone), element)]
               /\ \A r \in Match(period, zone) :
                     \E p \in points : p.date = DateTrunc(r.time, step, zone)
<1> DEFINE step == StepOf(period)
           length == LengthOf(period)
           matched == Match(period, zone)
           DateOf(r) == DateTrunc(r.time, step, zone)
           dates == {DateOf(r) : r \in matched}
           points == Group(Match(period, zone), element, period, zone)
<1>1. step \in Nat \ {0} /\ length \in Nat \ {0} /\ length % step = 0
  BY Lengths
<1>2. points = {[date |-> t, value |-> Average({r \in matched : DateOf(r) = t}, element)] : t \in dates}
  BY Zenon DEF Group
<1>3. \A r \in rows : r \in matched <=> DateTrunc(now, length, zone) = DateTrunc(r.time, length, zone)
  BY DEF Match
<1>4. matched \subseteq rows
  BY DEF Match
<1> HIDE DEF points, matched, step, length
<1>5. ASSUME NEW r \in matched, NEW s \in rows, DateOf(s) = DateOf(r) PROVE s \in matched
  <2>1. r.time \in Int /\ s.time \in Int
    BY <1>4, RowFields
  <2>2. DateTrunc(s.time, length, zone) = DateTrunc(r.time, length, zone)
    BY <1>1, <1>5, <2>1, Coarser
  <2> QED BY <1>3, <1>4, <2>2
<1>6. ASSUME NEW t \in dates
      PROVE  /\ t \in Int /\ RowsAt(t, step, zone) # {} /\ RowsAt(t, step, zone) \subseteq matched
             /\ RowsAt(t, step, zone) = {r \in matched : DateOf(r) = t}
             /\ RowsAt(t, step, zone) = {r \in rows : t <= r.time /\ r.time < t + step}
  <2>1. PICK r \in matched : t = DateOf(r)
    OBVIOUS
  <2>2. r.time \in Int /\ r \in rows
    BY <1>4, RowFields
  <2>3. t \in Int
    BY <1>1, <2>1, <2>2, TruncatedTime
  <2>4. RowsAt(t, step, zone) = {x \in matched : DateOf(x) = t}
    BY <1>4, <1>5, <2>1 DEF RowsAt
  <2>5. ASSUME NEW x \in rows PROVE DateOf(x) = t <=> t <= x.time /\ x.time < t + step
    <3>1. x.time \in Int
      BY RowFields
    <3>2. DateTrunc(r.time, step, zone) = DateTrunc(x.time, step, zone)
             <=> DateTrunc(r.time, step, zone) <= x.time /\ x.time < DateTrunc(r.time, step, zone) + step
      BY <1>1, <2>2, <3>1, SameOrApart
    <3> QED BY <2>1, <3>2
  <2>6. RowsAt(t, step, zone) = {x \in rows : t <= x.time /\ x.time < t + step}
    BY <2>5 DEF RowsAt
  <2> QED BY <2>1, <2>3, <2>4, <2>6
<1>7. ASSUME NEW p \in points
      PROVE  p.date \in dates /\ p = [date |-> p.date, value |-> Average(RowsAt(p.date, step, zone), element)]
  <2>1. PICK t \in dates : p = [date |-> t, value |-> Average({r \in matched : DateOf(r) = t}, element)]
    BY <1>2
  <2>2. RowsAt(t, step, zone) = {r \in matched : DateOf(r) = t}
    BY <1>6
  <2> HIDE DEF dates
  <2> QED BY <2>1, <2>2
<1>8. ASSUME NEW r \in matched PROVE \E p \in points : p.date = DateOf(r)
  <2> DEFINE t == DateOf(r)
             p == [date |-> t, value |-> Average({x \in matched : DateOf(x) = t}, element)]
  <2>1. t \in dates
    OBVIOUS
  <2>2. p \in points
    BY <1>2, <2>1
  <2>3. p.date = t
    OBVIOUS
  <2> QED BY <2>2, <2>3
<1>9. \A p \in points :
         /\ p.date \in Int /\ RowsAt(p.date, step, zone) # {}
         /\ RowsAt(p.date, step, zone) \subseteq matched
         /\ RowsAt(p.date, step, zone) = {r \in rows : p.date <= r.time /\ r.time < p.date + step}
         /\ p = [date |-> p.date, value |-> Average(RowsAt(p.date, step, zone), element)]
  <2> HIDE DEF dates
  <2> QED BY <1>6, <1>7
<1> QED BY <1>8, <1>9 DEF points, matched, step

-----------------------------------------------------------------------------
(* Answers.                                                                *)

\* What GetData sorts.
DataPoints(element, period, zone) ==
    IF period \in Grouped THEN Group(Match(period, zone), element, period, zone) ELSE Ungrouped

\* The points of an answer are finite in number, and no date comes twice.
LEMMA FinitePoints ==
    ASSUME DataFinite, NEW element \in Element, NEW period \in Period, NEW zone,
           period \in Grouped => zone \in Zone
    PROVE  LET points == DataPoints(element, period, zone)
           IN  /\ IsFiniteSet(points) /\ points \subseteq Point
               /\ \A p, q \in points : p.date = q.date => p = q
<1> DEFINE points == DataPoints(element, period, zone)
<1>1. CASE period \in Grouped
  <2> DEFINE step == StepOf(period)
             matched == Match(period, zone)
             DateOf(r) == DateTrunc(r.time, step, zone)
             f == [r \in matched |-> [date |-> DateOf(r),
                                     value |-> Average(RowsAt(DateOf(r), step, zone), element)]]
  <2>1. points = Group(matched, element, period, zone)
    BY <1>1 DEF DataPoints
  <2>2. points = {[date |-> t, value |-> Average({r \in matched : DateOf(r) = t}, element)]
                     : t \in {DateOf(r) : r \in matched}}
    BY <2>1, Zenon DEF Group
  <2>3. ASSUME NEW p \in points
        PROVE  /\ p.date \in Int /\ RowsAt(p.date, step, zone) \subseteq rows
               /\ p = [date |-> p.date, value |-> Average(RowsAt(p.date, step, zone), element)]
    <3>1. RowsAt(p.date, step, zone) \subseteq rows
      BY DEF RowsAt
    <3>2. zone \in Zone
      BY <1>1
    <3> DEFINE group == Group(matched, element, period, zone)
    <3>3. \A q \in group : /\ q.date \in Int
                           /\ q = [date |-> q.date, value |-> Average(RowsAt(q.date, step, zone), element)]
      BY <1>1, <3>2, GroupPoints
    <3> HIDE DEF points, group
    <3> QED BY <2>1, <3>1, <3>3 DEF group
  <2>4. IsFiniteSet(matched)
    BY FS_Subset DEF DataFinite, Match
  <2>5. points \subseteq {f[r] : r \in matched}
    <3> SUFFICES ASSUME NEW p \in points PROVE \E r \in matched : p = f[r]
      OBVIOUS
    <3> DEFINE dates == {DateOf(r) : r \in matched}
    <3>0. PICK t \in dates : p.date = t
      <4> HIDE DEF dates
      <4>1. PICK t \in dates :
               p = [date |-> t, value |-> Average({r \in matched : DateOf(r) = t}, element)]
        BY <2>2 DEF dates
      <4> QED BY <4>1
    <3>1. PICK r \in matched : p.date = DateOf(r)
      BY <3>0
    <3> HIDE DEF points, matched, step
    <3> QED BY <2>3, <3>1
  <2>6. IsFiniteSet(points)
    <3> DEFINE image == {f[r] : r \in matched}
    <3>1. f \in Surjection(matched, image)
      BY DEF Surjection
    <3> HIDE DEF f, image
    <3>2. IsFiniteSet(image)
      BY <2>4, <3>1, FS_Surjection
    <3> QED BY <2>5, <3>2, FS_Subset DEF image
  <2>7. points \subseteq Point
    <3> SUFFICES ASSUME NEW p \in points PROVE p \in Point
      OBVIOUS
    <3> DEFINE v == Average(RowsAt(p.date, step, zone), element)
    <3>1. p.date \in Int /\ RowsAt(p.date, step, zone) \in SUBSET rows /\ p = [date |-> p.date, value |-> v]
      BY <2>3
    <3>2. v \in Int \cup {Null}
      BY <3>1, AverageOf
    <3> HIDE DEF v
    <3> QED BY <3>1, <3>2 DEF Point
  <2>8. \A p, q \in points : p.date = q.date => p = q
    <3> HIDE DEF points, step
    <3> QED BY <2>3
  <2> QED BY <2>6, <2>7, <2>8
<1>2. CASE period \notin Grouped
  <2> DEFINE f == [r \in rows |-> [date |-> r.id, value |-> Null]]
  <2>1. points = {f[r] : r \in rows}
    BY <1>2 DEF DataPoints, Ungrouped
  <2>2. IsFiniteSet(points)
    <3>1. f \in Surjection(rows, points)
      BY <2>1 DEF Surjection
    <3> HIDE DEF f, points
    <3> QED BY <3>1, FS_Surjection DEF DataFinite
  <2>3. points \subseteq Point
    BY <2>1, RowFields DEF Point
  <2>4. \A p, q \in points : p.date = q.date => p = q
    <3> HIDE DEF points
    <3> QED BY <2>1
  <2> QED BY <2>2, <2>3, <2>4
<1> QED BY <1>1, <1>2

\* The answer has each point once, in the order of the dates.
LEMMA GetDataSorted ==
    ASSUME DataFinite, NEW element \in Element, NEW period \in Period, NEW zone,
           period \in Grouped => zone \in Zone
    PROVE  LET points == DataPoints(element, period, zone)
               s == GetData(element, period, zone)
           IN  /\ DOMAIN s = 1..Cardinality(points) /\ Cardinality(points) \in Nat
               /\ \A i \in DOMAIN s : s[i] \in points
               /\ \A i, j \in DOMAIN s : i < j => s[i].date < s[j].date
               /\ \A p \in points : \E i \in DOMAIN s : s[i] = p
               /\ ToSet(s) = points
<1> DEFINE points == DataPoints(element, period, zone)
           s == GetData(element, period, zone)
<1>1. s = Sorted(points)
  BY Zenon DEF GetData, DataPoints
<1>2. IsFiniteSet(points) /\ points \subseteq Point /\ \A p, q \in points : p.date = q.date => p = q
  BY FinitePoints
<1> HIDE DEF points, s
<1>3. \A p \in points : p.date \in Int
  BY <1>2 DEF Point
<1>4. /\ Cardinality(points) \in Nat
      /\ s \in [1..Cardinality(points) -> points]
      /\ \A i, j \in 1..Cardinality(points) : i < j => s[i].date < s[j].date
      /\ \A p \in points : \E i \in 1..Cardinality(points) : s[i] = p
  BY <1>1, <1>2, <1>3, SortedPoints
<1>5. DOMAIN s = 1..Cardinality(points)
  BY <1>4
<1>6. ToSet(s) = points
  BY <1>4, <1>5 DEF ToSet
<1> QED BY <1>4, <1>5, <1>6 DEF points, s

-----------------------------------------------------------------------------
(* The invariant.                                                          *)

\* An answer is the one to the data that there are.
ChartAnswers ==
    chart # Null =>
       \E element \in Element, period \in Period, zone \in Zone \cup {UnknownZone} :
          /\ period \in Grouped => zone \in Zone
          /\ chart = [element |-> element, period |-> period, zone |-> zone,
                      points |-> GetData(element, period, zone)]

DataIInv == DataTypeOK /\ IsFiniteSet(rows) /\ ChartAnswers

\* What the lemmas on answers need.
LEMMA DataInvFinite == DataIInv => DataFinite
BY DataBoundsAssumption DEF DataIInv, DataTypeOK, DataFinite

\* The invariant at the start.
LEMMA DataInitIInv == DataInit => DataIInv
BY FS_EmptySet, DataBoundsAssumption DEF DataInit, DataIInv, DataTypeOK, ChartAnswers

\* There is a fresh id while there are fewer than MaxRows rows.
LEMMA FreshId ==
    ASSUME DataFinite, Cardinality(rows) < MaxRows
    PROVE  \E i \in 1..MaxRows : \A r \in rows : r.id # i
<1> DEFINE ids == {r.id : r \in rows}
           f == [r \in rows |-> r.id]
<1>1. MaxRows \in Nat
  BY DataBoundsAssumption
<1>2. f \in Surjection(rows, ids)
  BY DEF Surjection
<1>3. IsFiniteSet(ids) /\ Cardinality(ids) <= Cardinality(rows)
  <2> HIDE DEF f, ids
  <2> QED BY <1>2, FS_Surjection DEF DataFinite
<1>4. IsFiniteSet(1..MaxRows) /\ Cardinality(1..MaxRows) = MaxRows
  <2>1. Cardinality(1..MaxRows) = IF 1 > MaxRows THEN 0 ELSE MaxRows - 1 + 1
    BY <1>1, FS_Interval
  <2>2. Cardinality(1..MaxRows) = MaxRows
    BY <1>1, <2>1
  <2> QED BY <1>1, <2>2, FS_Interval
<1>5. Cardinality(ids) \in Nat /\ Cardinality(rows) \in Nat
  BY <1>3, FS_CardinalityType DEF DataFinite
<1>6. ~(1..MaxRows \subseteq ids)
  <2> SUFFICES ASSUME 1..MaxRows \subseteq ids PROVE FALSE
    OBVIOUS
  <2>1. Cardinality(1..MaxRows) <= Cardinality(ids)
    <3> HIDE DEF ids
    <3> QED BY <1>3, FS_Subset
  <2> HIDE DEF ids
  <2> QED BY <1>1, <1>3, <1>4, <1>5, <2>1
<1> QED BY <1>6

\* A reading is saved.
LEMMA SaveStep ==
    ASSUME DataIInv, NEW d \in Sensor, NEW clock \in {now, now + Hour}, NEW v \in Value,
           SaveDataMessage(d, clock, v)
    PROVE  DataIInv'
<1> DEFINE id == CHOOSE i \in 1..MaxRows : \A r \in rows : r.id # i
           data == IF d \in DHT THEN v ELSE Null
           row == [id |-> id, topicId |-> d, time |-> ToUTC(clock), data |-> data]
<1>1. id \in 1..MaxRows
  <2>1. Cardinality(rows) < MaxRows
    BY DEF SaveDataMessage
  <2> QED BY <2>1, DataInvFinite, FreshId
<1>2. ToUTC(clock) \in (-Hour)..(MaxTime + Hour)
  <2>1. now \in 0..MaxTime /\ Hour \in Nat /\ MaxTime \in Nat
    BY CalendarAssumption, DataBoundsAssumption DEF DataIInv, DataTypeOK
  <2>2. clock \in 0..(MaxTime + Hour)
    BY <2>1
  <2>3. ToUTC(clock) \in {clock, clock - Hour}
    BY DEF ToUTC
  <2> QED BY <2>1, <2>2, <2>3
<1>3. data \in Value \cup {Null}
  OBVIOUS
<1>4. rows' = rows \cup {row} /\ chart' = Null /\ now' = now
  BY DEF SaveDataMessage
<1> HIDE DEF id, data
<1>5. row \in Row
  BY <1>1, <1>2, <1>3 DEF Row
<1> HIDE DEF row
<1>6. IsFiniteSet(rows')
  BY <1>4, FS_AddElement DEF DataIInv
<1> QED BY <1>4, <1>5, <1>6 DEF DataIInv, DataTypeOK, ChartAnswers

\* An answer is given.
LEMMA GetDataStep ==
    ASSUME DataIInv, NEW element \in Element, NEW period \in Period \cup {Null},
           NEW tz \in Zone \cup {Null, UnknownZone}, GetElementData(element, period, tz)
    PROVE  DataIInv'
<1> DEFINE asked == IF period = Null THEN "day" ELSE period
           zone == IF tz = Null THEN ServiceZone ELSE tz
           given == GetData(element, asked, zone)
<1>1. /\ asked \in Grouped => zone # UnknownZone
      /\ chart' = [element |-> element, period |-> asked, zone |-> zone, points |-> given]
      /\ now' = now /\ rows' = rows
  BY Zenon DEF GetElementData
<1>2. asked \in Period /\ zone \in Zone \cup {UnknownZone} /\ (asked \in Grouped => zone \in Zone)
  BY <1>1, ZoneAssumption DEF Period, Grouped
<1>3. GetData(element, asked, zone)' = given
  BY <1>1 DEF GetData, Group, Match, Ungrouped
<1>4. \A i \in DOMAIN given : given[i] \in Point
  <2> HIDE DEF asked, zone
  <2> DEFINE points == DataPoints(element, asked, zone)
  <2>1. \A i \in DOMAIN given : given[i] \in points
    BY <1>2, DataInvFinite, GetDataSorted
  <2>2. points \subseteq Point
    BY <1>2, DataInvFinite, FinitePoints
  <2> HIDE DEF given, points
  <2> QED BY <2>1, <2>2
<1>5. ChartAnswers'
  <2> HIDE DEF asked, zone
  <2> QED BY <1>1, <1>2, <1>3 DEF ChartAnswers
<1> HIDE DEF given, asked, zone
<1>6. DataTypeOK'
  <2>1. chart'.points = given
    BY <1>1
  <2> QED BY <1>1, <1>4, <2>1 DEF DataIInv, DataTypeOK
<1> QED BY <1>1, <1>5, <1>6 DEF DataIInv

\* The invariant in every step.
LEMMA DataInvariance == DataIInv /\ [DataNext]_dataVars => DataIInv'
<1> SUFFICES ASSUME DataIInv, [DataNext]_dataVars PROVE DataIInv'
  OBVIOUS
<1>1. CASE Tick
  BY <1>1, DataBoundsAssumption DEF Tick, DataIInv, DataTypeOK, ChartAnswers
<1>2. CASE \E d \in Sensor : RemoveData(d)
  <2>1. rows' \in SUBSET rows /\ chart' = Null /\ now' = now
    BY <1>2 DEF RemoveData
  <2>2. IsFiniteSet(rows')
    BY <2>1, FS_Subset DEF DataIInv
  <2> QED BY <2>1, <2>2 DEF DataIInv, DataTypeOK, ChartAnswers
<1>3. CASE \E d \in Sensor, clock \in {now, now + Hour}, v \in Value : SaveDataMessage(d, clock, v)
  BY <1>3, SaveStep
<1>4. CASE \E element \in Element, period \in Period \cup {Null}, tz \in Zone \cup {Null, UnknownZone} :
              GetElementData(element, period, tz)
  BY <1>4, GetDataStep
<1>5. CASE UNCHANGED dataVars
  <2>1. now' = now /\ rows' = rows /\ chart' = chart
    BY <1>5 DEF dataVars
  <2>2. \A element \in Element, period \in Period, zone \in Zone \cup {UnknownZone} :
           GetData(element, period, zone)' = GetData(element, period, zone)
    BY <2>1 DEF GetData, Group, Match, Ungrouped
  <2>3. ChartAnswers'
    BY <2>1, <2>2 DEF DataIInv, ChartAnswers
  <2> QED BY <2>1, <2>3 DEF DataIInv, DataTypeOK
<1> QED BY <1>1, <1>2, <1>3, <1>4, <1>5 DEF DataNext

\* An answer for a day, a week or a month, in terms of the points that are sorted.
LEMMA GroupedChart ==
    ASSUME DataIInv, chart # Null, chart.period \in Grouped
    PROVE  /\ chart.element \in Element /\ chart.zone \in Zone
           /\ LET points == Group(Match(chart.period, chart.zone), chart.element, chart.period, chart.zone)
                  s == chart.points
              IN  /\ DOMAIN s \subseteq Nat
                  /\ \A i \in DOMAIN s : s[i] \in points
                  /\ \A i, j \in DOMAIN s : i < j => s[i].date < s[j].date
                  /\ \A p \in points : \E i \in DOMAIN s : s[i] = p
<1>1. PICK element \in Element, period \in Period, zone \in Zone \cup {UnknownZone} :
         /\ period \in Grouped => zone \in Zone
         /\ chart = [element |-> element, period |-> period, zone |-> zone,
                     points |-> GetData(element, period, zone)]
  BY DEF DataIInv, ChartAnswers
<1> DEFINE s == GetData(element, period, zone)
           points == DataPoints(element, period, zone)
<1>2. period \in Grouped /\ chart.period = period /\ chart.zone = zone /\ chart.element = element
      /\ chart.points = s
  BY <1>1
<1>3. /\ DOMAIN s = 1..Cardinality(points) /\ Cardinality(points) \in Nat
      /\ \A i \in DOMAIN s : s[i] \in points
      /\ \A i, j \in DOMAIN s : i < j => s[i].date < s[j].date
      /\ \A p \in points : \E i \in DOMAIN s : s[i] = p
  BY <1>1, DataInvFinite, GetDataSorted
<1>4. points = Group(Match(period, zone), element, period, zone)
  BY <1>2, Zenon DEF DataPoints
<1> HIDE DEF s, points
<1>5. DOMAIN s \subseteq Nat
  BY <1>3
<1> QED BY <1>1, <1>2, <1>3, <1>4, <1>5

\* The points divide the day, the week or the month.
LEMMA InvDivides == DataIInv => ChartDivides
<1> SUFFICES ASSUME DataIInv, chart # Null, chart.period \in Grouped
             PROVE  LET p == chart.points
                        length == LengthOf(chart.period)
                    IN  /\ \A i, j \in DOMAIN p : i < j => p[i].date + StepOf(chart.period) <= p[j].date
                        /\ \A i \in DOMAIN p : StandsFor(p[i]) # {}
                        /\ UNION {StandsFor(p[i]) : i \in DOMAIN p}
                             = {r \in rows : LocalNumber(r.time, length, chart.zone)
                                               = LocalNumber(now, length, chart.zone)}
  BY DEF ChartDivides
<1> DEFINE p == chart.points
           zone == chart.zone
           period == chart.period
           step == StepOf(period)
           length == LengthOf(period)
           points == Group(Match(period, zone), chart.element, period, zone)
<1>1. /\ chart.element \in Element /\ zone \in Zone
      /\ \A i \in DOMAIN p : p[i] \in points
      /\ \A i, j \in DOMAIN p : i < j => p[i].date < p[j].date
      /\ \A q \in points : \E i \in DOMAIN p : p[i] = q
  BY GroupedChart
<1>2. DataFinite /\ step \in Nat \ {0} /\ length \in Nat \ {0}
  BY DataInvFinite, Lengths
<1>3. /\ \A q \in points : /\ q.date \in Int /\ RowsAt(q.date, step, zone) # {}
                            /\ RowsAt(q.date, step, zone) \subseteq Match(period, zone)
                            /\ RowsAt(q.date, step, zone)
                                 = {r \in rows : q.date <= r.time /\ r.time < q.date + step}
      /\ \A r \in Match(period, zone) : \E q \in points : q.date = DateTrunc(r.time, step, zone)
  BY <1>1, <1>2, GroupPoints
<1> HIDE DEF points
<1>4. ASSUME NEW q \in points PROVE StandsFor(q) = RowsAt(q.date, step, zone)
  BY <1>3 DEF StandsFor
<1>5. ASSUME NEW i \in DOMAIN p, NEW j \in DOMAIN p, i < j PROVE p[i].date + step <= p[j].date
  <2> DEFINE a == p[i].date
             b == p[j].date
  <2>1. a \in Int /\ b \in Int /\ a < b
    BY <1>1, <1>3, <1>5
  <2>2. PICK r \in RowsAt(a, step, zone) : TRUE
    BY <1>1, <1>3
  <2>3. PICK x \in RowsAt(b, step, zone) : TRUE
    BY <1>1, <1>3
  <2> HIDE DEF a, b, p, step, zone
  <2>4. /\ r.time \in Int /\ x.time \in Int
        /\ DateTrunc(r.time, step, zone) = a /\ DateTrunc(x.time, step, zone) = b
    BY <1>2, <2>2, <2>3, RowFields DEF RowsAt
  <2>5. step \in Nat \ {0} /\ zone \in Zone
    BY <1>1, <1>2
  <2>6. a < b => a + step <= b
    <3> DEFINE t == r.time
               u == x.time
    <3>1. t \in Int /\ u \in Int /\ DateTrunc(t, step, zone) = a /\ DateTrunc(u, step, zone) = b
      BY <2>4
    <3> HIDE DEF t, u
    <3>2. DateTrunc(t, step, zone) < DateTrunc(u, step, zone)
             => DateTrunc(t, step, zone) + step <= DateTrunc(u, step, zone)
      BY <2>5, <3>1, SameOrApart
    <3> QED BY <3>1, <3>2
  <2> QED BY <2>1, <2>6 DEF a, b, p
<1>6. \A i \in DOMAIN p : StandsFor(p[i]) # {}
  BY <1>1, <1>3, <1>4
<1>7. UNION {StandsFor(p[i]) : i \in DOMAIN p} = Match(period, zone)
  <2>1. ASSUME NEW i \in DOMAIN p PROVE StandsFor(p[i]) \subseteq Match(period, zone)
    BY <1>1, <1>3, <1>4
  <2>2. ASSUME NEW r \in Match(period, zone) PROVE \E i \in DOMAIN p : r \in StandsFor(p[i])
    <3>1. PICK q \in points : q.date = DateTrunc(r.time, step, zone)
      BY <1>3
    <3>2. r \in RowsAt(q.date, step, zone)
      BY <3>1 DEF RowsAt, Match
    <3>3. PICK i \in DOMAIN p : p[i] = q
      BY <1>1
    <3> QED BY <1>4, <3>2, <3>3
  <2> HIDE DEF p, period, zone
  <2> QED BY <2>1, <2>2
<1>8. Match(period, zone) = {r \in rows : LocalNumber(r.time, length, zone) = LocalNumber(now, length, zone)}
  <2> HIDE DEF period, zone
  <2>1. ASSUME NEW r \in rows
        PROVE  DateTrunc(now, length, zone) = DateTrunc(r.time, length, zone)
                 <=> LocalNumber(r.time, length, zone) = LocalNumber(now, length, zone)
    <3>1. r.time \in Int /\ now \in Int
      BY <1>2, RowFields DEF DataFinite
    <3> HIDE DEF length
    <3> QED BY <1>1, <1>2, <3>1, SameOrApart
  <2> QED BY <2>1 DEF Match
<1> QED BY <1>5, <1>6, <1>7, <1>8

\* The rounded mean of some numbers lies between the smallest and the largest.
LEMMA MeanWithin ==
    ASSUME DataFinite, NEW S \in SUBSET rows, NEW element \in Element, Numbers(S, element) # {}
    PROVE  LET values == {r.data : r \in Numbers(S, element)}
           IN  Min(values) <= Average(S, element) /\ Average(S, element) <= Max(values)
<1> DEFINE N == Numbers(S, element)
           values == {r.data : r \in N}
           lo == Min(values)
           hi == Max(values)
           Ok == AtLeast(lo) \cap AtMost(hi)
<1>1. IsFiniteSet(N) /\ N # {} /\ (\A r \in N : r.data \in Int) /\ Cardinality(N) \in Nat \ {0}
  BY NumbersOf
<1> HIDE DEF N
<1>2. IsFiniteSet(values) /\ values \in SUBSET Int /\ values # {}
  <2> DEFINE f == [r \in N |-> r.data]
  <2>1. f \in Surjection(N, values)
    BY DEF Surjection
  <2>2. values \in SUBSET Int /\ values # {}
    BY <1>1
  <2> HIDE DEF f, values
  <2> QED BY <1>1, <2>1, <2>2, FS_Surjection
<1>3. lo \in Int /\ hi \in Int /\ \A r \in N : lo <= r.data /\ r.data <= hi
  <2>1. /\ lo \in values /\ \A x \in values : lo <= x
        /\ hi \in values /\ \A x \in values : x <= hi
    <3> HIDE DEF values
    <3> QED BY <1>2, MinMax
  <2> HIDE DEF lo, hi
  <2> QED BY <1>2, <2>1
<1> HIDE DEF values, lo, hi
<1>4. \A p, q \in Ok : <<p[1] + q[1], p[2] + q[2]>> \in Ok
  BY <1>3, BoundsAdd
<1>5. ASSUME NEW k \in N PROVE <<Total({k}), Cardinality({k})>> \in Ok
  <2>1. k.data \in Int /\ lo <= k.data /\ k.data <= hi
    BY <1>1, <1>3
  <2>2. Total({k}) = k.data
    <3>1. IsFiniteSet({k}) /\ {k} \ {k} = {}
      BY FS_Singleton
    <3>2. Total({k}) = k.data + Total({})
      BY <2>1, <3>1, TotalWithout
    <3> QED BY <2>1, <3>2, TotalEmpty
  <2>3. Cardinality({k}) = 1
    BY FS_Singleton
  <2>4. <<k.data, 1>> \in AtLeast(lo) /\ <<k.data, 1>> \in AtMost(hi)
    BY <1>3, <2>1 DEF AtLeast, AtMost
  <2> QED BY <2>2, <2>3, <2>4
<1>6. <<Total(N), Cardinality(N)>> \in Ok
  <2> DEFINE part == [r \in N |-> r]
  <2>1. ASSUME NEW k \in N
        PROVE  LET P == {r \in N : part[r] = part[k]} IN <<Total(P), Cardinality(P)>> \in Ok
    <3>1. {r \in N : part[r] = part[k]} = {k}
      OBVIOUS
    <3> QED BY <1>5, <3>1
  <2> HIDE DEF part, Ok
  <2>2. PartsIn(N, part, Ok)
    BY <1>4, <2>1 DEF PartsIn
  <2> QED BY <1>1, <2>2, PartsAddUp
<1>7. Average(S, element) = RoundedMean(Total(N), Cardinality(N)) /\ Total(N) \in Int
  BY <1>1, AverageOf DEF N
<1> QED BY <1>1, <1>3, <1>6, <1>7, Rounding DEF N, values, lo, hi

\* A point lies between its numbers.
LEMMA InvWithin == DataIInv => ChartWithin
<1> SUFFICES ASSUME DataIInv, chart # Null, chart.period \in Grouped, NEW i \in DOMAIN chart.points
             PROVE  LET point == chart.points[i]
                        values == {r.data : r \in Numbers(StandsFor(point), chart.element)}
                    IN  IF values = {} THEN point.value = Null
                        ELSE point.value # Null /\ Min(values) <= point.value /\ point.value <= Max(values)
  BY DEF ChartWithin
<1> DEFINE point == chart.points[i]
           zone == chart.zone
           period == chart.period
           element == chart.element
           step == StepOf(period)
           points == Group(Match(period, zone), element, period, zone)
           S == RowsAt(point.date, step, zone)
           values == {r.data : r \in Numbers(S, element)}
<1>1. DataFinite /\ element \in Element /\ zone \in Zone /\ point \in points
  BY DataInvFinite, GroupedChart
<1>2. /\ S = {r \in rows : point.date <= r.time /\ r.time < point.date + step}
      /\ point = [date |-> point.date, value |-> Average(S, element)]
  <2> HIDE DEF point, zone, element, points
  <2> QED BY <1>1, GroupPoints DEF points
<1>3. StandsFor(point) = S /\ S \in SUBSET rows
  BY <1>2 DEF StandsFor
<1>4. point.value = Average(S, element)
  <2> HIDE DEF point, S, element
  <2> QED BY <1>2
<1>5. CASE Numbers(S, element) = {}
  <2>1. values = {}
    BY <1>5
  <2>2. Average(S, element) = Null
    <3> HIDE DEF S, element
    <3> QED BY <1>1, <1>3, <1>5, AverageOf
  <2> QED BY <1>3, <1>4, <2>1, <2>2
<1>6. CASE Numbers(S, element) # {}
  <2>1. values # {}
    BY <1>6
  <2>2. /\ Average(S, element) # Null
        /\ Min(values) <= Average(S, element) /\ Average(S, element) <= Max(values)
    <3> HIDE DEF S, element
    <3> QED BY <1>1, <1>3, <1>6, AverageOf, MeanWithin
  <2> QED BY <1>3, <1>4, <2>1, <2>2
<1> QED BY <1>5, <1>6

\* The points of an answer about temperatures.
LEMMA PointsOfGroup ==
    ASSUME DataFinite, NEW period \in Grouped, NEW z \in Zone
    PROVE  /\ PointsOf(period, z) = Group(Match(period, z), "temperature", period, z)
           /\ IsFiniteSet(PointsOf(period, z))
<1>1. period \in Period /\ "temperature" \in Element
  BY DEF Period, Element
<1>2. PointsOf(period, z) = DataPoints("temperature", period, z)
  BY <1>1, GetDataSorted DEF PointsOf
<1>3. IsFiniteSet(DataPoints("temperature", period, z))
  BY <1>1, FinitePoints
<1>4. DataPoints("temperature", period, z) = Group(Match(period, z), "temperature", period, z)
  BY Zenon DEF DataPoints
<1> QED BY <1>2, <1>3, <1>4

\* The value of today, if it has one, lies between those of its hours.
LEMMA TodayWithin ==
    ASSUME DataFinite, NEW z \in Zone, NEW p \in PointsOf("month", z),
           p.date = DateTrunc(now, Day, z), p.value # Null
    PROVE  LET hours == {x.value : x \in {q \in PointsOf("day", z) : q.value # Null}}
           IN  hours # {} /\ Min(hours) <= p.value /\ p.value <= Max(hours)
<1> DEFINE day == PointsOf("day", z)
           valued == {q \in day : q.value # Null}
           hours == {x.value : x \in valued}
           e == "temperature"
           D == RowsAt(p.date, Day, z)
           N == Numbers(D, e)
           lo == Min(hours)
           hi == Max(hours)
           Ok == AtLeast(lo) \cap AtMost(hi)
<1>1. e \in Element /\ {"day", "month"} \subseteq Grouped
  BY DEF Element, Grouped
<1>2. StepOf("day") = Hour /\ StepOf("month") = Day /\ LengthOf("day") = Day
  BY DEF StepOf, LengthOf
<1>3. D \in SUBSET rows /\ Match("day", z) = D
  BY <1>2 DEF Match, RowsAt
<1>4. p.value = Average(D, e)
  <2> DEFINE points == Group(Match("month", z), e, "month", z)
  <2>1. p \in points
    BY <1>1, PointsOfGroup
  <2>2. p = [date |-> p.date, value |-> Average(RowsAt(p.date, StepOf("month"), z), e)]
    <3> HIDE DEF points, e
    <3> QED BY <1>1, <2>1, GroupPoints DEF points
  <2> HIDE DEF e
  <2> QED BY <1>2, <2>2
<1>5. /\ N # {} /\ IsFiniteSet(N) /\ (\A r \in N : r.data \in Int) /\ N \subseteq D
      /\ p.value = RoundedMean(Total(N), Cardinality(N))
      /\ Total(N) \in Int /\ Cardinality(N) \in Nat \ {0}
  <2> HIDE DEF D, e
  <2> QED BY <1>1, <1>3, <1>4, AverageOf, NumbersOf
<1>6. /\ \A q \in day : /\ RowsAt(q.date, Hour, z) \subseteq D
                         /\ q.value = Average(RowsAt(q.date, Hour, z), e)
      /\ \A r \in D : \E q \in day : q.date = DateTrunc(r.time, Hour, z)
  <2> DEFINE points == Group(Match("day", z), e, "day", z)
  <2>1. day = points
    BY <1>1, PointsOfGroup
  <2>2. /\ \A q \in points : /\ RowsAt(q.date, StepOf("day"), z) \subseteq Match("day", z)
                             /\ q = [date |-> q.date, value |-> Average(RowsAt(q.date, StepOf("day"), z), e)]
        /\ \A r \in Match("day", z) : \E q \in points : q.date = DateTrunc(r.time, StepOf("day"), z)
    <3> HIDE DEF e
    <3> QED BY <1>1, GroupPoints
  <2> HIDE DEF points, day, D, e
  <2> QED BY <1>2, <1>3, <2>1, <2>2
\* The numbers of an hour are the numbers of its point.
<1>7. ASSUME NEW r \in N
      PROVE  LET H == {x \in N : DateTrunc(x.time, Hour, z) = DateTrunc(r.time, Hour, z)}
             IN  /\ RoundedMean(Total(H), Cardinality(H)) \in hours
                 /\ Total(H) \in Int /\ Cardinality(H) \in Nat \ {0}
  <2> DEFINE k == DateTrunc(r.time, Hour, z)
             H == {x \in N : DateTrunc(x.time, Hour, z) = k}
             all == RowsAt(k, Hour, z)
  <2>1. PICK q \in day : q.date = k
    BY <1>5, <1>6
  <2>2. all \subseteq D /\ q.value = Average(all, e)
    BY <1>6, <2>1
  <2>3. Numbers(all, e) = H
    BY <2>2 DEF Numbers, RowsAt
  <2>4. r \in H
    OBVIOUS
  <2>5. /\ Average(all, e) = RoundedMean(Total(H), Cardinality(H))
        /\ Total(H) \in Int /\ Cardinality(H) \in Nat \ {0} /\ Average(all, e) # Null
    <3>1. all \in SUBSET rows /\ Numbers(all, e) # {}
      BY <1>3, <2>2, <2>3, <2>4
    <3> HIDE DEF H, all, e
    <3> QED BY <1>1, <2>3, <3>1, AverageOf
  <2>6. q.value \in hours
    BY <2>1, <2>2, <2>5
  <2> HIDE DEF H, hours
  <2> QED BY <2>2, <2>5, <2>6 DEF H
<1>8. hours # {} /\ hours \in SUBSET Int /\ IsFiniteSet(hours)
  <2>1. hours # {}
    BY <1>5, <1>7
  <2>2. ASSUME NEW q \in valued PROVE q.value \in Int
    <3> DEFINE all == RowsAt(q.date, Hour, z)
    <3>1. all \in SUBSET rows /\ q.value = Average(all, e) /\ Average(all, e) # Null
      BY <1>3, <1>6
    <3> HIDE DEF all, e
    <3> QED BY <1>1, <3>1, AverageOf
  <2>3. IsFiniteSet(valued)
    BY <1>1, PointsOfGroup, FS_Subset
  <2>4. IsFiniteSet(hours)
    <3> DEFINE f == [x \in valued |-> x.value]
    <3>1. f \in Surjection(valued, hours)
      BY DEF Surjection
    <3> HIDE DEF f, valued, hours
    <3> QED BY <2>3, <3>1, FS_Surjection
  <2> HIDE DEF valued
  <2> QED BY <2>1, <2>2, <2>4
<1>9. lo \in Int /\ hi \in Int /\ \A x \in hours : x \in Int /\ lo <= x /\ x <= hi
  <2> HIDE DEF hours
  <2>1. /\ lo \in hours /\ \A x \in hours : lo <= x
        /\ hi \in hours /\ \A x \in hours : x <= hi
    BY <1>8, MinMax
  <2> HIDE DEF lo, hi
  <2> QED BY <1>8, <2>1
<1> HIDE DEF hours, lo, hi, N, D, e, day
<1>10. <<Total(N), Cardinality(N)>> \in Ok
  <2> DEFINE part == [r \in N |-> DateTrunc(r.time, Hour, z)]
  <2>1. ASSUME NEW r \in N
        PROVE  LET P == {x \in N : part[x] = part[r]} IN <<Total(P), Cardinality(P)>> \in Ok
    <3> DEFINE H == {x \in N : DateTrunc(x.time, Hour, z) = DateTrunc(r.time, Hour, z)}
    <3>1. {x \in N : part[x] = part[r]} = H
      OBVIOUS
    <3>2. RoundedMean(Total(H), Cardinality(H)) \in hours /\ Total(H) \in Int /\ Cardinality(H) \in Nat \ {0}
      BY <1>7
    <3> HIDE DEF H, part
    <3>3. <<Total(H), Cardinality(H)>> \in Ok
      BY <1>9, <3>2, Rounding
    <3> QED BY <3>1, <3>3
  <2>2. \A a, b \in Ok : <<a[1] + b[1], a[2] + b[2]>> \in Ok
    BY <1>9, BoundsAdd
  <2> HIDE DEF part, Ok
  <2>3. PartsIn(N, part, Ok)
    BY <2>1, <2>2 DEF PartsIn
  <2> QED BY <1>5, <2>3, PartsAddUp
<1>11. lo <= p.value /\ p.value <= hi
  BY <1>5, <1>9, <1>10, Rounding
<1> QED BY <1>8, <1>11 DEF hours, lo, hi, day

\* The answers for week, month and day agree.
LEMMA FiniteViewsAgree == DataFinite => ViewsAgree
<1> SUFFICES ASSUME DataFinite, NEW z \in Zone
             PROVE  LET week == PointsOf("week", z)
                        month == PointsOf("month", z)
                        hours == {p.value : p \in {q \in PointsOf("day", z) : q.value # Null}}
                    IN  /\ \A p \in week, q \in month : p.date = q.date => p = q
                        /\ \A p \in month :
                              /\ p.date = DateTrunc(now, Day, z)
                              /\ p.value # Null
                              => hours # {} /\ Min(hours) <= p.value /\ p.value <= Max(hours)
  BY Zenon DEF ViewsAgree
<1>1. ASSUME NEW period \in {"week", "month"}, NEW p \in PointsOf(period, z)
      PROVE  p = [date |-> p.date, value |-> Average(RowsAt(p.date, Day, z), "temperature")]
  <2> DEFINE e == "temperature"
             points == Group(Match(period, z), e, period, z)
  <2>1. period \in Grouped /\ e \in Element /\ StepOf(period) = Day
    BY DEF Grouped, Element, StepOf
  <2>2. p \in points
    BY <2>1, PointsOfGroup
  <2> HIDE DEF e
  <2>3. p = [date |-> p.date, value |-> Average(RowsAt(p.date, StepOf(period), z), e)]
    <3> HIDE DEF points
    <3> QED BY <2>1, <2>2, GroupPoints DEF points
  <2> QED BY <2>1, <2>3 DEF e
<1>2. \A p \in PointsOf("week", z), q \in PointsOf("month", z) : p.date = q.date => p = q
  BY <1>1
<1> QED BY <1>2, TodayWithin

-----------------------------------------------------------------------------
\* The data keeps its types, and an answer is one to the data of its moment.
LEMMA DataInvariant == DataSpec => []DataIInv
<1> QED BY DataInitIInv, DataInvariance, PTL DEF DataSpec

\* Rows and answers keep their types: there is an id for every new row, and a point of an
\* answer is a date with a number or with nothing (devices.service.ts:222-242,
\* data.repository.ts:19-150).
THEOREM DataTypeCorrect == DataSpec => []DataTypeOK
<1>1. DataIInv => DataTypeOK
  BY DEF DataIInv
<1> QED BY <1>1, DataInvariant, PTL

\* The points of an answer divide the current day, week or month, for every calendar and
\* every zone: $match and $group cut at times that fit (data.repository.ts:31-133).
THEOREM AnswersDivide == DataSpec => []ChartDivides
BY InvDivides, DataInvariant, PTL

\* A point lies between the smallest and the largest number it stands for, whatever the
\* rows: $avg and $round leave no bound (data.repository.ts:59, 139).
THEOREM AnswersWithin == DataSpec => []ChartWithin
BY InvWithin, DataInvariant, PTL

\* The answers for week and month agree on a day, and the value of today lies between
\* those of its hours, although each of them is rounded (data.repository.ts:31-139).
THEOREM AnswersAgree == DataSpec => []ViewsAgree
<1>1. DataIInv => ViewsAgree
  BY DataInvFinite, FiniteViewsAgree
<1> QED BY <1>1, DataInvariant, PTL

-----------------------------------------------------------------------------
(* The queries that a device answers.                                      *)

\* What is answered to 'Status 8' was asked by a query.
SentByQueries == \A c \in sent : c.topic = "STATUS8" => c.by \in Query

\* A temporary queue holds what its device answered, on the topic of the query.
BoxesFit ==
    \A q \in Query : \A c \in box[q] :
        /\ phase[q] # "unsent" /\ c \in sent
        /\ c.dev = request[q].dev /\ c.topic = TopicOf(q)

\* A query has no answer before it is sent, and then one from its queue.
AnswersFit ==
    \A q \in Query :
        /\ phase[q] = "unsent" => answer[q] = None
        /\ answer[q] \in Command =>
              /\ answer[q] \in sent
              /\ answer[q].dev = request[q].dev /\ answer[q].topic = TopicOf(q)

IInv == TypeOK /\ NoQueueLeft /\ SentByQueries /\ BoxesFit /\ AnswersFit

USE DEF Request, Topic, Command, Kind, Phase

-----------------------------------------------------------------------------
LEMMA InitIInv == Init => IInv
BY ConstantsAssumption DEF Init, IInv, TypeOK, NoQueueLeft, SentByQueries, BoxesFit, AnswersFit

\* The steps before a query has its queue.
LEMMA EarlySteps ==
    ASSUME IInv, NEW q \in Query,
           \/ \E r \in Request : Send(q, r)
           \/ Receive(q) \/ FindDevice(q) \/ AnswerError(q) \/ RejectDevice(q) \/ NewQueue(q)
    PROVE  IInv'
<1> USE DEF IInv, calls, broker, commands, Is
<1>1. CASE \E r \in Request : Send(q, r)
  <2>1. PICK r \in Request : Send(q, r)
    BY <1>1
  <2>2. q \notin queues /\ box[q] = {} /\ answer[q] \notin Command
    BY <2>1, ConstantsAssumption DEF Send, TypeOK, NoQueueLeft, BoxesFit, AnswersFit
  <2>3. TypeOK'
    BY <2>1 DEF Send, TypeOK
  <2>4. NoQueueLeft'
    BY <2>1, <2>2 DEF Send, TypeOK, NoQueueLeft
  <2>5. SentByQueries' /\ BoxesFit'
    BY <2>1, <2>2 DEF Send, TypeOK, SentByQueries, BoxesFit, TopicOf
  <2>6. AnswersFit'
    BY <2>1, <2>2 DEF Send, TypeOK, AnswersFit, TopicOf
  <2> QED BY <2>3, <2>4, <2>5, <2>6
<1>2. CASE Receive(q)
  BY <1>2 DEF Receive, TypeOK, NoQueueLeft, SentByQueries, BoxesFit, AnswersFit, TopicOf
<1>3. CASE FindDevice(q)
  BY <1>3 DEF FindDevice, TypeOK, NoQueueLeft, SentByQueries, BoxesFit, AnswersFit, TopicOf
<1>4. CASE AnswerError(q)
  BY <1>4, ConstantsAssumption
     DEF AnswerError, TypeOK, NoQueueLeft, SentByQueries, BoxesFit, AnswersFit, TopicOf
<1>5. CASE NewQueue(q)
  BY <1>5 DEF NewQueue, TypeOK, NoQueueLeft, SentByQueries, BoxesFit, AnswersFit, TopicOf
<1>6. CASE RejectDevice(q)
  BY <1>6 DEF RejectDevice, TypeOK, NoQueueLeft, SentByQueries, BoxesFit, AnswersFit, TopicOf
<1> QED BY <1>1, <1>2, <1>3, <1>4, <1>5, <1>6

\* The command goes out.
LEMMA ListenStep == ASSUME IInv, NEW q \in Query, Listen(q) PROVE IInv'
<1> DEFINE cmd == [by |-> q, dev |-> request[q].dev, topic |-> TopicOf(q)]
<1>1. cmd \in Command /\ cmd.by = q
  BY DEF IInv, TypeOK, TopicOf, Listen
<1> USE DEF IInv, broker, commands, Listen, Publish
<1>2. TypeOK'
  BY <1>1 DEF TypeOK
<1>3. NoQueueLeft' /\ AnswersFit'
  BY DEF TypeOK, NoQueueLeft, AnswersFit, TopicOf
<1>4. SentByQueries'
  BY <1>1 DEF SentByQueries
<1>5. BoxesFit'
  BY DEF TypeOK, BoxesFit, TopicOf
<1> QED BY <1>2, <1>3, <1>4, <1>5

\* A query gets its answer.
LEMMA AnswerStep == ASSUME IInv, NEW q \in Query, Deliver(q) \/ Timeout(q) PROVE IInv'
<1> USE DEF IInv, Close, Is, commands
<1>1. CASE Deliver(q)
  <2>1. PICK c \in box[q] : answer' = [answer EXCEPT ![q] = c]
    BY <1>1 DEF Deliver
  <2>2. c \in Command /\ c \in sent /\ c # None /\ c.dev = request[q].dev /\ c.topic = TopicOf(q)
    BY <2>1, ConstantsAssumption DEF TypeOK, BoxesFit
  <2>3. TypeOK' /\ NoQueueLeft'
    BY <1>1, <2>1, <2>2 DEF Deliver, TypeOK, NoQueueLeft
  <2>4. SentByQueries' /\ BoxesFit'
    BY <1>1 DEF Deliver, TypeOK, SentByQueries, BoxesFit, TopicOf
  <2>5. AnswersFit'
    BY <1>1, <2>1, <2>2 DEF Deliver, TypeOK, AnswersFit, TopicOf
  <2> QED BY <2>3, <2>4, <2>5
<1>2. CASE Timeout(q)
  BY <1>2, ConstantsAssumption
     DEF Timeout, TypeOK, NoQueueLeft, SentByQueries, BoxesFit, AnswersFit, TopicOf
<1> QED BY <1>1, <1>2

\* The devices, and commands that are no query.
LEMMA DeviceSteps ==
    ASSUME IInv, \/ \E d \in Device : DeviceStep(d)
                 \/ \E c \in open : Respond(c) \/ Ignore(c)
    PROVE  IInv'
<1> USE DEF IInv, calls, broker, commands
<1>1. CASE \E d \in Device : \E o \in Other : SendOther(o, d)
  <2>1. PICK d \in Device, o \in Other : SendOther(o, d)
    BY <1>1
  <2>2. [by |-> o, dev |-> d, topic |-> "RESULT"] \in Command
    OBVIOUS
  <2>3. TypeOK' /\ SentByQueries'
    BY <2>1, <2>2 DEF SendOther, Publish, TypeOK, SentByQueries
  <2>4. NoQueueLeft' /\ BoxesFit' /\ AnswersFit'
    BY <2>1 DEF SendOther, Publish, NoQueueLeft, BoxesFit, AnswersFit, TopicOf
  <2> QED BY <2>3, <2>4
<1>2. CASE \E d \in Device : SetStatus(d)
  <2>1. online' \in [Device -> BOOLEAN]
    BY <1>2, Zenon DEF SetStatus, TypeOK
  <2>2. IInv'
    BY <1>2, <2>1 DEF SetStatus, TypeOK, NoQueueLeft, SentByQueries, BoxesFit, AnswersFit, TopicOf
  <2> QED BY <2>2
<1>3. CASE \E c \in open : Respond(c)
  <2>1. PICK c \in open : Respond(c)
    BY <1>3
  <2>2. c \in Command /\ c \in sent
    BY DEF TypeOK
  <2>3. \A q \in Listeners(c) : q \in Query /\ phase[q] # "unsent"
                                /\ TopicOf(q) = c.topic /\ request[q].dev = c.dev
    BY DEF Listeners, TypeOK, NoQueueLeft
  <2>4. TypeOK'
    BY <2>1, <2>2 DEF Respond, TypeOK
  <2>5. BoxesFit'
    BY <2>1, <2>2, <2>3 DEF Respond, TypeOK, BoxesFit, TopicOf
  <2>6. NoQueueLeft' /\ SentByQueries' /\ AnswersFit'
    BY <2>1 DEF Respond, NoQueueLeft, SentByQueries, AnswersFit, TopicOf
  <2> QED BY <2>4, <2>5, <2>6
<1>4. CASE \E c \in open : Ignore(c)
  BY <1>4 DEF Ignore, TypeOK, NoQueueLeft, SentByQueries, BoxesFit, AnswersFit, TopicOf
<1> QED BY <1>1, <1>2, <1>3, <1>4 DEF DeviceStep

\* Restarts and broken connections.
LEMMA RestartSteps == ASSUME IInv, Disconnect \/ Boot PROVE IInv'
<1> USE DEF IInv, calls, broker, commands
<1>1. CASE Disconnect
  <2>1. TypeOK'
    BY <1>1 DEF Disconnect, TypeOK
  <2>2. NoQueueLeft' /\ SentByQueries'
    BY <1>1 DEF Disconnect, TypeOK, NoQueueLeft, SentByQueries
  <2>3. BoxesFit'
    BY <1>1 DEF Disconnect, TypeOK, BoxesFit, TopicOf
  <2>4. AnswersFit'
    BY <1>1 DEF Disconnect, TypeOK, AnswersFit, TopicOf
  <2> QED BY <2>1, <2>2, <2>3, <2>4
<1>2. CASE Boot
  BY <1>2 DEF Boot, TypeOK, NoQueueLeft, SentByQueries, BoxesFit, AnswersFit, TopicOf
<1> QED BY <1>1, <1>2

LEMMA NextIInv == ASSUME IInv, [Next]_vars PROVE IInv'
<1>1. CASE \E q \in Query : QueryStep(q)
  BY <1>1, EarlySteps, ListenStep, AnswerStep, RestartSteps DEF QueryStep, DeliverThrows
<1>2. CASE (\E d \in Device : DeviceStep(d)) \/ (\E c \in open : Respond(c) \/ Ignore(c))
  BY <1>2, DeviceSteps
<1>3. CASE Crash \/ Boot
  BY <1>3, RestartSteps DEF Crash
<1>4. CASE UNCHANGED vars
  BY <1>4 DEF vars, calls, broker, commands, IInv, TypeOK, NoQueueLeft, SentByQueries, BoxesFit,
              AnswersFit, TopicOf
<1> QED BY <1>1, <1>2, <1>3, <1>4 DEF Next

LEMMA Invariance == Spec => []IInv
BY InitIInv, NextIInv, PTL DEF Spec

-----------------------------------------------------------------------------
\* Queries, queues and answers keep their types, whatever the devices do.
THEOREM TypeCorrect == Spec => []TypeOK
<1>1. IInv => TypeOK
  BY DEF IInv
<1> QED BY <1>1, Invariance, PTL

\* An answered or timed-out query leaves no queue behind (devices.service.ts:267,
\* 277): only a restart between the declaration and the consumption can.
THEOREM QueuesGo == Spec => []NoQueueLeft
<1>1. IInv => NoQueueLeft
  BY DEF IInv
<1> QED BY <1>1, Invariance, PTL

\* The first message in the queue of an element query is an answer of its own
\* device to 'Status 8' (devices.service.ts:253-267), however many queries and
\* commands are open.
THEOREM ElementAnswersAreTheirs == Spec => []ElementAnswersFit
<1>1. IInv => ElementAnswersFit
  BY DEF IInv, TypeOK, SentByQueries, AnswersFit, ElementAnswersFit, Is, TopicOf
<1> QED BY <1>1, Invariance, PTL

-----------------------------------------------------------------------------
(* How far WiFiAnswersFit holds.                                           *)

\* A command that is no other command was sent by a query, on the topic of its answer.
SentFits ==
    \A c \in sent : \/ c.by \in Other
                    \/ c.by \in Query /\ phase[c.by] # "unsent" /\ c.topic = TopicOf(c.by)

\* A WiFi query is answered with the WiFi of its device, unless somebody else has told the
\* device something: what it answers to that comes on the same topic.
WiFiFitsUndisturbed ==
    \A q \in Query :
       /\ Is(q, "wifi") /\ answer[q] \in Command
       /\ \A c \in sent : c.dev = request[q].dev => c.by \notin Other
       => answer[q].dev = request[q].dev /\ answer[q].by \in Query /\ Is(answer[q].by, "wifi")

\* Queries go on, and never back.
LEMMA SentFitsStep == ASSUME IInv, SentFits, [Next]_vars PROVE SentFits'
<1>1. ASSUME NEW q \in Query, phase[q] # "unsent", ~(\E r \in Request : Send(q, r))
      PROVE  phase'[q] # "unsent" /\ TopicOf(q)' = TopicOf(q)
  <2>1. phase \in [Query -> Phase] /\ request \in [Query -> Request \cup {None}]
    BY DEF IInv, TypeOK
  <2>2. request'[q] = request[q]
    BY <1>1, <2>1 DEF Next, QueryStep, DeviceStep, Send, Receive, FindDevice, AnswerError,
       RejectDevice, NewQueue, Listen, Deliver, DeliverThrows, Timeout, SendOther, SetStatus, Respond,
       Ignore, Crash, Disconnect, Boot, calls, vars
  <2>3. phase'[q] # "unsent"
    BY <1>1, <2>1 DEF Next, QueryStep, DeviceStep, Send, Receive, FindDevice, AnswerError,
       RejectDevice, NewQueue, Listen, Deliver, DeliverThrows, Timeout, SendOther, SetStatus, Respond,
       Ignore, Crash, Disconnect, Boot, calls, vars
  <2> QED BY <2>2, <2>3 DEF TopicOf
<1>2. \A q \in Query : phase[q] # "unsent" => phase'[q] # "unsent" /\ TopicOf(q)' = TopicOf(q)
  BY <1>1 DEF Send
<1>3. \A c \in sent : \/ c.by \in Other
                      \/ c.by \in Query /\ phase'[c.by] # "unsent" /\ c.topic = TopicOf(c.by)'
  BY <1>2 DEF SentFits
<1>4. CASE \E q \in Query : Listen(q)
  <2>1. PICK q \in Query : Listen(q)
    BY <1>4
  <2>2. sent' = sent \cup {[by |-> q, dev |-> request[q].dev, topic |-> TopicOf(q)]} /\ phase[q] # "unsent"
    BY <2>1 DEF Listen, Publish
  <2>3. phase'[q] # "unsent" /\ TopicOf(q)' = TopicOf(q)
    BY <1>2, <2>2
  <2> QED BY <1>3, <2>2, <2>3 DEF SentFits
<1>5. CASE \E o \in Other, d \in Device : SendOther(o, d)
  <2>1. PICK o \in Other, d \in Device : SendOther(o, d)
    BY <1>5
  <2>2. sent' = sent \cup {[by |-> o, dev |-> d, topic |-> "RESULT"]}
    BY <2>1 DEF SendOther, Publish
  <2> QED BY <1>3, <2>2 DEF SentFits
<1>6. CASE sent' = sent
  BY <1>3, <1>6 DEF SentFits
<1>7. \/ \E q \in Query : Listen(q)
      \/ \E o \in Other, d \in Device : SendOther(o, d)
      \/ sent' = sent
  BY DEF Next, QueryStep, DeviceStep, Send, Receive, FindDevice, AnswerError, RejectDevice, NewQueue,
     Deliver, DeliverThrows, Timeout, SetStatus, Respond, Ignore, Crash, Disconnect, Boot, commands, vars
<1> QED BY <1>4, <1>5, <1>6, <1>7

\* Only commands of somebody else mislead a WiFi query, however many queries of however
\* many devices are open (devices.service.ts:273-294).
THEOREM WiFiMisledByCommandsOnly == Spec => []WiFiFitsUndisturbed
<1>1. Init => SentFits
  BY DEF Init, SentFits
<1>2. IInv /\ SentFits => WiFiFitsUndisturbed
  <2> SUFFICES ASSUME IInv, SentFits, NEW q \in Query, Is(q, "wifi"), answer[q] \in Command,
                      \A c \in sent : c.dev = request[q].dev => c.by \notin Other
               PROVE  answer[q].dev = request[q].dev /\ answer[q].by \in Query /\ Is(answer[q].by, "wifi")
    BY DEF WiFiFitsUndisturbed
  <2>1. answer[q] \in sent /\ answer[q].dev = request[q].dev /\ answer[q].topic = "RESULT"
    BY DEF IInv, AnswersFit, TopicOf, Is
  <2>2. answer[q].by \in Query /\ phase[answer[q].by] # "unsent" /\ TopicOf(answer[q].by) = "RESULT"
    BY <2>1 DEF SentFits
  <2>3. request[answer[q].by] \in Request /\ request[answer[q].by].kind # "element"
    BY <2>2 DEF IInv, TypeOK, TopicOf
  <2> QED BY <2>1, <2>2, <2>3 DEF Is
<1> QED BY <1>1, <1>2, SentFitsStep, Invariance, PTL DEF Spec
==============================================================================
