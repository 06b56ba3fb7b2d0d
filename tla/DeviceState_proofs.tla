------------------------- MODULE DeviceState_proofs -------------------------
(***************************************************************************)
(* What holds of the state of the devices for all devices, messages, lists *)
(* of fields, prefetch counts and numbers of deliveries.                   *)
(*                                                                         *)
(* Replace is a recursive function of the index.  Induction over it is put *)
(* in terms of sets of numbers (InductionOnSet), from the theorem that     *)
(* every set of numbers has a least one.                                   *)
(***************************************************************************)
EXTENDS DeviceState, SequenceTheorems, WellFoundedInduction, TLAPS

\* Induction, for a set of numbers.
LEMMA InductionOnSet ==
    ASSUME NEW P, 0 \in P, \A n \in Nat : n \in P => n + 1 \in P
    PROVE  Nat \subseteq P
<1> DEFINE T == Nat \ P
<1> SUFFICES ASSUME T # {} PROVE FALSE
    OBVIOUS
<1>1. PICK x \in T : \A y \in T : ~(<<y, x>> \in OpToRel(<, Nat))
    BY NatLessThanWellFounded, WFMin, T \subseteq Nat
<1>2. \A y \in T : ~(y < x)
    BY <1>1 DEF OpToRel
<1>3. x \in Nat /\ x # 0
    OBVIOUS
<1>4. x - 1 \in Nat /\ x - 1 < x /\ (x - 1) + 1 = x
    BY <1>3
<1>5. x - 1 \in T
    BY <1>4
<1> QED BY <1>2, <1>4, <1>5

-----------------------------------------------------------------------------
(* The $reduce.                                                            *)

\* g is the first n values of the recursive function of Replace.
IsReduction(g, list, item, n) ==
    g = [i \in 0..n |-> IF i = 0 THEN <<item>> ELSE Keep(g[i - 1], list[i])]

\* There is such a function.
LEMMA ReductionExists ==
    ASSUME NEW list, NEW item, NEW n \in Nat
    PROVE  \E g : IsReduction(g, list, item, n)
<1> DEFINE P == {k \in Nat : \E g : IsReduction(g, list, item, k)}
<1>1. 0 \in P
    <2> DEFINE g == [i \in 0..0 |-> <<item>>]
    <2>1. IsReduction(g, list, item, 0)
        BY DEF IsReduction
    <2> QED BY <2>1
<1>2. ASSUME NEW k \in Nat, k \in P PROVE k + 1 \in P
    <2>1. PICK g : IsReduction(g, list, item, k)
        BY <1>2
    <2> DEFINE h == [i \in 0..(k + 1) |-> IF i = k + 1 THEN Keep(g[k], list[k + 1]) ELSE g[i]]
    <2>2. \A i \in 0..(k + 1) : h[i] = IF i = 0 THEN <<item>> ELSE Keep(h[i - 1], list[i])
        <3> SUFFICES ASSUME NEW i \in 0..(k + 1)
                     PROVE  h[i] = IF i = 0 THEN <<item>> ELSE Keep(h[i - 1], list[i])
            OBVIOUS
        <3>1. CASE i = k + 1
            <4>1. h[i] = Keep(g[k], list[i]) /\ k \in 0..(k + 1) /\ k # k + 1 /\ i # 0 /\ i - 1 = k
                BY <3>1
            <4> QED BY <4>1
        <3>2. CASE i # k + 1
            <4>1. i \in 0..k /\ h[i] = g[i]
                BY <3>2
            <4>2. g[i] = IF i = 0 THEN <<item>> ELSE Keep(g[i - 1], list[i])
                BY <2>1, <4>1 DEF IsReduction
            <4>3. i # 0 => h[i - 1] = g[i - 1]
                BY <4>1
            <4> QED BY <4>1, <4>2, <4>3
        <3> QED BY <3>1, <3>2
    <2>3. IsReduction(h, list, item, k + 1)
        BY <2>2 DEF IsReduction
    <2> HIDE DEF h
    <2>4. k + 1 \in Nat
        OBVIOUS
    <2> QED BY <2>3, <2>4
<1>3. n \in P
    <2> HIDE DEF P
    <2> QED BY <1>1, <1>2, InductionOnSet
<1> QED BY <1>3

\* What Replace computes, step by step.
Reduces(g, list, item) ==
    /\ Replace(list, item) = g[Len(list)]
    /\ g[0] = <<item>>
    /\ \A i \in 1..Len(list) : g[i] = Keep(g[i - 1], list[i])

\* The recursive function of Replace is such a function.
LEMMA Reduction ==
    ASSUME NEW list, Len(list) \in Nat, NEW item
    PROVE  \E g : Reduces(g, list, item)
<1> DEFINE g == CHOOSE g : IsReduction(g, list, item, Len(list))
<1>1. IsReduction(g, list, item, Len(list))
    BY ReductionExists, Zenon
<1>2. Replace(list, item) = g[Len(list)]
    BY Zenon DEF Replace, IsReduction
<1> HIDE DEF g
<1>3. g[0] = <<item>>
    BY <1>1 DEF IsReduction
<1>4. \A i \in 1..Len(list) : g[i] = Keep(g[i - 1], list[i])
    BY <1>1 DEF IsReduction
<1> QED BY <1>2, <1>3, <1>4 DEF Reduces

\* A list has one entry of a name.
Unique(list) == \A i, j \in DOMAIN list : list[i].name = list[j].name => i = j

\* Append adds one member.
LEMMA AppendToSet ==
    ASSUME NEW E, NEW s \in Seq(E), NEW x \in E
    PROVE  /\ Append(s, x) \in Seq(E)
           /\ ToSet(Append(s, x)) = ToSet(s) \cup {x}
<1>1. /\ Append(s, x) \in Seq(E)
      /\ Len(Append(s, x)) = Len(s) + 1
      /\ \A i \in 1..Len(s) : Append(s, x)[i] = s[i]
      /\ Append(s, x)[Len(s) + 1] = x
    OBVIOUS
<1>2. DOMAIN Append(s, x) = 1..(Len(s) + 1) /\ DOMAIN s = 1..Len(s) /\ Len(s) \in Nat
    BY <1>1
<1>3. ToSet(Append(s, x)) \subseteq ToSet(s) \cup {x}
    BY <1>1, <1>2 DEF ToSet
<1>4. \A i \in 1..Len(s) : i \in 1..(Len(s) + 1)
    BY <1>2
<1>5. ToSet(s) \cup {x} \subseteq ToSet(Append(s, x))
    BY <1>1, <1>2, <1>4 DEF ToSet
<1> QED BY <1>1, <1>3, <1>5

\* One entry of the input: nothing is lost, and no name comes twice.
LEMMA KeepOne ==
    ASSUME NEW E, NEW value \in Seq(E), NEW this \in E, Unique(value)
    PROVE  /\ Keep(value, this) \in Seq(E)
           /\ Unique(Keep(value, this))
           /\ ToSet(value) \subseteq ToSet(Keep(value, this))
           /\ ToSet(Keep(value, this)) \subseteq ToSet(value) \cup {this}
           /\ \E r \in ToSet(Keep(value, this)) : r.name = this.name
<1>1. CASE \E e \in ToSet(value) : e.name = this.name
    BY <1>1 DEF Keep
<1>2. CASE ~\E e \in ToSet(value) : e.name = this.name
    <2>1. Keep(value, this) = Append(value, this)
        BY <1>2 DEF Keep
    <2>2. \A i \in DOMAIN value : value[i].name # this.name
        BY <1>2 DEF ToSet
    <2>3. /\ DOMAIN value = 1..Len(value) /\ Len(value) \in Nat
          /\ DOMAIN Append(value, this) = 1..(Len(value) + 1)
          /\ \A i \in 1..Len(value) : Append(value, this)[i] = value[i]
          /\ Append(value, this)[Len(value) + 1] = this
        OBVIOUS
    <2>4. Unique(Append(value, this))
        <3> SUFFICES ASSUME NEW i \in 1..(Len(value) + 1), NEW j \in 1..(Len(value) + 1),
                            Append(value, this)[i].name = Append(value, this)[j].name
                     PROVE  i = j
            BY <2>3 DEF Unique
        <3>1. CASE i \in 1..Len(value) /\ j \in 1..Len(value)
            BY <3>1, <2>3 DEF Unique
        <3>2. CASE i \in 1..Len(value) /\ j = Len(value) + 1
            BY <3>2, <2>2, <2>3
        <3>3. CASE i = Len(value) + 1 /\ j \in 1..Len(value)
            BY <3>3, <2>2, <2>3
        <3>4. CASE i = Len(value) + 1 /\ j = Len(value) + 1
            BY <3>4
        <3> QED BY <3>1, <3>2, <3>3, <3>4, <2>3
    <2> QED BY <2>1, <2>4, AppendToSet
<1> QED BY <1>1, <1>2

\* Replace, for a list of any length, even one with doubled names: the new item is
\* in it, every other entry was, no name is lost and none comes twice
\* (device.repository.ts:74-100).
THEOREM ReplaceProperties ==
    ASSUME NEW E, NEW list \in Seq(E), NEW item \in E
    PROVE  /\ Replace(list, item) \in Seq(E)
           /\ Unique(Replace(list, item))
           /\ item \in ToSet(Replace(list, item))
           /\ ToSet(Replace(list, item)) \subseteq ToSet(list) \cup {item}
           /\ \A e \in ToSet(list) : \E r \in ToSet(Replace(list, item)) : r.name = e.name
<1>0. Len(list) \in Nat /\ DOMAIN list = 1..Len(list) /\ \A i \in 1..Len(list) : list[i] \in E
    OBVIOUS
<1>a. PICK g : Reduces(g, list, item)
    BY <1>0, Reduction
<1>1. /\ Replace(list, item) = g[Len(list)]
      /\ g[0] = <<item>>
      /\ \A i \in 1..Len(list) : g[i] = Keep(g[i - 1], list[i])
    BY <1>a DEF Reduces
<1> DEFINE J(i) == /\ g[i] \in Seq(E)
                   /\ Unique(g[i])
                   /\ item \in ToSet(g[i])
                   /\ ToSet(g[i]) \subseteq ToSet(list) \cup {item}
                   /\ \A k \in 1..i : \E r \in ToSet(g[i]) : r.name = list[k].name
           P == {i \in Nat : i <= Len(list) => J(i)}
<1>2. 0 \in P
    <2>1. <<item>> \in Seq(E) /\ DOMAIN <<item>> = {1} /\ <<item>>[1] = item
        OBVIOUS
    <2>2. Unique(<<item>>) /\ ToSet(<<item>>) = {item}
        BY <2>1 DEF Unique, ToSet
    <2>3. item \in ToSet(<<item>>) /\ 1..0 = {}
        BY <2>2
    <2>4. J(0)
        BY <1>1, <2>1, <2>2, <2>3
    <2> HIDE DEF J
    <2> QED BY <2>4
<1>3. ASSUME NEW n \in Nat, n \in P PROVE n + 1 \in P
    <2> SUFFICES ASSUME n + 1 <= Len(list) PROVE J(n + 1)
        OBVIOUS
    <2>1. J(n)
        BY <1>0, <1>3
    <2>2. n + 1 \in 1..Len(list) /\ (n + 1) - 1 = n
        BY <1>0
    <2>3. g[n + 1] = Keep(g[n], list[n + 1]) /\ list[n + 1] \in E
        BY <1>0, <1>1, <2>2
    <2>4. list[n + 1] \in ToSet(list)
        BY <1>0, <2>2 DEF ToSet
    <2> DEFINE value == g[n]
               this == list[n + 1]
    <2>a. value \in Seq(E) /\ Unique(value) /\ this \in E
        BY <2>1, <2>3
    <2> HIDE DEF value, this, J
    <2>b. /\ Keep(value, this) \in Seq(E)
          /\ Unique(Keep(value, this))
          /\ ToSet(value) \subseteq ToSet(Keep(value, this))
          /\ ToSet(Keep(value, this)) \subseteq ToSet(value) \cup {this}
          /\ \E r \in ToSet(Keep(value, this)) : r.name = this.name
        BY <2>a, KeepOne, Zenon
    <2> USE DEF J
    <2>5. /\ g[n + 1] \in Seq(E)
          /\ Unique(g[n + 1])
          /\ ToSet(g[n]) \subseteq ToSet(g[n + 1])
          /\ ToSet(g[n + 1]) \subseteq ToSet(g[n]) \cup {list[n + 1]}
          /\ \E r \in ToSet(g[n + 1]) : r.name = list[n + 1].name
        BY <2>b, <2>3, Zenon DEF value, this
    <2>6. \A k \in 1..(n + 1) : \E r \in ToSet(g[n + 1]) : r.name = list[k].name
        <3> SUFFICES ASSUME NEW k \in 1..(n + 1) PROVE \E r \in ToSet(g[n + 1]) : r.name = list[k].name
            OBVIOUS
        <3>1. CASE k = n + 1
            BY <3>1, <2>5
        <3>2. CASE k # n + 1
            <4>1. k \in 1..n
                BY <3>2
            <4> QED BY <4>1, <2>1, <2>5
        <3> QED BY <3>1, <3>2
    <2> QED BY <2>1, <2>4, <2>5, <2>6
<1>4. J(Len(list))
    <2> HIDE DEF J
    <2>1. \A n \in Nat : n \in P => n + 1 \in P
        BY <1>3
    <2>2. Len(list) \in P
        <3> HIDE DEF P
        <3> QED BY <1>0, <1>2, <2>1, InductionOnSet
    <2> QED BY <1>0, <2>2
<1>5. \A e \in ToSet(list) : \E k \in 1..Len(list) : e = list[k]
    BY <1>0 DEF ToSet
<1> QED BY <1>1, <1>4, <1>5

-----------------------------------------------------------------------------
(* Queues and requests.                                                    *)

\* Head and Tail of a queue are made of its members.
LEMMA TailToSet ==
    ASSUME NEW E, NEW s \in Seq(E), s # <<>>
    PROVE  /\ Head(s) \in ToSet(s)
           /\ Tail(s) \in Seq(E)
           /\ ToSet(Tail(s)) \subseteq ToSet(s)
<1>1. /\ Len(s) \in Nat \ {0} /\ DOMAIN s = 1..Len(s) /\ Head(s) = s[1]
      /\ Tail(s) \in Seq(E) /\ DOMAIN Tail(s) = 1..(Len(s) - 1)
      /\ \A i \in 1..(Len(s) - 1) : Tail(s)[i] = s[i + 1]
    OBVIOUS
<1>2. \A i \in 1..(Len(s) - 1) : i + 1 \in 1..Len(s)
    BY <1>1
<1> QED BY <1>1, <1>2 DEF ToSet

\* What is put in front of a queue joins its members.
LEMMA ConcatToSet ==
    ASSUME NEW E, NEW s \in Seq(E), NEW t \in Seq(E)
    PROVE  /\ s \o t \in Seq(E)
           /\ ToSet(s \o t) = ToSet(s) \cup ToSet(t)
<1>1. /\ Len(s) \in Nat /\ Len(t) \in Nat /\ DOMAIN s = 1..Len(s) /\ DOMAIN t = 1..Len(t)
      /\ s \o t \in Seq(E) /\ DOMAIN (s \o t) = 1..(Len(s) + Len(t))
      /\ \A i \in 1..(Len(s) + Len(t)) :
            (s \o t)[i] = IF i <= Len(s) THEN s[i] ELSE t[i - Len(s)]
    OBVIOUS
<1>2. \A i \in 1..(Len(s) + Len(t)) : i <= Len(s) => i \in 1..Len(s)
    BY <1>1
<1>3. \A i \in 1..(Len(s) + Len(t)) : ~(i <= Len(s)) => i - Len(s) \in 1..Len(t)
    BY <1>1
<1>4. ToSet(s \o t) \subseteq ToSet(s) \cup ToSet(t)
    BY <1>1, <1>2, <1>3 DEF ToSet
<1>5. \A i \in 1..Len(s) : i \in 1..(Len(s) + Len(t)) /\ i <= Len(s)
    BY <1>1
<1>6. \A i \in 1..Len(t) : /\ Len(s) + i \in 1..(Len(s) + Len(t)) /\ ~(Len(s) + i <= Len(s))
                           /\ (Len(s) + i) - Len(s) = i
    BY <1>1
<1>7. ToSet(s) \subseteq ToSet(s \o t)
    BY <1>1, <1>5 DEF ToSet
<1>8. ToSet(t) \subseteq ToSet(s \o t)
    BY <1>1, <1>6 DEF ToSet
<1> QED BY <1>1, <1>4, <1>7, <1>8

\* An acknowledgement adds no member.
LEMMA RemoveAtToSet ==
    ASSUME NEW E, NEW s \in Seq(E), NEW i \in DOMAIN s
    PROVE  /\ RemoveAt(s, i) \in Seq(E)
           /\ ToSet(RemoveAt(s, i)) \subseteq ToSet(s)
<1> DEFINE a == SubSeq(s, 1, i - 1)
           b == SubSeq(s, i + 1, Len(s))
<1>1. /\ Len(s) \in Nat /\ DOMAIN s = 1..Len(s) /\ i \in 1..Len(s)
      /\ \A k \in 1..Len(s) : s[k] \in E
    OBVIOUS
<1>2. a \in Seq(E) /\ ToSet(a) \subseteq ToSet(s)
    <2>1. /\ a = [k \in 1..(i - 1) |-> s[k]]
        BY <1>1
    <2>2. a \in Seq(E) /\ DOMAIN a = 1..(i - 1) /\ \A k \in 1..(i - 1) : a[k] = s[k] /\ k \in 1..Len(s)
        BY <1>1, <2>1
    <2> QED BY <1>1, <2>2 DEF ToSet
<1>3. b \in Seq(E) /\ ToSet(b) \subseteq ToSet(s)
    <2>1. b = [k \in 1..(Len(s) - i) |-> s[i + k]]
        BY <1>1
    <2>2. \A k \in 1..(Len(s) - i) : i + k \in 1..Len(s)
        BY <1>1
    <2>3. b \in Seq(E)
        BY <1>1
    <2> HIDE DEF b
    <2>4. DOMAIN b = 1..(Len(s) - i) /\ \A k \in 1..(Len(s) - i) : b[k] = s[i + k]
        BY <2>1
    <2> QED BY <1>1, <2>2, <2>3, <2>4 DEF ToSet
<1> HIDE DEF a, b
<1>4. RemoveAt(s, i) = a \o b
    BY DEF RemoveAt, a, b
<1> QED BY <1>2, <1>3, <1>4, ConcatToSet

\* What is left of a request after its next update.
LEMMA SuffixTail ==
    ASSUME NEW E, NEW s \in Seq(E), NEW r \in Suffixes(s) \ {<<>>}
    PROVE  /\ r \in Seq(E) /\ Len(r) \in Nat \ {0}
           /\ ToSet(r) \subseteq ToSet(s)
           /\ Head(r) \in ToSet(r)
           /\ Len(r) # 1 => /\ Tail(r) \in Suffixes(s) \ {<<>>}
                            /\ ToSet(r) = {Head(r)} \cup ToSet(Tail(r))
           /\ Len(r) = 1 => ToSet(r) = {Head(r)}
<1>1. PICK l \in 1..Len(s) : r = SubSeq(s, l, Len(s))
    BY DEF Suffixes
<1>2. /\ Len(s) \in Nat /\ DOMAIN s = 1..Len(s) /\ \A k \in 1..Len(s) : s[k] \in E
      /\ l \in Nat /\ 1 <= l /\ l <= Len(s)
    OBVIOUS
<1> DEFINE n == Len(s) - l + 1
<1>3. n \in Nat /\ 1 <= n
    BY <1>2
<1>4. \A k \in 1..n : (l + k) - 1 \in 1..Len(s)
    BY <1>2
<1>5. /\ Len(r) = n /\ DOMAIN r = 1..n
      /\ \A k \in 1..n : r[k] = s[(l + k) - 1]
    BY <1>1, <1>2
<1>6. r \in Seq(E)
    BY <1>1, <1>2
<1>7. ToSet(r) \subseteq ToSet(s)
    BY <1>2, <1>4, <1>5 DEF ToSet
<1>8. Head(r) = r[1] /\ 1 \in 1..n
    BY <1>3, <1>5, <1>6
<1>9. ASSUME n # 1
      PROVE  Tail(r) \in Suffixes(s) \ {<<>>} /\ ToSet(r) = {Head(r)} \cup ToSet(Tail(r))
    <2>1. l + 1 \in 1..Len(s)
        BY <1>2, <1>3, <1>9
    <2>2. /\ Tail(r) \in Seq(E) /\ DOMAIN Tail(r) = 1..(n - 1) /\ Len(Tail(r)) = n - 1
          /\ \A k \in 1..(n - 1) : Tail(r)[k] = r[k + 1]
        <3>1. /\ Tail(r) \in Seq(E) /\ DOMAIN Tail(r) = 1..(Len(r) - 1)
              /\ Len(Tail(r)) = Len(r) - 1
              /\ \A k \in 1..(Len(r) - 1) : Tail(r)[k] = r[k + 1]
            BY <1>6
        <3> QED BY <1>5, <3>1
    <2>3. /\ SubSeq(s, l + 1, Len(s)) \in Seq(E)
          /\ Len(SubSeq(s, l + 1, Len(s))) = n - 1
          /\ \A k \in 1..(n - 1) : SubSeq(s, l + 1, Len(s))[k] = s[((l + 1) + k) - 1]
        BY <1>2, <2>1
    <2>5. \A k \in 1..(n - 1) : k + 1 \in 1..n /\ (l + (k + 1)) - 1 = ((l + 1) + k) - 1
        BY <1>2, <1>3
    <2>6. Tail(r) = SubSeq(s, l + 1, Len(s))
        <3> DEFINE t == SubSeq(s, l + 1, Len(s))
        <3>1. \A k \in 1..Len(Tail(r)) : Tail(r)[k] = t[k]
            BY <1>5, <2>2, <2>3, <2>5
        <3>2. Tail(r) \in Seq(E) /\ t \in Seq(E) /\ Len(Tail(r)) = Len(t)
            BY <2>2, <2>3
        <3> HIDE DEF t
        <3>3. Tail(r) = t
            BY <3>1, <3>2, SeqEqual
        <3> QED BY <3>3 DEF t
    <2>7. Tail(r) # <<>>
        <3>1. 1 \in DOMAIN Tail(r)
            BY <1>3, <1>9, <2>2
        <3>2. DOMAIN <<>> = {}
            OBVIOUS
        <3> QED BY <3>1, <3>2
    <2>8. \A k \in 1..n : k = 1 \/ (k - 1 \in 1..(n - 1) /\ (k - 1) + 1 = k)
        BY <1>3
    <2>9. ToSet(r) = {Head(r)} \cup ToSet(Tail(r))
        <3>1. DOMAIN Tail(r) = 1..(n - 1) /\ \A k \in 1..(n - 1) : Tail(r)[k] = r[k + 1]
            BY <2>2
        <3> HIDE DEF n
        <3>2. ToSet(r) \subseteq {Head(r)} \cup ToSet(Tail(r))
            <4> SUFFICES ASSUME NEW k \in 1..n PROVE r[k] = Head(r) \/ r[k] \in ToSet(Tail(r))
                BY <1>5 DEF ToSet
            <4>1. CASE k = 1
                BY <4>1, <1>8
            <4>2. CASE k - 1 \in 1..(n - 1) /\ (k - 1) + 1 = k
                BY <4>2, <3>1 DEF ToSet
            <4> QED BY <4>1, <4>2, <2>8
        <3>3. {Head(r)} \cup ToSet(Tail(r)) \subseteq ToSet(r)
            BY <1>5, <1>8, <2>5, <3>1 DEF ToSet
        <3> QED BY <3>2, <3>3
    <2> QED BY <2>1, <2>6, <2>7, <2>9 DEF Suffixes
<1>10. n = 1 => ToSet(r) = {Head(r)}
    BY <1>5, <1>8 DEF ToSet
<1>11. Head(r) \in ToSet(r)
    BY <1>5, <1>8 DEF ToSet
<1> QED BY <1>3, <1>5, <1>6, <1>7, <1>9, <1>10, <1>11

\* A request starts with all the fields of its message.
LEMMA SuffixWhole ==
    ASSUME NEW E, NEW s \in Seq(E), s # <<>>
    PROVE  s \in Suffixes(s) \ {<<>>}
<1>1. s = SubSeq(s, 1, Len(s)) /\ 1 \in 1..Len(s)
    OBVIOUS
<1> QED BY <1>1 DEF Suffixes

\* What the assumption says of a message.
LEMMA Fields ==
    ASSUME NEW c \in Content
    PROVE  /\ c.kind \in Kind /\ c.dev \in Device
           /\ c.fields \in Seq(ToSet(c.fields))
           /\ ToSet(c.fields) \subseteq Field
           /\ c.kind # "state" => c.fields # <<>>
<1>1. CASE c \in [kind : {"state"}, dev : Device, fields : StateFields]
    BY <1>1, FieldsAssumption DEF Kind, Field, Element
<1>2. CASE c \in [kind : {"sample"}, dev : Device, fields : {SampleFields}]
    BY <1>2, FieldsAssumption DEF Kind, Field, Element
<1>3. CASE c \in [kind : {"status"}, dev : Device, fields : {<<Online>>}]
    <2>1. ToSet(<<Online>>) = {Online} /\ <<Online>> \in Seq({Online}) /\ <<Online>> # <<>>
        BY DEF ToSet
    <2> QED BY <1>3, <2>1 DEF Kind, Field
<1> QED BY <1>1, <1>2, <1>3 DEF Content

-----------------------------------------------------------------------------
(* Types.                                                                  *)

MailOK ==
    /\ queue \in [Kind -> Seq(Message)] /\ handling \in [Kind -> Seq(Message)]
    /\ \A q \in Kind : \A m \in ToSet(queue[q]) \cup ToSet(handling[q]) :
           content[m] # None /\ content[m].kind = q

RequestsOK ==
    /\ writes \subseteq [msg : Message, try : 1..MaxTry, rest : Seq(Field)]
    /\ \A w \in writes : /\ content[w.msg] # None /\ w.try <= try[w.msg]
                         /\ w.rest \in Suffixes(content[w.msg].fields) \ {<<>>}

StoreOK ==
    /\ stored \subseteq Device
    /\ online \in [Device -> Message \cup {None}]
    /\ elements \in [Device -> Seq([name : Element, value : Message])]
    /\ \A r \in rows : r.msg \in Message

HistoryOK ==
    /\ last \in [Device -> [Field -> Message \cup {None}]]
    /\ doubt \in [Device -> SUBSET Field]

\* The parts of TypeOK that a step can disturb separately.
LEMMA TypeParts ==
    TypeOK <=> /\ up \in BOOLEAN
               /\ content \in [Message -> Content \cup {None}]
               /\ try \in [Message -> 0..MaxTry]
               /\ MailOK /\ RequestsOK /\ StoreOK /\ HistoryOK
BY DEF TypeOK, MailOK, RequestsOK, StoreOK, HistoryOK

\* Queues of messages hold messages.
LEMMA Members ==
    ASSUME NEW E, NEW s \in Seq(E)
    PROVE  ToSet(s) \subseteq E
BY DEF ToSet

\* A sequence over its own members is one over any larger set.
LEMMA Widen ==
    ASSUME NEW E, NEW F, NEW s \in Seq(E), ToSet(s) \subseteq F
    PROVE  s \in Seq(F)
<1>1. Len(s) \in Nat /\ s = [i \in 1..Len(s) |-> s[i]] /\ DOMAIN s = 1..Len(s)
    OBVIOUS
<1>2. \A i \in 1..Len(s) : s[i] \in F
    BY <1>1 DEF ToSet
<1>3. s \in [1..Len(s) -> F]
    BY <1>1, <1>2
<1> QED BY <1>1, <1>3

\* A delivery: of a published message, from the queue of its kind.
LEMMA Received ==
    ASSUME TypeOK, NEW m, NEW q \in Kind, Receive(m, q)
    PROVE  /\ m \in Message /\ content[m] \in Content /\ content[m].kind = q
           /\ queue' \in [Kind -> Seq(Message)]
           /\ \A k \in Kind : ToSet(queue'[k]) \subseteq ToSet(queue[k])
           /\ try' \in [Message -> 0..MaxTry] /\ try'[m] \in 1..MaxTry
           /\ \A n \in Message : try[n] <= try'[n]
<1>1. /\ queue \in [Kind -> Seq(Message)] /\ try \in [Message -> 0..MaxTry]
      /\ queue[q] \in Seq(Message) /\ queue[q] # <<>> /\ m = Head(queue[q])
      /\ queue' = [queue EXCEPT ![q] = Tail(queue[q])]
      /\ try' = [try EXCEPT ![m] = try[m] + 1] /\ try[m] < MaxTry
    BY DEF TypeOK, Receive
<1>2. /\ m \in ToSet(queue[q])
      /\ Tail(queue[q]) \in Seq(Message)
      /\ ToSet(Tail(queue[q])) \subseteq ToSet(queue[q])
    BY <1>1, TailToSet
<1>3. m \in Message
    BY <1>1, <1>2, Members
<1>4. content[m] \in Content /\ content[m].kind = q
    BY <1>2, <1>3 DEF TypeOK
<1>5. try' \in [Message -> 0..MaxTry] /\ try'[m] \in 1..MaxTry
    BY <1>1, <1>3, BoundsAssumption
<1>6. \A n \in Message : try[n] <= try'[n]
    BY <1>1, <1>3, BoundsAssumption
<1>7. /\ queue' \in [Kind -> Seq(Message)]
      /\ \A k \in Kind : ToSet(queue'[k]) \subseteq ToSet(queue[k])
    BY <1>1, <1>2
<1> QED BY <1>3, <1>4, <1>5, <1>6, <1>7

\* A request that leaves is well typed.
LEMMA Launched ==
    ASSUME TypeOK, NEW m, NEW q \in Kind, Receive(m, q), Launch(m), content' = content,
           content[m].fields # <<>>
    PROVE  RequestsOK' /\ doubt' \in [Device -> SUBSET Field]
<1>1. /\ m \in Message /\ content[m] \in Content
      /\ try' \in [Message -> 0..MaxTry] /\ try'[m] \in 1..MaxTry
      /\ \A n \in Message : try[n] <= try'[n]
    BY Received
<1>2. content[m].fields \in Suffixes(content[m].fields) \ {<<>>}
    BY <1>1, Fields, SuffixWhole
<1>3. content[m].fields \in Seq(Field)
    BY <1>1, Fields, Widen
<1>4. [msg |-> m, try |-> try'[m], rest |-> content[m].fields] \in
         [msg : Message, try : 1..MaxTry, rest : Seq(Field)]
    BY <1>1, <1>3
<1>5. ASSUME NEW w \in writes'
      PROVE  /\ w \in [msg : Message, try : 1..MaxTry, rest : Seq(Field)]
             /\ content[w.msg] # None /\ w.try <= try'[w.msg]
             /\ w.rest \in Suffixes(content[w.msg].fields) \ {<<>>}
    <2>1. CASE w \in writes
        <3>1. /\ w \in [msg : Message, try : 1..MaxTry, rest : Seq(Field)]
              /\ content[w.msg] # None /\ w.try <= try[w.msg]
              /\ w.rest \in Suffixes(content[w.msg].fields) \ {<<>>}
            BY <2>1 DEF TypeOK
        <3>2. w.msg \in Message /\ w.try \in Nat /\ try[w.msg] \in Nat /\ try'[w.msg] \in Nat
            BY <1>1, <3>1, BoundsAssumption DEF TypeOK
        <3> QED BY <1>1, <3>1, <3>2
    <2>2. CASE w = [msg |-> m, try |-> try'[m], rest |-> content[m].fields]
        <3>1. w.msg = m /\ w.try = try'[m] /\ w.rest = content[m].fields
            BY <2>2
        <3>2. try'[m] <= try'[m]
            BY <1>1, BoundsAssumption
        <3> QED BY <1>1, <1>2, <1>4, <2>2, <3>1, <3>2, NoneAssumption
    <2> QED BY <2>1, <2>2 DEF Launch
<1>6. doubt' \in [Device -> SUBSET Field]
    BY DEF TypeOK, Launch
<1> QED BY <1>5, <1>6 DEF RequestsOK

\* An acknowledged message leaves no trace.
LEMMA Acknowledged ==
    ASSUME TypeOK, NEW m, NEW q \in Kind, Acknowledge(m, q)
    PROVE  /\ handling' \in [Kind -> Seq(Message)]
           /\ \A k \in Kind : ToSet(handling'[k]) \subseteq ToSet(handling[k])
<1>1. PICK i \in DOMAIN handling[q] : handling' = [handling EXCEPT ![q] = RemoveAt(handling[q], i)]
    BY DEF Acknowledge
<1>2. handling \in [Kind -> Seq(Message)] /\ handling[q] \in Seq(Message)
    BY DEF TypeOK
<1>3. /\ RemoveAt(handling[q], i) \in Seq(Message)
      /\ ToSet(RemoveAt(handling[q], i)) \subseteq ToSet(handling[q])
    BY <1>2, RemoveAtToSet
<1> QED BY <1>1, <1>2, <1>3

\* A message that is put back is in the queue of its kind.
LEMMA Requeued ==
    ASSUME TypeOK, NEW m, NEW q \in Kind, Handled(m, q), Requeue(m, q), content' = content
    PROVE  MailOK' /\ doubt' \in [Device -> SUBSET Field]
<1>1. /\ handling' \in [Kind -> Seq(Message)]
      /\ \A k \in Kind : ToSet(handling'[k]) \subseteq ToSet(handling[k])
    BY Acknowledged DEF Requeue
<1>2. /\ queue \in [Kind -> Seq(Message)] /\ queue[q] \in Seq(Message)
      /\ handling[q] \in Seq(Message) /\ m \in ToSet(handling[q])
    BY DEF TypeOK, Handled
<1>3. m \in Message
    BY <1>2, Members
<1>4. <<m>> \in Seq(Message) /\ ToSet(<<m>>) = {m}
    BY <1>3 DEF ToSet
<1>5. /\ <<m>> \o queue[q] \in Seq(Message)
      /\ ToSet(<<m>> \o queue[q]) \subseteq {m} \cup ToSet(queue[q])
    BY <1>2, <1>4, ConcatToSet
<1>6. queue' = [queue EXCEPT ![q] = <<m>> \o queue[q]]
    BY DEF Requeue
<1>7. /\ queue' \in [Kind -> Seq(Message)]
      /\ \A k \in Kind : ToSet(queue'[k]) \subseteq ToSet(queue[k]) \cup ToSet(handling[k])
    BY <1>2, <1>5, <1>6
<1>8. MailOK'
    BY <1>1, <1>7 DEF TypeOK, MailOK
<1>9. ASSUME NEW d \in Device PROVE SetBack(d, m) \subseteq Field
    <2>1. content[m] \in Content
        BY <1>2, <1>3 DEF TypeOK
    <2> QED BY <2>1, Fields DEF SetBack, FieldsOf
<1> QED BY <1>8, <1>9 DEF Requeue, TypeOK

\* Requests that are lost or refused leave the others as they were.
LEMMA RequestsKept ==
    ASSUME TypeOK, writes' \subseteq writes, content' = content, try' = try
    PROVE  RequestsOK'
BY DEF TypeOK, RequestsOK

\* The request that an update belongs to.
LEMMA Updating ==
    ASSUME TypeOK, NEW w \in writes
    PROVE  /\ w.msg \in Message /\ content[w.msg] \in Content /\ Dev(w.msg) \in Device
           /\ Head(w.rest) \in ToSet(w.rest) /\ Head(w.rest) \in Field
           /\ ToSet(w.rest) \subseteq FieldsOf(w.msg) /\ FieldsOf(w.msg) \subseteq Field
           /\ Len(w.rest) # 1 => /\ Tail(w.rest) \in Suffixes(content[w.msg].fields) \ {<<>>}
                                 /\ ToSet(w.rest) = {Head(w.rest)} \cup ToSet(Tail(w.rest))
           /\ Len(w.rest) = 1 => ToSet(w.rest) = {Head(w.rest)}
<1>1. /\ w.msg \in Message /\ content[w.msg] \in Content
      /\ w.rest \in Suffixes(content[w.msg].fields) \ {<<>>}
    BY DEF TypeOK
<1>2. /\ content[w.msg].fields \in Seq(ToSet(content[w.msg].fields))
      /\ FieldsOf(w.msg) \subseteq Field /\ Dev(w.msg) \in Device
    BY <1>1, Fields DEF FieldsOf, Dev
<1>3. /\ ToSet(w.rest) \subseteq FieldsOf(w.msg)
      /\ Head(w.rest) \in ToSet(w.rest)
      /\ Len(w.rest) # 1 => /\ Tail(w.rest) \in Suffixes(content[w.msg].fields) \ {<<>>}
                            /\ ToSet(w.rest) = {Head(w.rest)} \cup ToSet(Tail(w.rest))
      /\ Len(w.rest) = 1 => ToSet(w.rest) = {Head(w.rest)}
    BY <1>1, <1>2, SuffixTail DEF FieldsOf
<1> QED BY <1>1, <1>2, <1>3

\* An update leaves a request, or none, and a list, that are well typed.
LEMMA Updated ==
    ASSUME TypeOK, NEW w \in writes, ApplyUpdate(w)
    PROVE  RequestsOK' /\ StoreOK'
<1> DEFINE f == Head(w.rest)
           d == Dev(w.msg)
           Rec == [msg : Message, try : 1..MaxTry, rest : Seq(Field)]
<1>1. /\ w \in Rec /\ w.msg \in Message /\ w.rest \in Seq(Field)
      /\ content[w.msg] \in Content /\ w.try <= try[w.msg]
      /\ w.rest \in Suffixes(content[w.msg].fields) \ {<<>>}
    BY DEF TypeOK
<1>2. /\ f \in Field /\ d \in Device
      /\ Len(w.rest) # 1 => Tail(w.rest) \in Suffixes(content[w.msg].fields) \ {<<>>}
    BY Updating
<1>5. RequestsOK'
    <2>1. ASSUME NEW v \in writes'
          PROVE  /\ v \in Rec
                 /\ content[v.msg] # None /\ v.try <= try[v.msg]
                 /\ v.rest \in Suffixes(content[v.msg].fields) \ {<<>>}
        <3>1. CASE v \in writes
            BY <3>1 DEF TypeOK
        <3>2. CASE Len(w.rest) # 1 /\ v = [w EXCEPT !.rest = Tail(w.rest)]
            <4>1. Tail(w.rest) \in Seq(Field)
                BY <1>1, TailToSet
            <4>2. v.msg = w.msg /\ v.try = w.try /\ v.rest = Tail(w.rest) /\ v \in Rec
                BY <1>1, <3>2, <4>1
            <4> QED BY <1>1, <1>2, <3>2, <4>2, NoneAssumption
        <3> QED BY <3>1, <3>2 DEF ApplyUpdate
    <2> QED BY <2>1 DEF RequestsOK, ApplyUpdate, broker
<1>6. StoreOK'
    <2>1. online' \in [Device -> Message \cup {None}]
        BY <1>1, <1>2 DEF TypeOK, ApplyUpdate
    <2>2. elements' \in [Device -> Seq([name : Element, value : Message])]
        <3>1. CASE f # Online /\ d \in stored
            <4> DEFINE E == [name : Element, value : Message]
                       item == [name |-> f, value |-> w.msg]
            <4>1. item \in E
                BY <1>1, <1>2, <3>1 DEF Field
            <4>2. elements[d] \in Seq(E)
                BY <1>2 DEF TypeOK
            <4>3. Replace(elements[d], item) \in Seq(E)
                <5> HIDE DEF E, item, d
                <5> QED BY <4>1, <4>2, ReplaceProperties
            <4>4. elements' = [elements EXCEPT ![d] = Replace(elements[d], item)]
                BY <3>1 DEF ApplyUpdate
            <4> QED BY <4>3, <4>4 DEF TypeOK
        <3>2. CASE ~(f # Online /\ d \in stored)
            BY <3>2 DEF TypeOK, ApplyUpdate
        <3> QED BY <3>1, <3>2
    <2> QED BY <2>1, <2>2 DEF TypeOK, StoreOK, ApplyUpdate
<1> QED BY <1>5, <1>6

\* Nothing is published at the start.
LEMMA TypeInit == Init => TypeOK
<1> SUFFICES ASSUME Init PROVE TypeOK
    OBVIOUS
<1>1. \A q \in Kind : ToSet(queue[q]) \cup ToSet(handling[q]) = {}
    BY DEF Init, ToSet
<1> QED BY <1>1, BoundsAssumption DEF Init, TypeOK

\* Every step keeps the types.
LEMMA TypeStep == TypeOK /\ [Next]_vars => TypeOK'
<1> SUFFICES ASSUME TypeOK, [Next]_vars PROVE TypeOK'
    OBVIOUS
<1>0. /\ up \in BOOLEAN
      /\ content \in [Message -> Content \cup {None}]
      /\ try \in [Message -> 0..MaxTry]
      /\ MailOK /\ RequestsOK /\ StoreOK /\ HistoryOK
    BY TypeParts
<1> SUFFICES /\ up' \in BOOLEAN
             /\ content' \in [Message -> Content \cup {None}]
             /\ try' \in [Message -> 0..MaxTry]
             /\ MailOK' /\ RequestsOK' /\ StoreOK' /\ HistoryOK'
    BY DEF TypeOK, MailOK, RequestsOK, StoreOK, HistoryOK
<1>1. ASSUME NEW m \in Message, NEW c \in Content, Publish(m, c)
      PROVE  /\ up' \in BOOLEAN
             /\ content' \in [Message -> Content \cup {None}]
             /\ try' \in [Message -> 0..MaxTry]
             /\ MailOK' /\ RequestsOK' /\ StoreOK' /\ HistoryOK'
    <2>1. /\ content[m] = None /\ content' = [content EXCEPT ![m] = c]
          /\ queue' = [queue EXCEPT ![c.kind] = Append(queue[c.kind], m)]
          /\ handling' = handling /\ try' = try /\ writes' = writes /\ up' = up
          /\ doubt' = doubt /\ stored' = stored /\ online' = online /\ elements' = elements
          /\ rows' = rows
        BY <1>1 DEF Publish, database
    <2>2. c.kind \in Kind /\ c.dev \in Device /\ c # None
        BY Fields, NoneAssumption
    <2>3. queue[c.kind] \in Seq(Message)
        BY <1>0, <2>2 DEF MailOK
    <2>4. /\ Append(queue[c.kind], m) \in Seq(Message)
          /\ ToSet(Append(queue[c.kind], m)) = ToSet(queue[c.kind]) \cup {m}
        BY <2>3, AppendToSet
    <2>5. queue' \in [Kind -> Seq(Message)]
        BY <1>0, <2>1, <2>4 DEF MailOK
    <2>6. ASSUME NEW q \in Kind, NEW n \in ToSet(queue'[q]) \cup ToSet(handling'[q])
          PROVE  content'[n] # None /\ content'[n].kind = q
        <3>1. CASE n \in ToSet(queue[q]) \cup ToSet(handling[q])
            <4>1. content[n] # None /\ content[n].kind = q
                BY <1>0, <3>1 DEF MailOK
            <4>2. n # m
                BY <2>1, <4>1
            <4> QED BY <1>0, <2>1, <4>1, <4>2
        <3>2. CASE n = m /\ q = c.kind
            BY <1>0, <2>1, <2>2, <3>2
        <3>3. n \in ToSet(queue[q]) \cup ToSet(handling[q]) \/ (n = m /\ q = c.kind)
            BY <1>0, <2>1, <2>2, <2>4 DEF MailOK
        <3> QED BY <3>1, <3>2, <3>3
    <2>7. MailOK'
        BY <1>0, <2>1, <2>5, <2>6 DEF MailOK
    <2>8. RequestsOK'
        <3>1. \A w \in writes : content'[w.msg] = content[w.msg]
            BY <1>0, <2>1 DEF RequestsOK
        <3> QED BY <1>0, <2>1, <3>1 DEF RequestsOK
    <2>9. HistoryOK'
        BY <1>0, <1>1, <2>2 DEF HistoryOK, Publish
    <2> QED BY <1>0, <2>1, <2>7, <2>8, <2>9 DEF StoreOK
<1>2. ASSUME NEW m \in Message, HandleState(m)
      PROVE  try' \in [Message -> 0..MaxTry] /\ MailOK' /\ RequestsOK' /\ HistoryOK'
    <2>1. /\ Receive(m, "state") /\ "state" \in Kind
          /\ content' = content /\ handling' = handling /\ last' = last
        BY <1>2 DEF HandleState, Kind
    <2>2. /\ try' \in [Message -> 0..MaxTry] /\ queue' \in [Kind -> Seq(Message)]
          /\ \A k \in Kind : ToSet(queue'[k]) \subseteq ToSet(queue[k])
          /\ \A n \in Message : try[n] <= try'[n]
        BY <2>1, Received
    <2>3. CASE content[m].fields = <<>>
        <3>1. writes' = writes /\ doubt' = doubt
            BY <1>2, <2>3 DEF HandleState
        <3>2. ASSUME NEW w \in writes PROVE w.try <= try'[w.msg]
            <4>1. w.msg \in Message /\ w.try \in Nat /\ w.try <= try[w.msg]
                BY <1>0, BoundsAssumption DEF RequestsOK
            <4>2. try[w.msg] \in Nat /\ try'[w.msg] \in Nat /\ try[w.msg] <= try'[w.msg]
                BY <1>0, <2>2, <4>1, BoundsAssumption
            <4> QED BY <4>1, <4>2
        <3> QED BY <1>0, <2>1, <2>2, <3>1, <3>2 DEF RequestsOK, MailOK, HistoryOK
    <2>4. CASE content[m].fields # <<>>
        <3>1. RequestsOK' /\ doubt' \in [Device -> SUBSET Field]
            BY <1>2, <2>1, <2>4, Launched DEF HandleState
        <3> QED BY <1>0, <2>1, <2>2, <3>1 DEF MailOK, HistoryOK
    <2> QED BY <2>3, <2>4
<1>3. ASSUME NEW m \in Message, NEW q \in {"sample", "status"}, HandleAwaiting(m, q)
      PROVE  try' \in [Message -> 0..MaxTry] /\ MailOK' /\ RequestsOK' /\ HistoryOK'
    <2>1. /\ Receive(m, q) /\ Launch(m) /\ q \in Kind /\ q # "state"
          /\ content' = content /\ last' = last
          /\ handling' = [handling EXCEPT ![q] = Append(handling[q], m)]
        BY <1>3 DEF HandleAwaiting, Kind
    <2>2. /\ try' \in [Message -> 0..MaxTry] /\ queue' \in [Kind -> Seq(Message)]
          /\ \A k \in Kind : ToSet(queue'[k]) \subseteq ToSet(queue[k])
          /\ content[m] \in Content /\ content[m].kind = q
        BY <2>1, Received
    <2>3. RequestsOK' /\ doubt' \in [Device -> SUBSET Field]
        BY <2>1, <2>2, Fields, Launched
    <2>4. /\ Append(handling[q], m) \in Seq(Message)
          /\ ToSet(Append(handling[q], m)) = ToSet(handling[q]) \cup {m}
        <3>1. handling[q] \in Seq(Message)
            BY <1>0, <2>1 DEF MailOK
        <3> QED BY <3>1, AppendToSet
    <2>5. handling' \in [Kind -> Seq(Message)]
        BY <1>0, <2>1, <2>4 DEF MailOK
    <2>6. \A k \in Kind : ToSet(handling'[k]) \subseteq ToSet(handling[k]) \cup
                                                       (IF k = q THEN {m} ELSE {})
        BY <1>0, <2>1, <2>4 DEF MailOK
    <2>7. MailOK'
        BY <1>0, <2>1, <2>2, <2>5, <2>6, NoneAssumption DEF MailOK
    <2> QED BY <1>0, <2>1, <2>2, <2>3, <2>7 DEF HistoryOK
<1>4. ASSUME NEW m \in Message, NEW q \in Kind, Acknowledge(m, q), queue' = queue, content' = content
      PROVE  MailOK'
    BY <1>0, <1>4, Acknowledged DEF MailOK
<1>5. ASSUME NEW m \in Message, HandleSample(m) \/ HandleStatus(m)
      PROVE  try' \in [Message -> 0..MaxTry] /\ MailOK' /\ RequestsOK' /\ HistoryOK'
    BY <1>3, <1>5 DEF HandleSample, HandleStatus
<1>6. ASSUME NEW m \in Message, SaveRow(m)
      PROVE  MailOK' /\ RequestsOK' /\ StoreOK'
    <2>1. MailOK'
        BY <1>4, <1>6 DEF SaveRow, Kind
    <2>2. RequestsOK'
        BY <1>6, RequestsKept DEF SaveRow
    <2>3. StoreOK'
        <3> DEFINE row == [msg |-> m, data |-> [f \in FieldsOf(m) |-> <<m, Head(SampleFields)>>]]
        <3>1. row.msg = m
            OBVIOUS
        <3>2. rows' = rows \cup {row} /\ stored' = stored /\ online' = online /\ elements' = elements
            BY <1>6 DEF SaveRow
        <3> HIDE DEF row
        <3> QED BY <1>0, <3>1, <3>2 DEF StoreOK
    <2> QED BY <2>1, <2>2, <2>3
<1>7. ASSUME NEW m \in Message, StatusDone(m)
      PROVE  MailOK' /\ RequestsOK'
    <2>1. MailOK'
        BY <1>4, <1>7 DEF StatusDone, Kind
    <2>2. RequestsOK'
        BY <1>7, RequestsKept DEF StatusDone
    <2> QED BY <2>1, <2>2
<1>8. ASSUME NEW m \in Message, SaveRowFails(m) \/ StatusFails(m)
      PROVE  MailOK' /\ RequestsOK' /\ HistoryOK'
    <2>1. PICK q \in Kind : Handled(m, q) /\ Requeue(m, q)
        BY <1>8 DEF SaveRowFails, StatusFails, Kind
    <2>2. content' = content /\ try' = try /\ writes' \subseteq writes /\ last' = last
        BY <1>8 DEF SaveRowFails, StatusFails
    <2> QED BY <1>0, <2>1, <2>2, Requeued, RequestsKept DEF HistoryOK
<1>9. ASSUME Crash PROVE MailOK' /\ RequestsOK' /\ HistoryOK'
    <2>1. /\ content' = content /\ try' = try /\ last' = last
          /\ writes' \subseteq writes
          /\ queue' = [q \in Kind |-> handling[q] \o queue[q]]
          /\ handling' = [q \in Kind |-> <<>>]
        BY <1>9 DEF Crash
    <2>2. \A q \in Kind : /\ handling[q] \o queue[q] \in Seq(Message)
                          /\ ToSet(handling[q] \o queue[q]) \subseteq ToSet(handling[q]) \cup ToSet(queue[q])
        BY <1>0, ConcatToSet DEF MailOK
    <2>3. \A q \in Kind : ToSet(handling'[q]) = {}
        BY <2>1 DEF ToSet
    <2>4. MailOK'
        BY <1>0, <2>1, <2>2, <2>3 DEF MailOK
    <2>5. doubt' \in [Device -> SUBSET Field]
        BY <1>9 DEF Crash
    <2> QED BY <1>0, <2>1, <2>4, <2>5, RequestsKept DEF HistoryOK
<1>10. CASE UNCHANGED vars
    BY <1>0, <1>10 DEF vars, broker, database, MailOK, RequestsOK, StoreOK, HistoryOK
<1>11. CASE Next
    <2>1. ASSUME NEW m \in Message, MessageStep(m)
          PROVE  /\ up' \in BOOLEAN
                 /\ content' \in [Message -> Content \cup {None}]
                 /\ try' \in [Message -> 0..MaxTry]
                 /\ MailOK' /\ RequestsOK' /\ StoreOK' /\ HistoryOK'
        <3>1. CASE \E c \in Content : Publish(m, c)
            BY <1>1, <3>1
        <3>2. CASE HandleState(m)
            BY <1>0, <1>2, <3>2 DEF HandleState, database, StoreOK
        <3>3. CASE HandleSample(m) \/ HandleStatus(m)
            BY <1>0, <1>5, <3>3 DEF HandleSample, HandleStatus, HandleAwaiting, database, StoreOK
        <3>4. CASE SaveRow(m)
            BY <1>0, <1>6, <3>4 DEF SaveRow, HistoryOK
        <3>5. CASE StatusDone(m)
            BY <1>0, <1>7, <3>5 DEF StatusDone, database, StoreOK, HistoryOK
        <3>6. CASE SaveRowFails(m) \/ StatusFails(m)
            BY <1>0, <1>8, <3>6 DEF SaveRowFails, StatusFails, database, StoreOK
        <3> QED BY <2>1, <3>1, <3>2, <3>3, <3>4, <3>5, <3>6 DEF MessageStep
    <2>2. ASSUME NEW w \in writes, ApplyUpdate(w)
          PROVE  /\ up' \in BOOLEAN
                 /\ content' \in [Message -> Content \cup {None}]
                 /\ try' \in [Message -> 0..MaxTry]
                 /\ MailOK' /\ HistoryOK'
        BY <1>0, <2>2 DEF ApplyUpdate, broker, MailOK, HistoryOK
    <2>3. ASSUME NEW d \in Device, RemoveDevice(d)
          PROVE  /\ up' \in BOOLEAN
                 /\ content' \in [Message -> Content \cup {None}]
                 /\ try' \in [Message -> 0..MaxTry]
                 /\ MailOK' /\ RequestsOK' /\ StoreOK' /\ HistoryOK'
        BY <1>0, <2>3 DEF RemoveDevice, broker, MailOK, RequestsOK, StoreOK, HistoryOK
    <2>4. CASE Crash
        BY <1>0, <1>9, <2>4 DEF Crash, database, StoreOK
    <2>5. CASE Boot
        BY <1>0, <2>5 DEF Boot, broker, database, MailOK, RequestsOK, StoreOK, HistoryOK
    <2> QED BY <1>11, <2>1, <2>2, <2>3, <2>4, <2>5, Updated DEF Next
<1> QED BY <1>10, <1>11

\* Every reachable state is well typed: a message is in the queue of its kind and
\* was published, a request has something left to write that its message carries,
\* and an element list holds elements and messages only.
THEOREM TypeCorrect == Spec => []TypeOK
BY TypeInit, TypeStep, PTL DEF Spec

-----------------------------------------------------------------------------
(* One entry per element.                                                  *)

\* The lists are empty at the start.
LEMMA NamesInit == Init => NamesUnique
BY DEF Init, NamesUnique

\* Replace makes no second entry.
LEMMA NamesUpdated ==
    ASSUME TypeOK, NamesUnique, NEW w \in writes, ApplyUpdate(w)
    PROVE  NamesUnique'
<1> DEFINE f == Head(w.rest)
           d == Dev(w.msg)
           E == [name : Element, value : Message]
           item == [name |-> f, value |-> w.msg]
<1>1. CASE f # Online /\ d \in stored
    <2>1. f \in Field /\ w.msg \in Message
        BY Updating
    <2>2. item \in E
        BY <1>1, <2>1 DEF Field
    <2>3. d \in Device /\ elements \in [Device -> Seq(E)]
        BY <1>1 DEF TypeOK
    <2>4. elements' = [elements EXCEPT ![d] = Replace(elements[d], item)]
        BY <1>1 DEF ApplyUpdate
    <2> HIDE DEF E, item, d
    <2>5. Unique(Replace(elements[d], item))
        BY <2>2, <2>3, ReplaceProperties
    <2>6. \A c \in Device : elements'[c] = IF c = d THEN Replace(elements[d], item) ELSE elements[c]
        BY <2>3, <2>4
    <2> QED BY <2>5, <2>6 DEF NamesUnique, Unique
<1>2. CASE ~(f # Online /\ d \in stored)
    BY <1>2 DEF ApplyUpdate, NamesUnique
<1> QED BY <1>1, <1>2

\* Nothing but an update changes a list.
LEMMA NamesStep == TypeOK /\ NamesUnique /\ [Next]_vars => NamesUnique'
<1> SUFFICES ASSUME TypeOK, NamesUnique, [Next]_vars PROVE NamesUnique'
    OBVIOUS
<1>1. CASE elements' = elements
    BY <1>1 DEF NamesUnique
<1>2. ASSUME NEW m \in Message, MessageStep(m)
      PROVE  elements' = elements
    BY <1>2 DEF MessageStep, Publish, HandleState, HandleSample, HandleStatus, HandleAwaiting,
                SaveRow, SaveRowFails, StatusDone, StatusFails, database
<1>3. (\E d \in Device : RemoveDevice(d)) \/ Crash \/ Boot \/ UNCHANGED vars => elements' = elements
    BY DEF RemoveDevice, Crash, Boot, database, vars
<1> QED BY <1>1, <1>2, <1>3, NamesUpdated DEF Next

\* A device never has two entries for one element.
THEOREM OneEntryEach == Spec => []NamesUnique
<1>1. TypeOK /\ NamesUnique /\ [Next]_vars => NamesUnique'
    BY NamesStep
<1> QED BY <1>1, NamesInit, TypeCorrect, PTL DEF Spec

-----------------------------------------------------------------------------
(* What a field shows, and the board.                                      *)

\* With one entry per name, the first entry of a name is the only one.
LEMMA ValueOfEntry ==
    ASSUME NEW list, DOMAIN list \subseteq Nat, Unique(list), NEW e \in ToSet(list)
    PROVE  ValueOf(list, e.name) = e.value
<1>1. PICK i \in DOMAIN list : e = list[i]
    BY DEF ToSet
<1>2. {k \in DOMAIN list : list[k].name = e.name} = {i}
    BY <1>1 DEF Unique
<1>3. Min({i}) = i
    BY <1>1 DEF Min
<1> QED BY <1>1, <1>2, <1>3 DEF ValueOf

\* An element without an entry shows nothing.
LEMMA ValueOfNothing ==
    ASSUME NEW list, NEW f, \A e \in ToSet(list) : e.name # f
    PROVE  ValueOf(list, f) = None
<1>1. {k \in DOMAIN list : list[k].name = f} = {}
    BY DEF ToSet
<1> QED BY <1>1 DEF ValueOf

\* An update changes the value of its element and of no other.
LEMMA ValueReplaced ==
    ASSUME NEW E, NEW list \in Seq(E), Unique(list), NEW item \in E, NEW f
    PROVE  ValueOf(Replace(list, item), f) = IF f = item.name THEN item.value ELSE ValueOf(list, f)
<1> DEFINE new == Replace(list, item)
<1>1. /\ new \in Seq(E)
      /\ Unique(new)
      /\ item \in ToSet(new)
      /\ ToSet(new) \subseteq ToSet(list) \cup {item}
      /\ \A e \in ToSet(list) : \E r \in ToSet(new) : r.name = e.name
    BY ReplaceProperties
<1> HIDE DEF new
<1>2. DOMAIN list \subseteq Nat /\ DOMAIN new \subseteq Nat
    BY <1>1
<1>3. CASE f = item.name
    BY <1>1, <1>2, <1>3, ValueOfEntry DEF new
<1>4. CASE f # item.name /\ \E e \in ToSet(list) : e.name = f
    <2>1. PICK e \in ToSet(list) : e.name = f
        BY <1>4
    <2>2. PICK r \in ToSet(new) : r.name = f
        BY <1>1, <2>1
    <2>3. r \in ToSet(list)
        BY <1>1, <1>4, <2>2
    <2>4. ValueOf(new, f) = r.value
        BY <1>1, <1>2, <2>2, ValueOfEntry
    <2>5. ValueOf(list, f) = r.value
        BY <1>2, <2>2, <2>3, ValueOfEntry
    <2> QED BY <1>4, <2>4, <2>5 DEF new
<1>5. CASE f # item.name /\ ~\E e \in ToSet(list) : e.name = f
    <2>1. \A e \in ToSet(new) : e.name # f
        BY <1>1, <1>5
    <2> QED BY <1>5, <2>1, ValueOfNothing DEF new
<1> QED BY <1>3, <1>4, <1>5

\* What one update shows afterwards.
LEMMA ShownUpdated ==
    ASSUME TypeOK, NamesUnique, NEW w \in writes, ApplyUpdate(w), NEW c \in Device, NEW g \in Field
    PROVE  Shown(c, g)' = IF c = Dev(w.msg) /\ g = Head(w.rest) /\ c \in stored
                          THEN w.msg ELSE Shown(c, g)
<1> DEFINE f == Head(w.rest)
           d == Dev(w.msg)
           E == [name : Element, value : Message]
           item == [name |-> f, value |-> w.msg]
<1>0. f \in Field /\ w.msg \in Message /\ d \in Device
    BY Updating
<1>1. CASE d \notin stored
    <2>1. online' = online /\ elements' = elements
        BY <1>1 DEF ApplyUpdate
    <2> QED BY <1>1, <2>1 DEF Shown
<1>2. CASE d \in stored /\ f = Online
    <2>1. online' = [online EXCEPT ![d] = w.msg] /\ elements' = elements
        BY <1>2 DEF ApplyUpdate
    <2>2. online'[c] = IF c = d THEN w.msg ELSE online[c]
        BY <2>1 DEF TypeOK
    <2> QED BY <1>2, <2>1, <2>2 DEF Shown
<1>3. CASE d \in stored /\ f # Online
    <2>1. item \in E
        BY <1>0, <1>3 DEF Field
    <2>2. elements \in [Device -> Seq(E)] /\ Unique(elements[d])
        BY <1>0 DEF TypeOK, NamesUnique, Unique
    <2>3. item.name = f /\ item.value = w.msg
        OBVIOUS
    <2>4. elements' = [elements EXCEPT ![d] = Replace(elements[d], item)] /\ online' = online
        BY <1>3 DEF ApplyUpdate
    <2> HIDE DEF E, item, d, f
    <2>5. ValueOf(Replace(elements[d], item), g) = IF g = f THEN w.msg ELSE ValueOf(elements[d], g)
        BY <1>0, <2>1, <2>2, <2>3, ValueReplaced
    <2>6. elements'[c] = IF c = d THEN Replace(elements[d], item) ELSE elements[c]
        BY <1>0, <2>2, <2>4
    <2>7. Shown(c, g)' = IF g = Online THEN online[c] ELSE ValueOf(elements'[c], g)
        BY <2>4 DEF Shown
    <2>8. CASE g = Online
        BY <1>3, <2>7, <2>8 DEF Shown, f, d
    <2>9. CASE g # Online
        BY <1>3, <2>5, <2>6, <2>7, <2>9 DEF Shown, f, d
    <2> QED BY <2>8, <2>9
<1> QED BY <1>1, <1>2, <1>3

\* The board is empty at the start.
LEMMA BoardInit == Init => Board!Init
<1> SUFFICES ASSUME Init PROVE Board!Init
    OBVIOUS
<1>1. ASSUME NEW d \in Device, NEW f \in Field PROVE Shown(d, f) = None
    <2>1. online[d] = None /\ ToSet(elements[d]) = {}
        BY DEF Init, ToSet
    <2> QED BY <2>1, ValueOfNothing DEF Shown
<1> QED BY <1>1 DEF Board!Init, Board!Empty, board

\* A step that leaves the collection alone leaves the board alone.
LEMMA BoardKept ==
    ASSUME stored' = stored, online' = online, elements' = elements
    PROVE  board' = board
BY DEF board, Shown, ValueOf

\* An update is one Put, or nothing if its device was removed.
LEMMA BoardUpdated ==
    ASSUME TypeOK, NamesUnique, NEW w \in writes, ApplyUpdate(w)
    PROVE  [Board!Next]_board
<1> DEFINE f == Head(w.rest)
           d == Dev(w.msg)
<1>1. f \in Field /\ w.msg \in Message /\ d \in Device /\ stored' = stored
    BY Updating DEF ApplyUpdate
<1>2. \A c \in Device, g \in Field :
         Shown(c, g)' = IF c = d /\ g = f /\ c \in stored THEN w.msg ELSE Shown(c, g)
    BY ShownUpdated
<1> HIDE DEF f, d
<1>3. CASE d \notin stored
    BY <1>1, <1>2, <1>3 DEF board
<1>4. CASE d \in stored
    <2>1. ASSUME NEW c \in Device, NEW g \in Field
          PROVE  board'[c][g] = IF c = d /\ g = f THEN w.msg ELSE board[c][g]
        BY <1>1, <1>2, <1>4 DEF board
    <2>2. /\ board = [c \in Device |-> board[c]] /\ board' = [c \in Device |-> board'[c]]
          /\ \A c \in Device : /\ board[c] = [g \in Field |-> board[c][g]]
                               /\ board'[c] = [g \in Field |-> board'[c][g]]
        BY DEF board
    <2>3. board' = [board EXCEPT ![d][f] = w.msg]
        <3> HIDE DEF board
        <3> DEFINE b == board
                   n == board'
        <3>1. ASSUME NEW c \in Device, c # d PROVE n[c] = b[c]
            BY <2>1, <2>2, <3>1
        <3>2. n[d] = [b[d] EXCEPT ![f] = w.msg]
            BY <1>1, <2>1, <2>2
        <3> QED BY <1>1, <2>2, <3>1, <3>2
    <2> QED BY <1>1, <2>3 DEF Board!Next, Board!Put
<1> QED BY <1>3, <1>4

\* A removal is one Forget.
LEMMA BoardRemoved ==
    ASSUME TypeOK, NEW d \in Device, RemoveDevice(d)
    PROVE  Board!Next
<1>1. stored' = stored \ {d} /\ online' = online /\ elements' = elements
    BY DEF RemoveDevice
<1>2. \A c \in Device, g \in Field : Shown(c, g)' = Shown(c, g)
    BY <1>1 DEF Shown, ValueOf
<1>3. board' = [board EXCEPT ![d] = [f \in Field |-> None]]
    BY <1>1, <1>2 DEF board
<1> QED BY <1>3 DEF Board!Next, Board!Forget, Board!Empty

\* Every step is a step of the board or leaves it alone.
LEMMA BoardStep == TypeOK /\ NamesUnique /\ [Next]_vars => [Board!Next]_board
<1> SUFFICES ASSUME TypeOK, NamesUnique, [Next]_vars PROVE [Board!Next]_board
    OBVIOUS
<1>1. ASSUME NEW m \in Message, MessageStep(m)
      PROVE  board' = board
    BY <1>1, BoardKept
       DEF MessageStep, Publish, HandleState, HandleSample, HandleStatus, HandleAwaiting,
           SaveRow, SaveRowFails, StatusDone, StatusFails, database
<1>2. CASE Crash \/ Boot \/ UNCHANGED vars
    BY <1>2, BoardKept DEF Crash, Boot, database, vars
<1> QED BY <1>1, <1>2, BoardUpdated, BoardRemoved DEF Next

\* Whatever the messages, requests and restarts do, the collection behaves as the
\* board: an update is one Put or changes nothing, a removal is one Forget.
THEOREM Implementation == Spec => ImplementsBoard
<1>1. Init => Board!Init
    BY BoardInit
<1>2. TypeOK /\ NamesUnique /\ [Next]_vars => [Board!Next]_board
    BY BoardStep
<1> QED BY <1>1, <1>2, TypeCorrect, OneEntryEach, PTL DEF Spec, ImplementsBoard, Board!Spec

-----------------------------------------------------------------------------
(* The last value.                                                         *)

\* Messages published that carry field f of device d.
Carriers(d, f) == {m \in Message : content[m] # None /\ Dev(m) = d /\ f \in FieldsOf(m)}

\* No member of C comes after the last x in s.
Ordered(s, C, x) ==
    \A j \in DOMAIN s : s[j] \in C => \E i \in DOMAIN s : j <= i /\ s[i] \in C /\ s[i] = x

InOrder(d, f) == \A q \in Kind : Ordered(queue[q], Carriers(d, f), last[d][f])
Idle(d, f) == \A q \in Kind : ToSet(queue[q]) \cap Carriers(d, f) = {}

\* As long as a field is not in doubt, the message published last is the last one
\* waiting for it; when none waits, only its requests are on their way; and when
\* none is on its way either, its value is shown.
Fresh(d, f) ==
    \/ f \in doubt[d]
    \/ /\ InOrder(d, f)
       /\ Idle(d, f) => \A w \in Writing(d, f) : w.msg = last[d][f]
       /\ Idle(d, f) /\ Writing(d, f) = {} /\ d \in stored => Shown(d, f) = last[d][f]

FreshInv == \A d \in Device, f \in Field : Fresh(d, f)

\* A message that is published is the last one.
LEMMA OrderedAppendNew ==
    ASSUME NEW M, NEW s \in Seq(M), NEW C, NEW x \in C, x \in M
    PROVE  Ordered(Append(s, x), C, x)
<1>1. /\ Len(s) \in Nat /\ DOMAIN Append(s, x) = 1..(Len(s) + 1)
      /\ Append(s, x)[Len(s) + 1] = x
    OBVIOUS
<1>2. \A j \in 1..(Len(s) + 1) : j <= Len(s) + 1 /\ Len(s) + 1 \in 1..(Len(s) + 1)
    BY <1>1
<1> QED BY <1>1, <1>2 DEF Ordered

\* A message without the field does not come between.
LEMMA OrderedAppendOther ==
    ASSUME NEW M, NEW s \in Seq(M), NEW C, NEW x, NEW y \in M, y \notin C, Ordered(s, C, x)
    PROVE  Ordered(Append(s, y), C, x)
<1>1. /\ Len(s) \in Nat /\ DOMAIN s = 1..Len(s) /\ DOMAIN Append(s, y) = 1..(Len(s) + 1)
      /\ \A i \in 1..Len(s) : Append(s, y)[i] = s[i]
      /\ Append(s, y)[Len(s) + 1] = y
    OBVIOUS
<1>2. ASSUME NEW j \in 1..(Len(s) + 1), Append(s, y)[j] \in C
      PROVE  \E i \in 1..(Len(s) + 1) : j <= i /\ Append(s, y)[i] \in C /\ Append(s, y)[i] = x
    <2>1. j # Len(s) + 1
        BY <1>1, <1>2
    <2>2. j \in 1..Len(s)
        BY <1>1, <2>1
    <2>3. PICK i \in 1..Len(s) : j <= i /\ s[i] \in C /\ s[i] = x
        BY <1>1, <1>2, <2>2 DEF Ordered
    <2>4. i \in 1..(Len(s) + 1)
        BY <1>1
    <2> QED BY <1>1, <2>3, <2>4
<1> QED BY <1>1, <1>2 DEF Ordered

\* A delivery keeps the order, and the last one to be delivered is x.
LEMMA OrderedTail ==
    ASSUME NEW M, NEW s \in Seq(M), s # <<>>, NEW C, NEW x, Ordered(s, C, x)
    PROVE  /\ Ordered(Tail(s), C, x)
           /\ Head(s) \in C /\ ToSet(Tail(s)) \cap C = {} => Head(s) = x
<1>1. /\ Len(s) \in Nat /\ 1 <= Len(s) /\ DOMAIN s = 1..Len(s) /\ Head(s) = s[1]
      /\ DOMAIN Tail(s) = 1..(Len(s) - 1)
      /\ \A i \in 1..(Len(s) - 1) : Tail(s)[i] = s[i + 1]
    OBVIOUS
<1>2. ASSUME NEW j \in 1..Len(s), s[j] \in C
      PROVE  \E i \in 1..Len(s) : j <= i /\ s[i] \in C /\ s[i] = x
    BY <1>1, <1>2 DEF Ordered
<1>3. ASSUME NEW j \in 1..(Len(s) - 1), Tail(s)[j] \in C
      PROVE  \E i \in 1..(Len(s) - 1) : j <= i /\ Tail(s)[i] \in C /\ Tail(s)[i] = x
    <2>1. j + 1 \in 1..Len(s) /\ s[j + 1] \in C
        BY <1>1, <1>3
    <2>2. PICK i \in 1..Len(s) : j + 1 <= i /\ s[i] \in C /\ s[i] = x
        BY <1>2, <2>1
    <2>3. i - 1 \in 1..(Len(s) - 1) /\ j <= i - 1 /\ (i - 1) + 1 = i
        BY <1>1, <2>2
    <2> QED BY <1>1, <2>2, <2>3
<1>4. ASSUME Head(s) \in C, ToSet(Tail(s)) \cap C = {} PROVE Head(s) = x
    <2>1. 1 \in 1..Len(s)
        BY <1>1
    <2>2. PICK i \in 1..Len(s) : s[i] \in C /\ s[i] = x
        BY <1>1, <1>2, <1>4, <2>1
    <2>3. CASE i = 1
        BY <1>1, <2>2, <2>3
    <2>4. CASE i # 1
        <3>1. i - 1 \in 1..(Len(s) - 1) /\ (i - 1) + 1 = i
            BY <1>1, <2>4
        <3>2. s[i] \in ToSet(Tail(s))
            BY <1>1, <3>1 DEF ToSet
        <3> QED BY <1>4, <2>2, <3>2
    <2> QED BY <2>3, <2>4
<1> QED BY <1>1, <1>3, <1>4 DEF Ordered

\* Putting x back, or messages that are not in C, keeps the order.
LEMMA OrderedConcat ==
    ASSUME NEW M, NEW s \in Seq(M), NEW t \in Seq(M), NEW C, NEW x, Ordered(t, C, x),
           \A n \in ToSet(s) : n \in C => n = x
    PROVE  Ordered(s \o t, C, x)
<1>1. /\ Len(s) \in Nat /\ Len(t) \in Nat /\ DOMAIN s = 1..Len(s) /\ DOMAIN t = 1..Len(t)
      /\ DOMAIN (s \o t) = 1..(Len(s) + Len(t))
      /\ \A i \in 1..(Len(s) + Len(t)) :
            (s \o t)[i] = IF i <= Len(s) THEN s[i] ELSE t[i - Len(s)]
    OBVIOUS
<1>2. ASSUME NEW j \in 1..(Len(s) + Len(t)), (s \o t)[j] \in C
      PROVE  \E i \in 1..(Len(s) + Len(t)) : j <= i /\ (s \o t)[i] \in C /\ (s \o t)[i] = x
    <2>1. CASE j <= Len(s)
        <3>1. (s \o t)[j] = s[j] /\ j \in 1..Len(s) /\ j <= j
            BY <1>1, <2>1
        <3>2. s[j] \in ToSet(s)
            BY <1>1, <3>1 DEF ToSet
        <3> QED BY <1>2, <3>1, <3>2
    <2>2. CASE ~(j <= Len(s))
        <3>1. j - Len(s) \in 1..Len(t) /\ (s \o t)[j] = t[j - Len(s)]
            BY <1>1, <2>2
        <3>2. PICK i \in 1..Len(t) : j - Len(s) <= i /\ t[i] \in C /\ t[i] = x
            BY <1>1, <1>2, <3>1 DEF Ordered
        <3>3. /\ Len(s) + i \in 1..(Len(s) + Len(t)) /\ j <= Len(s) + i
              /\ ~(Len(s) + i <= Len(s)) /\ (Len(s) + i) - Len(s) = i
            BY <1>1, <3>2
        <3>4. (s \o t)[Len(s) + i] = t[i]
            BY <1>1, <3>3
        <3> QED BY <3>2, <3>3, <3>4
    <2> QED BY <2>1, <2>2
<1> QED BY <1>1, <1>2 DEF Ordered

\* If nothing but x is in C, the order does not matter.
LEMMA OrderedOnly ==
    ASSUME NEW M, NEW s \in Seq(M), NEW C, NEW x, \A n \in ToSet(s) : n \in C => n = x
    PROVE  Ordered(s, C, x)
<1>1. \A j \in DOMAIN s : s[j] \in ToSet(s) /\ j <= j
    BY DEF ToSet
<1> QED BY <1>1 DEF Ordered

\* A field belongs to one kind of message.
LEMMA KindOfField ==
    ASSUME NEW a \in Content, NEW b \in Content, NEW f, f \in ToSet(a.fields), f \in ToSet(b.fields)
    PROVE  a.kind = b.kind
<1>1. \A c \in Content : \/ c.kind = "state" /\ c.fields \in StateFields
                         \/ c.kind = "sample" /\ c.fields = SampleFields
                         \/ c.kind = "status" /\ c.fields = <<Online>>
    BY DEF Content
<1>2. ToSet(<<Online>>) = {Online}
    BY DEF ToSet
<1> QED BY <1>1, <1>2, FieldsAssumption

\* Only a publication changes who carries a field.
LEMMA CarriersKept ==
    ASSUME content' = content
    PROVE  \A d, f : Carriers(d, f)' = Carriers(d, f)
BY DEF Carriers, Dev, FieldsOf

\* A step that changes neither the queues nor the requests nor the values.
LEMMA FreshKept ==
    ASSUME FreshInv, content' = content, queue' = queue, writes' = writes, last' = last, doubt' = doubt,
           stored' \subseteq stored, online' = online, elements' = elements
    PROVE  FreshInv'
<1> SUFFICES ASSUME NEW d \in Device, NEW f \in Field PROVE Fresh(d, f)'
    BY DEF FreshInv
<1>1. Fresh(d, f)
    BY DEF FreshInv
<1>2. Carriers(d, f)' = Carriers(d, f)
    BY CarriersKept
<1>3. InOrder(d, f)' = InOrder(d, f) /\ Idle(d, f)' = Idle(d, f)
    BY <1>2 DEF InOrder, Idle
<1>4. Writing(d, f)' = Writing(d, f) /\ Shown(d, f)' = Shown(d, f)
    BY DEF Writing, Dev, Shown, ValueOf
<1> QED BY <1>1, <1>3, <1>4 DEF Fresh

\* What is published is the last value of its fields, and is waiting.
LEMMA FreshPublished ==
    ASSUME TypeOK, FreshInv, NEW m \in Message, NEW c \in Content, Publish(m, c)
    PROVE  FreshInv'
<1> SUFFICES ASSUME NEW d \in Device, NEW f \in Field PROVE Fresh(d, f)'
    BY DEF FreshInv
<1>1. /\ content[m] = None /\ content' = [content EXCEPT ![m] = c]
      /\ queue' = [queue EXCEPT ![c.kind] = Append(queue[c.kind], m)]
      /\ last' = [last EXCEPT ![c.dev] =
                     [g \in Field |-> IF g \in ToSet(c.fields) THEN m ELSE last[c.dev][g]]]
      /\ writes' = writes /\ doubt' = doubt
      /\ stored' = stored /\ online' = online /\ elements' = elements
    BY DEF Publish, database
<1>2. /\ c.kind \in Kind /\ c.dev \in Device /\ c # None
      /\ content \in [Message -> Content \cup {None}]
      /\ queue \in [Kind -> Seq(Message)]
    BY Fields, NoneAssumption DEF TypeOK
<1>3. /\ content'[m] = c
      /\ \A n \in Message : n # m => content'[n] = content[n]
      /\ queue'[c.kind] = Append(queue[c.kind], m)
      /\ \A q \in Kind : q # c.kind => queue'[q] = queue[q]
    BY <1>1, <1>2
<1>4. \A q \in Kind : \A n \in ToSet(queue[q]) :
         n \in Message /\ n # m /\ content[n] \in Content /\ content[n].kind = q
    BY <1>1, Members DEF TypeOK
<1>5. Writing(d, f)' = Writing(d, f)
    <2>1. \A w \in writes : w.msg \in Message /\ w.msg # m
        BY <1>1 DEF TypeOK
    <2>2. \A w \in writes : content'[w.msg] = content[w.msg]
        BY <1>3, <2>1
    <2> QED BY <1>1, <2>2 DEF Writing, Dev
<1>6. Shown(d, f)' = Shown(d, f)
    BY <1>1 DEF Shown, ValueOf
<1>7. CASE d = c.dev /\ f \in ToSet(c.fields)
    <2>1. m \in Carriers(d, f)'
        BY <1>2, <1>3, <1>7 DEF Carriers, Dev, FieldsOf
    <2>2. last'[d][f] = m
        BY <1>1, <1>2, <1>7 DEF TypeOK
    <2>3. \A q \in Kind : \A n \in ToSet(queue[q]) : n \in Carriers(d, f)' => q = c.kind
        <3> SUFFICES ASSUME NEW q \in Kind, NEW n \in ToSet(queue[q]), n \in Carriers(d, f)'
                     PROVE  q = c.kind
            OBVIOUS
        <3>1. content[n] \in Content /\ content[n].kind = q /\ content'[n] = content[n]
            BY <1>3, <1>4
        <3>2. f \in ToSet(content[n].fields)
            BY <3>1 DEF Carriers, FieldsOf
        <3> QED BY <1>7, <3>1, <3>2, KindOfField
    <2>4. ASSUME NEW q \in Kind PROVE Ordered(queue'[q], Carriers(d, f)', m)
        <3>1. CASE q = c.kind
            <4> DEFINE s == queue[c.kind]
                       C == Carriers(d, f)'
            <4>1. s \in Seq(Message) /\ queue'[q] = Append(s, m) /\ m \in C
                BY <1>2, <1>3, <2>1, <3>1
            <4> HIDE DEF s, C
            <4>2. Ordered(Append(s, m), C, m)
                BY <4>1, OrderedAppendNew
            <4> QED BY <4>1, <4>2 DEF C
        <3>2. CASE q # c.kind
            BY <1>2, <1>3, <2>3, <3>2, OrderedOnly
        <3> QED BY <3>1, <3>2
    <2>5. ~Idle(d, f)'
        <3>1. m \in ToSet(queue'[c.kind])
            BY <1>2, <1>3, AppendToSet
        <3> QED BY <1>2, <2>1, <3>1 DEF Idle
    <2> QED BY <2>2, <2>4, <2>5 DEF Fresh, InOrder
<1>8. CASE ~(d = c.dev /\ f \in ToSet(c.fields))
    <2>1. last'[d][f] = last[d][f]
        BY <1>1, <1>2, <1>8 DEF TypeOK
    <2>2. m \notin Carriers(d, f)' /\ m \notin Carriers(d, f)
        BY <1>1, <1>3, <1>8 DEF Carriers, Dev, FieldsOf
    <2>3. Carriers(d, f)' = Carriers(d, f)
        BY <1>3, <2>2 DEF Carriers, Dev, FieldsOf
    <2>4. InOrder(d, f) => InOrder(d, f)'
        <3> SUFFICES ASSUME InOrder(d, f), NEW q \in Kind
                     PROVE  Ordered(queue'[q], Carriers(d, f), last[d][f])
            BY <2>1, <2>3 DEF InOrder
        <3>1. Ordered(queue[q], Carriers(d, f), last[d][f])
            BY DEF InOrder
        <3>2. CASE q = c.kind
            <4> DEFINE s == queue[q]
                       C == Carriers(d, f)
                       x == last[d][f]
            <4>1. s \in Seq(Message) /\ queue'[q] = Append(s, m) /\ m \notin C /\ Ordered(s, C, x)
                BY <1>2, <1>3, <2>2, <3>1, <3>2
            <4> HIDE DEF s, C, x
            <4>2. Ordered(Append(s, m), C, x)
                BY <4>1, OrderedAppendOther
            <4> QED BY <4>1, <4>2 DEF C, x
        <3>3. CASE q # c.kind
            BY <1>3, <3>1, <3>3
        <3> QED BY <3>2, <3>3
    <2>5. Idle(d, f)' => Idle(d, f)
        <3>0. queue[c.kind] \in Seq(Message)
            BY <1>2
        <3>1. ToSet(Append(queue[c.kind], m)) = ToSet(queue[c.kind]) \cup {m}
            BY <3>0, AppendToSet
        <3>2. \A q \in Kind : ToSet(queue[q]) \subseteq ToSet(queue'[q])
            BY <1>3, <3>1
        <3> QED BY <2>3, <3>2 DEF Idle
    <2>6. Fresh(d, f)
        BY DEF FreshInv
    <2> QED BY <1>1, <1>5, <1>6, <2>1, <2>4, <2>5, <2>6 DEF Fresh
<1> QED BY <1>7, <1>8

\* The head of a queue leaves it.
LEMMA Dequeued ==
    ASSUME TypeOK, NEW m, NEW q \in Kind, Receive(m, q), content' = content, last' = last,
           NEW d \in Device, NEW f \in Field
    PROVE  /\ InOrder(d, f) => InOrder(d, f)'
           /\ m \notin Carriers(d, f) => (Idle(d, f)' => Idle(d, f))
           /\ m \in Carriers(d, f) /\ InOrder(d, f) /\ Idle(d, f)' => last[d][f] = m
<1>1. /\ queue \in [Kind -> Seq(Message)] /\ queue[q] \in Seq(Message) /\ queue[q] # <<>>
      /\ m = Head(queue[q])
      /\ queue' = [queue EXCEPT ![q] = Tail(queue[q])]
    BY DEF TypeOK, Receive
<1>2. queue'[q] = Tail(queue[q]) /\ \A k \in Kind : k # q => queue'[k] = queue[k]
    BY <1>1
<1>3. Carriers(d, f)' = Carriers(d, f)
    BY CarriersKept
<1>4. ASSUME InOrder(d, f)
      PROVE  InOrder(d, f)' /\ (m \in Carriers(d, f) /\ Idle(d, f)' => last[d][f] = m)
    <2>1. \A k \in Kind : Ordered(queue[k], Carriers(d, f), last[d][f])
        BY <1>4 DEF InOrder
    <2>2. /\ Ordered(Tail(queue[q]), Carriers(d, f), last[d][f])
          /\ m \in Carriers(d, f) /\ ToSet(Tail(queue[q])) \cap Carriers(d, f) = {} => m = last[d][f]
        BY <1>1, <2>1, OrderedTail
    <2>3. \A k \in Kind : Ordered(queue'[k], Carriers(d, f), last[d][f])
        BY <1>2, <2>1, <2>2
    <2> QED BY <1>2, <1>3, <2>2, <2>3 DEF InOrder, Idle
<1>5. ToSet(queue[q]) \subseteq {m} \cup ToSet(Tail(queue[q]))
    <2>1. /\ Len(queue[q]) \in Nat /\ DOMAIN queue[q] = 1..Len(queue[q]) /\ m = queue[q][1]
          /\ DOMAIN Tail(queue[q]) = 1..(Len(queue[q]) - 1)
          /\ \A i \in 1..(Len(queue[q]) - 1) : Tail(queue[q])[i] = queue[q][i + 1]
        BY <1>1
    <2>2. \A i \in 1..Len(queue[q]) : i = 1 \/ (i - 1 \in 1..(Len(queue[q]) - 1) /\ (i - 1) + 1 = i)
        BY <2>1
    <2>3. \A i \in 1..Len(queue[q]) : queue[q][i] = m \/ queue[q][i] \in ToSet(Tail(queue[q]))
        <3> SUFFICES ASSUME NEW i \in 1..Len(queue[q]), i # 1
                     PROVE  queue[q][i] \in ToSet(Tail(queue[q]))
            BY <2>1
        <3>1. i - 1 \in 1..(Len(queue[q]) - 1) /\ queue[q][i] = Tail(queue[q])[i - 1]
            BY <2>1, <2>2
        <3> QED BY <2>1, <3>1 DEF ToSet
    <2> QED BY <2>1, <2>3 DEF ToSet
<1>6. m \notin Carriers(d, f) /\ Idle(d, f)' => Idle(d, f)
    BY <1>2, <1>3, <1>5 DEF Idle
<1> QED BY <1>4, <1>6

\* A request leaves: a field it meets another request for is in doubt.
LEMMA FreshLaunched ==
    ASSUME TypeOK, FreshInv, NEW m, NEW q \in Kind, Receive(m, q), Launch(m),
           content' = content, last' = last, UNCHANGED database
    PROVE  FreshInv'
<1> SUFFICES ASSUME NEW d \in Device, NEW f \in Field, f \notin doubt'[d]
             PROVE  /\ InOrder(d, f)'
                    /\ Idle(d, f)' => \A w \in Writing(d, f)' : w.msg = last'[d][f]
                    /\ Idle(d, f)' /\ Writing(d, f)' = {} /\ d \in stored' => Shown(d, f)' = last'[d][f]
    BY DEF FreshInv, Fresh
<1> DEFINE new == [msg |-> m, try |-> try'[m], rest |-> content[m].fields]
           Overlaps(g) == \E w \in Writing(Dev(m), g) : w.msg # m
           Stays(g) == /\ g \in doubt[Dev(m)]
                       /\ ~(/\ g \in FieldsOf(m) /\ last[Dev(m)][g] = m
                            /\ Waiting(Dev(m), g) = {m})
<1>1. /\ m \in Message /\ content[m] \in Content /\ content[m].kind = q
      /\ \A k \in Kind : ToSet(queue'[k]) \subseteq ToSet(queue[k])
      /\ queue' \in [Kind -> Seq(Message)]
    BY Received
<1>2. content[m] # None /\ Dev(m) \in Device
    BY <1>1, Fields, NoneAssumption DEF Dev
<1>3. /\ writes' = writes \cup {new}
      /\ doubt' = [doubt EXCEPT ![Dev(m)] =
                      {g \in Field : Stays(g) \/ (g \in FieldsOf(m) /\ Overlaps(g))}]
    BY DEF Launch
<1>4. /\ d = Dev(m) => ~Stays(f) /\ ~(f \in FieldsOf(m) /\ Overlaps(f))
      /\ d # Dev(m) => f \notin doubt[d]
    <2> HIDE DEF Stays, Overlaps
    <2> QED BY <1>2, <1>3 DEF TypeOK
<1>5. new.msg = m /\ new.rest = content[m].fields
    OBVIOUS
<1>6. Carriers(d, f)' = Carriers(d, f)
    BY CarriersKept
<1>7. m \in Carriers(d, f) <=> d = Dev(m) /\ f \in FieldsOf(m)
    BY <1>1, <1>2 DEF Carriers
<1>8. Writing(d, f)' = Writing(d, f) \cup (IF m \in Carriers(d, f) THEN {new} ELSE {})
    <2>1. Writing(d, f)' = {w \in writes' : Dev(w.msg) = d /\ f \in ToSet(w.rest)}
        BY DEF Writing, Dev
    <2> HIDE DEF new
    <2> QED BY <1>3, <1>5, <1>7, <2>1 DEF Writing, FieldsOf
<1>9. Shown(d, f)' = Shown(d, f) /\ stored' = stored
    BY DEF database, Shown, ValueOf
<1>10. CASE m \notin Carriers(d, f)
    <2>1. f \notin doubt[d]
        BY <1>4, <1>7, <1>10
    <2>2. Fresh(d, f)
        BY DEF FreshInv
    <2>3. /\ InOrder(d, f) => InOrder(d, f)'
          /\ Idle(d, f)' => Idle(d, f)
        BY <1>10, Dequeued
    <2> QED BY <1>8, <1>9, <1>10, <2>1, <2>2, <2>3 DEF Fresh
<1>11. CASE m \in Carriers(d, f)
    <2>1. d = Dev(m) /\ f \in FieldsOf(m)
        BY <1>7, <1>11
    <2>2. \A w \in Writing(d, f) : w.msg = m
        BY <1>4, <2>1
    <2>3. Writing(d, f)' # {} /\ \A w \in Writing(d, f)' : w.msg = m
        <3> HIDE DEF new
        <3> QED BY <1>5, <1>8, <1>11, <2>2
    <2>4. CASE f \notin doubt[d]
        <3>1. InOrder(d, f)
            BY <2>4 DEF FreshInv, Fresh
        <3>2. InOrder(d, f)' /\ (Idle(d, f)' => last[d][f] = m)
            BY <1>11, <3>1, Dequeued
        <3> QED BY <2>3, <3>2
    <2>5. CASE f \in doubt[d]
        <3>1. last[d][f] = m /\ Waiting(d, f) = {m}
            BY <1>4, <2>1, <2>5
        <3>2. \A k \in Kind : \A n \in ToSet(queue'[k]) : n \in Carriers(d, f) => n = m
            <4>1. \A k \in Kind : \A n \in ToSet(queue[k]) : n \in Carriers(d, f) => n \in Waiting(d, f)
                BY DEF Waiting, Carriers
            <4> QED BY <1>1, <3>1, <4>1
        <3>3. \A k \in Kind : Ordered(queue'[k], Carriers(d, f), m)
            BY <1>1, <3>2, OrderedOnly
        <3>4. InOrder(d, f)'
            BY <1>6, <3>1, <3>3 DEF InOrder
        <3> QED BY <2>3, <3>1, <3>4
    <2> QED BY <2>4, <2>5
<1> QED BY <1>10, <1>11

\* A message is put back: an older one puts its fields in doubt.
LEMMA FreshRequeued ==
    ASSUME TypeOK, FreshInv, NEW m, NEW q \in Kind, Handled(m, q), Requeue(m, q),
           content' = content, last' = last, UNCHANGED database,
           writes' \subseteq writes, \A w \in writes \ writes' : w.msg = m
    PROVE  FreshInv'
<1> SUFFICES ASSUME NEW d \in Device, NEW f \in Field, f \notin doubt'[d]
             PROVE  /\ InOrder(d, f)'
                    /\ Idle(d, f)' => \A w \in Writing(d, f)' : w.msg = last'[d][f]
                    /\ Idle(d, f)' /\ Writing(d, f)' = {} /\ d \in stored' => Shown(d, f)' = last'[d][f]
    BY DEF FreshInv, Fresh
<1>1. /\ queue' = [queue EXCEPT ![q] = <<m>> \o queue[q]]
      /\ doubt' = [c \in Device |-> doubt[c] \cup SetBack(c, m)]
      /\ queue \in [Kind -> Seq(Message)] /\ queue[q] \in Seq(Message)
      /\ handling[q] \in Seq(Message) /\ m \in ToSet(handling[q])
    BY DEF Requeue, TypeOK, Handled
<1>2. m \in Message
    BY <1>1, Members
<1>3. f \notin doubt[d] /\ f \notin SetBack(d, m)
    BY <1>1
<1>4. InOrder(d, f) /\ Fresh(d, f)
    BY <1>3 DEF FreshInv, Fresh
<1>5. m \in Carriers(d, f) => last[d][f] = m
    BY <1>3 DEF SetBack, Carriers
<1>6. Carriers(d, f)' = Carriers(d, f)
    BY CarriersKept
<1>7. /\ <<m>> \in Seq(Message) /\ ToSet(<<m>>) = {m}
      /\ queue'[q] = <<m>> \o queue[q] /\ \A k \in Kind : k # q => queue'[k] = queue[k]
    BY <1>1, <1>2 DEF ToSet
<1>8. InOrder(d, f)'
    <2> SUFFICES ASSUME NEW k \in Kind
                 PROVE  Ordered(queue'[k], Carriers(d, f), last[d][f])
        BY <1>6 DEF InOrder
    <2>1. Ordered(queue[k], Carriers(d, f), last[d][f])
        BY <1>4 DEF InOrder
    <2>2. CASE k = q
        <3> DEFINE s == <<m>>
                   t == queue[q]
                   C == Carriers(d, f)
                   x == last[d][f]
        <3>1. /\ s \in Seq(Message) /\ t \in Seq(Message) /\ Ordered(t, C, x)
              /\ \A n \in ToSet(s) : n \in C => n = x
            BY <1>1, <1>5, <1>7, <2>1, <2>2
        <3>2. queue'[k] = s \o t
            BY <1>7, <2>2
        <3> HIDE DEF s, t, C, x
        <3>3. Ordered(s \o t, C, x)
            BY <3>1, OrderedConcat
        <3> QED BY <3>2, <3>3 DEF C, x
    <2>3. CASE k # q
        BY <1>7, <2>1, <2>3
    <2> QED BY <2>2, <2>3
<1>9. ToSet(queue'[q]) = {m} \cup ToSet(queue[q])
    <2> DEFINE s == <<m>>
               t == queue[q]
    <2>1. s \in Seq(Message) /\ t \in Seq(Message) /\ queue'[q] = s \o t /\ ToSet(s) = {m}
        BY <1>1, <1>7
    <2> HIDE DEF s, t
    <2>2. ToSet(s \o t) = ToSet(s) \cup ToSet(t)
        BY <2>1, ConcatToSet
    <2> QED BY <2>1, <2>2 DEF t
<1>10. Idle(d, f)' => Idle(d, f) /\ m \notin Carriers(d, f)
    BY <1>6, <1>7, <1>9 DEF Idle
<1>11. m \notin Carriers(d, f) => Writing(d, f)' = Writing(d, f)
    <2> SUFFICES ASSUME m \notin Carriers(d, f), NEW w \in writes, Dev(w.msg) = d, f \in ToSet(w.rest)
                 PROVE  w \in writes'
        BY DEF Writing, Dev
    <2>1. w.msg \in Message /\ content[w.msg] # None /\ f \in FieldsOf(w.msg)
        BY Updating, NoneAssumption
    <2>2. w.msg \in Carriers(d, f)
        BY <2>1 DEF Carriers
    <2> QED BY <2>2
<1>12. Shown(d, f)' = Shown(d, f) /\ stored' = stored
    BY DEF database, Shown, ValueOf
<1> QED BY <1>3, <1>4, <1>8, <1>10, <1>11, <1>12 DEF Fresh

\* The last update of the last request shows the last value.
LEMMA FreshUpdated ==
    ASSUME TypeOK, NamesUnique, FreshInv, NEW w \in writes, ApplyUpdate(w)
    PROVE  FreshInv'
<1> SUFFICES ASSUME NEW d \in Device, NEW f \in Field, f \notin doubt'[d]
             PROVE  /\ InOrder(d, f)'
                    /\ Idle(d, f)' => \A v \in Writing(d, f)' : v.msg = last'[d][f]
                    /\ Idle(d, f)' /\ Writing(d, f)' = {} /\ d \in stored' => Shown(d, f)' = last'[d][f]
    BY DEF FreshInv, Fresh
<1> DEFINE next == [w EXCEPT !.rest = Tail(w.rest)]
<1>1. /\ content' = content /\ queue' = queue /\ last' = last /\ doubt' = doubt /\ stored' = stored
      /\ writes' = (writes \ {w}) \cup (IF Len(w.rest) = 1 THEN {} ELSE {next})
    BY DEF ApplyUpdate, broker
<1>2. /\ InOrder(d, f)
      /\ Idle(d, f) => \A v \in Writing(d, f) : v.msg = last[d][f]
      /\ Idle(d, f) /\ Writing(d, f) = {} /\ d \in stored => Shown(d, f) = last[d][f]
    BY <1>1 DEF FreshInv, Fresh
<1>3. /\ Head(w.rest) \in ToSet(w.rest)
      /\ Len(w.rest) # 1 => ToSet(w.rest) = {Head(w.rest)} \cup ToSet(Tail(w.rest))
      /\ Len(w.rest) = 1 => ToSet(w.rest) = {Head(w.rest)}
    BY Updating
<1>4. next.msg = w.msg /\ next.rest = Tail(w.rest)
    BY DEF TypeOK
<1>5. Carriers(d, f)' = Carriers(d, f)
    BY <1>1, CarriersKept
<1>6. InOrder(d, f)' = InOrder(d, f) /\ Idle(d, f)' = Idle(d, f)
    BY <1>1, <1>5 DEF InOrder, Idle
<1>7. Writing(d, f)' = {v \in writes' : Dev(v.msg) = d /\ f \in ToSet(v.rest)}
    BY <1>1 DEF Writing, Dev
<1> HIDE DEF next
<1>8. \A v \in Writing(d, f)' : v \in Writing(d, f) \/ (v.msg = w.msg /\ w \in Writing(d, f))
    BY <1>1, <1>3, <1>4, <1>7 DEF Writing
<1>9. Shown(d, f)' = IF d = Dev(w.msg) /\ f = Head(w.rest) /\ d \in stored THEN w.msg ELSE Shown(d, f)
    BY ShownUpdated
<1>10. ASSUME Idle(d, f), Writing(d, f)' = {}, d \in stored
       PROVE  Shown(d, f)' = last[d][f]
    <2>1. CASE w \in Writing(d, f)
        <3>1. f = Head(w.rest) /\ d = Dev(w.msg)
            BY <1>1, <1>3, <1>4, <1>7, <1>10, <2>1 DEF Writing
        <3> QED BY <1>2, <1>9, <1>10, <2>1, <3>1
    <2>2. CASE w \notin Writing(d, f)
        <3>1. Writing(d, f) = {}
            BY <1>1, <1>7, <1>10, <2>2 DEF Writing
        <3>2. ~(d = Dev(w.msg) /\ f = Head(w.rest))
            BY <1>3, <2>2 DEF Writing
        <3> QED BY <1>2, <1>9, <1>10, <3>1, <3>2
    <2> QED BY <2>1, <2>2
<1> QED BY <1>1, <1>2, <1>6, <1>8, <1>10

\* A restart puts in doubt what it loses or brings back.
LEMMA FreshCrashed ==
    ASSUME TypeOK, FreshInv, Crash
    PROVE  FreshInv'
<1>1. PICK lost \in SUBSET {w \in writes : w.rest = content[w.msg].fields} :
         /\ writes' = writes \ lost
         /\ doubt' = [d \in Device |->
                 {f \in Field : \/ f \in doubt[d]
                               \/ (\E w \in lost : Dev(w.msg) = d /\ f \in FieldsOf(w.msg))
                               \/ \E q \in Kind : \E m \in ToSet(handling[q]) : f \in SetBack(d, m)}]
    BY DEF Crash
<1> SUFFICES ASSUME NEW d \in Device, NEW f \in Field, f \notin doubt'[d]
             PROVE  /\ InOrder(d, f)'
                    /\ Idle(d, f)' => \A w \in Writing(d, f)' : w.msg = last'[d][f]
                    /\ Idle(d, f)' /\ Writing(d, f)' = {} /\ d \in stored' => Shown(d, f)' = last'[d][f]
    BY DEF FreshInv, Fresh
<1>2. /\ f \notin doubt[d]
      /\ \A w \in lost : ~(Dev(w.msg) = d /\ f \in FieldsOf(w.msg))
      /\ \A q \in Kind : \A m \in ToSet(handling[q]) : f \notin SetBack(d, m)
    BY <1>1
<1>3. /\ InOrder(d, f)
      /\ Idle(d, f) => \A w \in Writing(d, f) : w.msg = last[d][f]
      /\ Idle(d, f) /\ Writing(d, f) = {} /\ d \in stored => Shown(d, f) = last[d][f]
    BY <1>2 DEF FreshInv, Fresh
<1>4. /\ content' = content /\ last' = last
      /\ stored' = stored /\ online' = online /\ elements' = elements
      /\ \A q \in Kind : queue'[q] = handling[q] \o queue[q]
    BY DEF Crash, database
<1>5. \A q \in Kind : handling[q] \in Seq(Message) /\ queue[q] \in Seq(Message)
    BY DEF TypeOK
<1>6. Carriers(d, f)' = Carriers(d, f)
    BY <1>4, CarriersKept
<1>7. ASSUME NEW q \in Kind
      PROVE  /\ Ordered(queue'[q], Carriers(d, f), last[d][f])
             /\ ToSet(queue[q]) \subseteq ToSet(queue'[q])
    <2> DEFINE s == handling[q]
               t == queue[q]
               C == Carriers(d, f)
               x == last[d][f]
    <2>1. s \in Seq(Message) /\ t \in Seq(Message) /\ Ordered(t, C, x)
        BY <1>3, <1>5 DEF InOrder
    <2>2. \A n \in ToSet(s) : n \in C => n = x
        BY <1>2 DEF SetBack, Carriers
    <2>3. queue'[q] = s \o t
        BY <1>4
    <2> HIDE DEF s, t, C, x
    <2>4. Ordered(s \o t, C, x) /\ ToSet(t) \subseteq ToSet(s \o t)
        BY <2>1, <2>2, OrderedConcat, ConcatToSet
    <2> QED BY <2>3, <2>4 DEF C, x, t
<1>8. InOrder(d, f)'
    BY <1>4, <1>6, <1>7 DEF InOrder
<1>9. Idle(d, f)' => Idle(d, f)
    BY <1>6, <1>7 DEF Idle
<1>10. Writing(d, f)' = Writing(d, f)
    <2>1. ASSUME NEW w \in writes, Dev(w.msg) = d, f \in ToSet(w.rest)
          PROVE  w \notin lost
        <3>1. f \in FieldsOf(w.msg)
            BY <2>1, Updating
        <3> QED BY <1>2, <2>1, <3>1
    <2>2. Writing(d, f)' = {w \in writes' : Dev(w.msg) = d /\ f \in ToSet(w.rest)}
        BY <1>4 DEF Writing, Dev
    <2> QED BY <1>1, <2>1, <2>2 DEF Writing
<1>11. Shown(d, f)' = Shown(d, f)
    BY <1>4 DEF Shown, ValueOf
<1> QED BY <1>3, <1>4, <1>8, <1>9, <1>10, <1>11

\* Nothing is published and nothing shown at the start.
LEMMA FreshInit == Init => FreshInv
<1> SUFFICES ASSUME Init, NEW d \in Device, NEW f \in Field PROVE Fresh(d, f)
    BY DEF FreshInv
<1>1. /\ \A q \in Kind : queue[q] = <<>>
      /\ writes = {} /\ last[d][f] = None /\ online[d] = None /\ elements[d] = <<>>
    BY DEF Init
<1>2. ToSet(<<>>) = {} /\ DOMAIN <<>> = {}
    BY DEF ToSet
<1>3. Shown(d, f) = None
    BY <1>1, <1>2, ValueOfNothing DEF Shown
<1>4. InOrder(d, f)
    BY <1>1, <1>2 DEF InOrder, Ordered
<1> QED BY <1>1, <1>3, <1>4 DEF Fresh, Writing

\* Every step keeps the invariant.
LEMMA FreshStep == TypeOK /\ NamesUnique /\ FreshInv /\ [Next]_vars => FreshInv'
<1> SUFFICES ASSUME TypeOK, NamesUnique, FreshInv, [Next]_vars PROVE FreshInv'
    OBVIOUS
<1>1. ASSUME NEW m \in Message, HandleState(m)
      PROVE  FreshInv'
    <2>1. /\ Receive(m, "state") /\ "state" \in Kind /\ content' = content /\ last' = last
          /\ UNCHANGED database
        BY <1>1 DEF HandleState, Kind
    <2>2. CASE content[m].fields # <<>>
        BY <1>1, <2>1, <2>2, FreshLaunched DEF HandleState
    <2>3. CASE content[m].fields = <<>>
        <3>1. writes' = writes /\ doubt' = doubt
            BY <1>1, <2>3 DEF HandleState
        <3>2. \A d, f : m \notin Carriers(d, f)
            BY <2>3 DEF Carriers, FieldsOf, ToSet
        <3>3. \A d \in Device, f \in Field :
                 (InOrder(d, f) => InOrder(d, f)') /\ (Idle(d, f)' => Idle(d, f))
            BY <2>1, <3>2, Dequeued
        <3>4. \A d \in Device, f \in Field :
                 Writing(d, f)' = Writing(d, f) /\ Shown(d, f)' = Shown(d, f) /\ stored' = stored
            BY <2>1, <3>1 DEF Writing, Dev, Shown, ValueOf, database
        <3> QED BY <2>1, <3>1, <3>3, <3>4 DEF FreshInv, Fresh
    <2> QED BY <2>2, <2>3
<1>2. ASSUME NEW m \in Message, HandleSample(m) \/ HandleStatus(m)
      PROVE  FreshInv'
    BY <1>2, FreshLaunched DEF HandleSample, HandleStatus, HandleAwaiting, Kind
<1>3. ASSUME NEW m \in Message, SaveRow(m) \/ StatusDone(m)
      PROVE  FreshInv'
    BY <1>3, FreshKept DEF SaveRow, StatusDone, database
<1>4. ASSUME NEW m \in Message, SaveRowFails(m)
      PROVE  FreshInv'
    <2>1. /\ Handled(m, "sample") /\ Requeue(m, "sample") /\ "sample" \in Kind
          /\ content' = content /\ last' = last /\ UNCHANGED database /\ writes' = writes
        BY <1>4 DEF SaveRowFails, Kind
    <2> QED BY <2>1, FreshRequeued
<1>5. ASSUME NEW m \in Message, StatusFails(m)
      PROVE  FreshInv'
    <2>1. /\ Handled(m, "status") /\ Requeue(m, "status") /\ "status" \in Kind
          /\ content' = content /\ last' = last /\ UNCHANGED database
          /\ writes' \subseteq writes /\ \A w \in writes \ writes' : w.msg = m
        BY <1>5 DEF StatusFails, IsRequestOf, Kind
    <2> QED BY <2>1, FreshRequeued
<1>6. ASSUME NEW d \in Device, RemoveDevice(d)
      PROVE  FreshInv'
    BY <1>6, FreshKept DEF RemoveDevice, broker
<1>7. CASE Boot \/ UNCHANGED vars
    BY <1>7, FreshKept DEF Boot, vars, broker, database
<1>8. ASSUME NEW m \in Message, MessageStep(m)
      PROVE  FreshInv'
    BY <1>1, <1>2, <1>3, <1>4, <1>5, <1>8, FreshPublished DEF MessageStep
<1> QED BY <1>6, <1>7, <1>8, FreshUpdated, FreshCrashed DEF Next

\* What the invariant says of a field at rest.
LEMMA FreshShows == TypeOK /\ FreshInv => LatestUnlessInDoubt
<1> SUFFICES ASSUME TypeOK, FreshInv, NEW d \in stored, NEW f \in Field,
                    f \notin doubt[d], Waiting(d, f) = {}, Writing(d, f) = {}
             PROVE  Shown(d, f) = last[d][f]
    BY DEF LatestUnlessInDoubt
<1>1. d \in Device
    BY DEF TypeOK
<1>2. Idle(d, f)
    BY DEF Idle, Waiting, Carriers
<1> QED BY <1>1, <1>2 DEF FreshInv, Fresh

\* Once nothing is waiting or on its way, a field that none of the named accidents
\* happened to shows what its device published last.
THEOREM LastValueShown == Spec => []LatestUnlessInDoubt
<1>1. TypeOK /\ NamesUnique /\ FreshInv /\ [Next]_vars => FreshInv'
    BY FreshStep
<1>2. Init => FreshInv
    BY FreshInit
<1> QED BY <1>1, <1>2, FreshShows, TypeCorrect, OneEntryEach, PTL DEF Spec

==============================================================================
