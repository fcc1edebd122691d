------------------------------ MODULE FrameLemmas ------------------------------
(* Lemmas about the tables the node and the converter build from their      *)
(* parameters, and about what FrameMeaning says of the same parameters.     *)
EXTENDS FrameMeaning, NaturalsInduction, WellFoundedInduction, FiniteSetTheorems, TLAPS

(* A non-empty set of positions of a list has a least and a last one.      *)
LEMMA LeastExists ==
  ASSUME NEW S, S \subseteq Nat, S # {}
  PROVE  \E x \in S : \A y \in S : x <= y
<1>1. \E x \in S : \A y \in S : ~(<<y, x>> \in OpToRel(<, Nat))
  BY WFMin, NatLessThanWellFounded
<1>2. \A x, y \in Nat : y < x => <<y, x>> \in OpToRel(<, Nat)
  BY DEF OpToRel
<1>3. PICK x \in S : \A y \in S : ~(<<y, x>> \in OpToRel(<, Nat))
  BY <1>1
<1>4. \A y \in S : ~(y < x)
  BY <1>2, <1>3
<1> QED
  BY <1>4

(* Min of such a set is its least element.                                 *)
LEMMA MinInSet ==
  ASSUME NEW S, S \subseteq Nat, S # {}
  PROVE  Min(S) \in S /\ \A y \in S : Min(S) <= y
  BY LeastExists DEF Min

(* Max is the last one.                                                    *)
LEMMA MaxInSet ==
  ASSUME NEW n \in Nat, NEW S, S \subseteq 1 .. n, S # {}
  PROVE  Max(S) \in S /\ \A y \in S : Max(S) >= y
<1> DEFINE R == {n - x : x \in S}
<1>1. R \subseteq Nat /\ R # {}
  <2>1. PICK x \in S : TRUE
    OBVIOUS
  <2>2. n - x \in R
    OBVIOUS
  <2>3. R \subseteq Nat
    OBVIOUS
  <2> QED
    BY <2>2, <2>3
<1>2. PICK r \in R : \A y \in R : r <= y
  BY <1>1, LeastExists
<1>3. PICK x \in S : r = n - x
  BY <1>2
<1>4. \A y \in S : x >= y
  <2> SUFFICES ASSUME NEW y \in S PROVE x >= y
    OBVIOUS
  <2>1. r <= n - y
    BY <1>2
  <2> QED
    BY <1>3, <2>1
<1> QED
  BY <1>4 DEF Max

(* A map filled by a loop has only keys and values the loop wrote.         *)
LEMMA WriteInOrderType ==
  ASSUME NEW n \in Nat, NEW K, NEW V,
         NEW keys \in [1 .. n -> SUBSET K], NEW vals \in [1 .. n -> V]
  PROVE  /\ DOMAIN WriteInOrder(keys, vals) \subseteq K
         /\ \A k \in DOMAIN WriteInOrder(keys, vals) : WriteInOrder(keys, vals)[k] \in V
<1> DEFINE w == WriteInOrder(keys, vals)
<1>1. DOMAIN w = UNION Range(keys)
  BY DEF WriteInOrder
<1>2. DOMAIN w \subseteq K
  BY <1>1 DEF Range
<1>3. ASSUME NEW k \in DOMAIN w PROVE w[k] \in V
  <2> DEFINE S == {i \in DOMAIN keys : k \in keys[i]}
  <2>1. S \subseteq 1 .. n /\ S # {}
    BY <1>1 DEF Range
  <2>2. Max(S) \in 1 .. n
    BY <2>1, MaxInSet
  <2>3. w[k] = vals[Max(S)]
    BY <1>1 DEF WriteInOrder
  <2> QED
    BY <2>2, <2>3
<1> QED
  BY <1>2, <1>3

--------------------------------------------------------------------------------
(* Ids of the tables are uint16_t.                                         *)
LEMMA IdByPlaceType ==
  ASSUME NEW T, NEW names \in Seq(T)
  PROVE  \A x \in DOMAIN IdByPlace(names) : IdByPlace(names)[x] \in 0 .. MaxTableId
<1> DEFINE n == Len(names)
           keys == [i \in DOMAIN names |-> {names[i]}]
           vals == [i \in DOMAIN names |-> AsTableId(i)]
<1>1. n \in Nat /\ DOMAIN names = 1 .. n
  OBVIOUS
<1>2. keys \in [1 .. n -> SUBSET T]
  BY <1>1
<1>3. \A i \in Nat : AsTableId(i) \in 0 .. MaxTableId
  BY ParameterAssumption DEF AsTableId
<1>4. vals \in [1 .. n -> 0 .. MaxTableId]
  BY <1>1, <1>3
<1> HIDE DEF keys, vals, n
<1>5. \A x \in DOMAIN WriteInOrder(keys, vals) : WriteInOrder(keys, vals)[x] \in 0 .. MaxTableId
  BY <1>1, <1>2, <1>4, WriteInOrderType
<1> QED
  BY <1>5 DEF IdByPlace, keys, vals

(* The elements of a list of S are in S.                                   *)
LEMMA SeqElements ==
  ASSUME NEW T, NEW q \in Seq(T)
  PROVE  Len(q) \in Nat /\ DOMAIN q = 1 .. Len(q) /\ \A i \in DOMAIN q : q[i] \in T
  OBVIOUS

(* The map read from a list of named records.                              *)
LEMMA ByNameType ==
  ASSUME NEW K, NEW V, NEW list, NEW n \in Nat, DOMAIN list = 1 .. n,
         \A i \in DOMAIN list : list[i].name \in K,
         NEW vals \in [DOMAIN list -> V]
  PROVE  /\ DOMAIN ByName(list, vals) \subseteq K
         /\ \A k \in DOMAIN ByName(list, vals) : ByName(list, vals)[k] \in V
<1> DEFINE keys == [i \in DOMAIN list |-> {list[i].name}]
<1>0. vals \in [1 .. n -> V] /\ \A i \in 1 .. n : {list[i].name} \in SUBSET K
  OBVIOUS
<1>1. keys \in [1 .. n -> SUBSET K]
  BY <1>0
<1>2. ByName(list, vals) = WriteInOrder(keys, vals)
  BY DEF ByName
<1> HIDE DEF keys
<1>3. /\ DOMAIN WriteInOrder(keys, vals) \subseteq K
      /\ \A k \in DOMAIN WriteInOrder(keys, vals) : WriteInOrder(keys, vals)[k] \in V
  BY <1>0, <1>1, WriteInOrderType
<1> QED
  BY <1>2, <1>3

--------------------------------------------------------------------------------
(* Of the passes of a loop, the last one that writes the key k.            *)
LastToWrite(keys, k, i) ==
    /\ i \in DOMAIN keys /\ k \in keys[i]
    /\ \A j \in DOMAIN keys : j > i => k \notin keys[j]

(* A map filled by a loop has a key if some pass wrote it, and under it     *)
(* what the last pass that did has written.                                *)
LEMMA WriteInOrderHas ==
  ASSUME NEW n \in Nat, NEW keys, NEW vals, DOMAIN keys = 1 .. n, NEW k,
         k \in DOMAIN WriteInOrder(keys, vals)
  PROVE  \E i : LastToWrite(keys, k, i) /\ WriteInOrder(keys, vals)[k] = vals[i]
<1> DEFINE S == {i \in DOMAIN keys : k \in keys[i]}
<1>1. k \in UNION Range(keys)
  BY DEF WriteInOrder
<1>2. S # {} /\ S \subseteq 1 .. n
  BY <1>1 DEF Range
<1>3. PICK m \in S : m = Max(S) /\ \A j \in S : m >= j
  BY <1>2, MaxInSet
<1>4. WriteInOrder(keys, vals)[k] = vals[m]
  BY <1>1, <1>3 DEF WriteInOrder
<1>5. ASSUME NEW j \in 1 .. n, j > m, k \in keys[j] PROVE FALSE
  <2>1. j \in S
    BY <1>5
  <2>2. m >= j /\ m \in 1 .. n
    BY <1>2, <1>3, <2>1
  <2> QED
    BY <1>5, <2>2
<1>6. LastToWrite(keys, k, m)
  BY <1>2, <1>3, <1>5 DEF LastToWrite
<1> QED
  BY <1>4, <1>6

LEMMA WriteInOrderGives ==
  ASSUME NEW n \in Nat, NEW keys, NEW vals, DOMAIN keys = 1 .. n, NEW k, NEW i,
         LastToWrite(keys, k, i)
  PROVE  k \in DOMAIN WriteInOrder(keys, vals) /\ WriteInOrder(keys, vals)[k] = vals[i]
<1> DEFINE S == {j \in DOMAIN keys : k \in keys[j]}
<1>1. k \in UNION Range(keys)
  BY DEF Range, LastToWrite
<1>2. i \in S /\ S \subseteq 1 .. n
  BY DEF LastToWrite
<1>3. PICK m \in S : m = Max(S) /\ \A j \in S : m >= j
  BY <1>2, MaxInSet
<1>4. m = i
  <2>1. m >= i /\ ~(m > i)
    BY <1>2, <1>3 DEF LastToWrite
  <2> QED
    BY <1>2, <2>1
<1>5. WriteInOrder(keys, vals)[k] = vals[m]
  BY <1>1, <1>3 DEF WriteInOrder
<1> QED
  BY <1>1, <1>4, <1>5 DEF WriteInOrder

(* A key that is written at all is in the map.                             *)
LEMMA WriteInOrderDomain ==
  ASSUME NEW n \in Nat, NEW keys, NEW vals, DOMAIN keys = 1 .. n, NEW k
  PROVE  k \in DOMAIN WriteInOrder(keys, vals) <=> \E i \in 1 .. n : k \in keys[i]
  BY DEF WriteInOrder, Range

--------------------------------------------------------------------------------
(* The rank of an element in a finite set of numbers; InOrder puts the     *)
(* element of rank r at place r + 1.                                       *)
Rank(S, x) == Cardinality({y \in S : y < x})

LEMMA RankType ==
  ASSUME NEW S \in SUBSET Int, IsFiniteSet(S), NEW x \in S
  PROVE  Rank(S, x) \in 0 .. Cardinality(S) - 1
<1> DEFINE below == {y \in S : y < x}
<1>1. below \in SUBSET S /\ x \notin below
  OBVIOUS
<1>2. IsFiniteSet(below) /\ Cardinality(below) <= Cardinality(S) /\ Cardinality(below) # Cardinality(S)
  BY <1>1, FS_Subset
<1>3. Cardinality(below) \in Nat /\ Cardinality(S) \in Nat
  BY <1>2, FS_CardinalityType
<1> QED
  BY <1>2, <1>3 DEF Rank

(* Different elements have different ranks, in the same order.             *)
LEMMA RankOrder ==
  ASSUME NEW S \in SUBSET Int, IsFiniteSet(S), NEW x \in S, NEW z \in S, x < z
  PROVE  Rank(S, x) < Rank(S, z)
<1> DEFINE X == {y \in S : y < x}
           Z == {y \in S : y < z}
<1>1. X \in SUBSET Z /\ X # Z
  <2>1. x \in Z /\ x \notin X
    OBVIOUS
  <2>2. \A y \in X : y \in Int /\ y < x /\ x < z
    OBVIOUS
  <2>3. \A y \in X : y < z
    BY <2>2
  <2> QED
    BY <2>1, <2>3
<1>2. IsFiniteSet(Z)
  BY FS_Subset
<1>3. IsFiniteSet(X) /\ Cardinality(X) <= Cardinality(Z) /\ Cardinality(X) # Cardinality(Z)
  BY <1>1, <1>2, FS_Subset
<1>4. Cardinality(X) \in Nat /\ Cardinality(Z) \in Nat
  BY <1>2, <1>3, FS_CardinalityType
<1> QED
  BY <1>3, <1>4 DEF Rank

(* So every place has its element.                                         *)
LEMMA RankSurjective ==
  ASSUME NEW S \in SUBSET Int, IsFiniteSet(S), NEW r \in 0 .. Cardinality(S) - 1
  PROVE  \E x \in S : Rank(S, x) = r
<1> DEFINE R == 0 .. Cardinality(S) - 1
           rank == [x \in S |-> Rank(S, x)]
<1>1. Cardinality(S) \in Nat
  BY FS_CardinalityType
<1>2. IsFiniteSet(R) /\ Cardinality(R) = Cardinality(S)
  BY <1>1, FS_Interval
<1>3. rank \in [S -> R]
  BY RankType
<1>4. \A x, z \in S : rank[x] = rank[z] => x = z
  <2> SUFFICES ASSUME NEW x \in S, NEW z \in S, Rank(S, x) = Rank(S, z), x # z PROVE FALSE
    OBVIOUS
  <2>1. Rank(S, x) \in Int /\ Rank(S, z) \in Int
    BY <1>1, RankType
  <2>2. x < z \/ z < x
    OBVIOUS
  <2> QED
    BY <2>1, <2>2, RankOrder
<1>5. rank \in Injection(S, R)
  BY <1>3, <1>4 DEF Injection, IsInjective
<1> HIDE DEF R, rank
<1>6. rank \in Surjection(S, R)
  BY <1>2, <1>5, FS_Injection
<1> USE DEF R, rank
<1> QED
  BY <1>6 DEF Surjection

LEMMA InOrderAt ==
  ASSUME NEW S \in SUBSET Int, IsFiniteSet(S), NEW x \in S
  PROVE  /\ Rank(S, x) + 1 \in DOMAIN InOrder(S)
         /\ InOrder(S)[Rank(S, x) + 1] = x
<1> DEFINE k == Rank(S, x) + 1
<1>1. Cardinality(S) \in Nat /\ Rank(S, x) \in 0 .. Cardinality(S) - 1
  BY RankType, FS_CardinalityType
<1>2. k \in 1 .. Cardinality(S) /\ k - 1 = Rank(S, x)
  BY <1>1
<1>3. \A z \in S : Rank(S, z) = Rank(S, x) => z = x
  <2> SUFFICES ASSUME NEW z \in S, Rank(S, z) = Rank(S, x), z # x PROVE FALSE
    OBVIOUS
  <2>1. x < z \/ z < x
    OBVIOUS
  <2> QED
    BY <1>1, <2>1, RankOrder
<1>4. InOrder(S)[k] = CHOOSE z \in S : Rank(S, z) = k - 1
  BY <1>2 DEF InOrder, Rank
<1> HIDE DEF k
<1>5. (CHOOSE z \in S : Rank(S, z) = k - 1) = x
  BY <1>2, <1>3
<1> QED
  BY <1>2, <1>4, <1>5 DEF InOrder, k

(* InOrder(S) has exactly the elements of S, each at its rank.             *)
LEMMA InOrderType ==
  ASSUME NEW S \in SUBSET Int, IsFiniteSet(S)
  PROVE  /\ Cardinality(S) \in Nat
         /\ DOMAIN InOrder(S) = 1 .. Cardinality(S)
         /\ \A k \in 1 .. Cardinality(S) : InOrder(S)[k] \in S /\ Rank(S, InOrder(S)[k]) = k - 1
<1>1. Cardinality(S) \in Nat
  BY FS_CardinalityType
<1>2. ASSUME NEW k \in 1 .. Cardinality(S)
      PROVE  InOrder(S)[k] \in S /\ Rank(S, InOrder(S)[k]) = k - 1
  <2>1. k - 1 \in 0 .. Cardinality(S) - 1
    BY <1>1
  <2>2. PICK x \in S : Rank(S, x) = k - 1
    BY <2>1, RankSurjective
  <2>3. Rank(S, x) + 1 = k
    BY <2>2
  <2>4. InOrder(S)[k] = x
    BY <2>3, InOrderAt
  <2> QED
    BY <2>2, <2>4
<1> QED
  BY <1>1, <1>2 DEF InOrder

(* An element above all others comes last.                                 *)
LEMMA InOrderAppend ==
  ASSUME NEW S \in SUBSET Int, IsFiniteSet(S), NEW n \in Int, \A x \in S : x < n
  PROVE  /\ Cardinality(S \cup {n}) = Cardinality(S) + 1
         /\ \A k \in 1 .. Cardinality(S) : InOrder(S \cup {n})[k] = InOrder(S)[k]
         /\ InOrder(S \cup {n})[Cardinality(S) + 1] = n
<1> DEFINE T == S \cup {n}
<1>1. n \notin S
  OBVIOUS
<1>2. T \in SUBSET Int /\ IsFiniteSet(T) /\ Cardinality(T) = Cardinality(S) + 1
  BY <1>1, FS_AddElement
<1>3. \A x \in S : Rank(T, x) = Rank(S, x)
  <2> SUFFICES ASSUME NEW x \in S PROVE Rank(T, x) = Rank(S, x)
    OBVIOUS
  <2>1. {y \in T : y < x} = {y \in S : y < x}
    OBVIOUS
  <2> QED
    BY <2>1 DEF Rank
<1>4. Rank(T, n) = Cardinality(S)
  <2>0. ~(n < n) /\ \A y \in T : y \in S \/ y = n
    OBVIOUS
  <2>1. {y \in T : y < n} = S
    BY <2>0
  <2> QED
    BY <2>1 DEF Rank
<1> HIDE DEF T
<1>5. ASSUME NEW k \in 1 .. Cardinality(S)
      PROVE  InOrder(T)[k] = InOrder(S)[k]
  <2> DEFINE x == InOrder(S)[k]
  <2>1. x \in S /\ Rank(S, x) = k - 1 /\ Cardinality(S) \in Nat
    BY InOrderType
  <2>2. Rank(T, x) + 1 = k
    <3> HIDE DEF x
    <3>1. Rank(T, x) = Rank(S, x)
      BY <1>3, <2>1
    <3>2. k \in Int
      OBVIOUS
    <3> QED
      BY <2>1, <3>1, <3>2
  <2>3. x \in T
    BY <2>1 DEF T
  <2>4. InOrder(T)[Rank(T, x) + 1] = x
    BY <1>2, <2>3, InOrderAt
  <2> QED
    BY <2>2, <2>4
<1>6. InOrder(T)[Cardinality(S) + 1] = n
  <2>1. n \in T
    BY DEF T
  <2>2. InOrder(T)[Rank(T, n) + 1] = n
    BY <1>2, <2>1, InOrderAt
  <2> QED
    BY <1>4, <2>2
<1> QED
  BY <1>2, <1>5, <1>6 DEF T

(* What is listed in that order then gets one more element at its end.     *)
LEMMA ListedAppend ==
  ASSUME NEW S \in SUBSET Int, IsFiniteSet(S), NEW n \in Int, \A x \in S : x < n, NEW f
  PROVE  [i \in DOMAIN InOrder(S \cup {n}) |-> f[InOrder(S \cup {n})[i]]]
            = Append([i \in DOMAIN InOrder(S) |-> f[InOrder(S)[i]]], f[n])
<1> DEFINE T == S \cup {n}
           c == Cardinality(S)
           s == InOrder(S)
           t == InOrder(T)
           old == [i \in DOMAIN s |-> f[s[i]]]
<1>1. c \in Nat /\ DOMAIN s = 1 .. c
  BY InOrderType
<1>2. /\ Cardinality(T) = c + 1
      /\ \A k \in 1 .. c : t[k] = s[k]
      /\ t[c + 1] = n
  BY InOrderAppend
<1>3. T \in SUBSET Int /\ IsFiniteSet(T)
  BY FS_AddElement
<1> HIDE DEF T, s
<1>4. DOMAIN t = 1 .. c + 1
  BY <1>2, <1>3, InOrderType
<1> HIDE DEF t, c
<1>5. old = [i \in 1 .. c |-> f[s[i]]] /\ Len(old) = c
  BY <1>1
<1>6. Append(old, f[n]) = [i \in 1 .. c + 1 |-> IF i <= c THEN old[i] ELSE f[n]]
  <2> HIDE DEF old
  <2>1. \A i \in 1 .. c + 1 : i <= c \/ i = c + 1
    BY <1>1
  <2> QED
    BY <1>1, <1>5, <2>1
<1>7. [i \in DOMAIN t |-> f[t[i]]] = [i \in 1 .. c + 1 |-> IF i <= c THEN old[i] ELSE f[n]]
  <2>1. ASSUME NEW i \in 1 .. c + 1 PROVE f[t[i]] = IF i <= c THEN old[i] ELSE f[n]
    <3>1. CASE i <= c
      BY <1>1, <1>2, <1>5, <3>1
    <3>2. CASE ~(i <= c)
      <4>1. i = c + 1
        BY <1>1, <3>2
      <4> QED
        BY <1>2, <3>2, <4>1
    <3> QED
      BY <3>1, <3>2
  <2> QED
    BY <1>4, <2>1
<1> QED
  BY <1>6, <1>7 DEF s, t, T

(* Nothing is listed in no order.                                          *)
LEMMA InOrderEmpty == InOrder({}) = <<>>
<1>1. Cardinality({}) = 0
  BY FS_EmptySet
<1>2. 1 .. Cardinality({}) = {}
  BY <1>1
<1> QED
  BY <1>2 DEF InOrder

--------------------------------------------------------------------------------
IsList(q) == \E n \in Nat : q = [i \in 1 .. n |-> q[i]]

(* A list of a sequence type is one.                                       *)
LEMMA SeqIsList ==
  ASSUME NEW T, NEW q \in Seq(T)
  PROVE  IsList(q) /\ DOMAIN q = 1 .. Len(q) /\ Len(q) \in Nat
<1>1. Len(q) \in Nat /\ q = [i \in 1 .. Len(q) |-> q[i]]
  OBVIOUS
<1> QED
  BY <1>1 DEF IsList

(* A parameter set has lists, and elements of one name agree on the alias   *)
(* and on the expression.                                                  *)
WellFormed(p) ==
    /\ IsList(p.aliases) /\ IsList(p.domains) /\ IsList(p.schema) /\ IsList(p.transforms)
    /\ IsList(p.signal_id_names) /\ IsList(p.dbc.messages)
    /\ \A i \in DOMAIN p.schema : IsList(p.schema[i].signals)
    /\ \A i, j \in DOMAIN p.aliases :
          p.aliases[i].name = p.aliases[j].name => p.aliases[i].to = p.aliases[j].to
    /\ \A i, j \in DOMAIN p.transforms :
          p.transforms[i].name = p.transforms[j].name =>
              p.transforms[i].expression = p.transforms[j].expression

AliasMap(p) == ByName(p.aliases, [i \in DOMAIN p.aliases |-> p.aliases[i].to])
ExpressionMap(p) ==
    ByName(p.transforms, [i \in DOMAIN p.transforms |-> p.transforms[i].expression])

(* A map read from a list of named records has the names as its keys, and  *)
(* under each the value of the last record of that name.                   *)
LEMMA ByNameHas ==
  ASSUME NEW list, IsList(list), NEW vals, NEW x, x \in DOMAIN ByName(list, vals)
  PROVE  \E i \in DOMAIN list : list[i].name = x /\ ByName(list, vals)[x] = vals[i]
<1> DEFINE keys == [i \in DOMAIN list |-> {list[i].name}]
<1>1. PICK n \in Nat : DOMAIN list = 1 .. n
  BY DEF IsList
<1>2. DOMAIN keys = 1 .. n /\ ByName(list, vals) = WriteInOrder(keys, vals)
  BY <1>1 DEF ByName
<1> HIDE DEF keys
<1>2a. x \in DOMAIN WriteInOrder(keys, vals)
  BY <1>2
<1>3. PICK i : LastToWrite(keys, x, i) /\ WriteInOrder(keys, vals)[x] = vals[i]
  BY <1>2, <1>2a, WriteInOrderHas
<1> USE DEF keys
<1> QED
  BY <1>1, <1>2, <1>3 DEF LastToWrite

LEMMA ByNameDomain ==
  ASSUME NEW list, IsList(list), NEW vals, NEW x
  PROVE  x \in DOMAIN ByName(list, vals) <=> \E i \in DOMAIN list : list[i].name = x
<1> DEFINE keys == [i \in DOMAIN list |-> {list[i].name}]
<1>1. PICK n \in Nat : DOMAIN list = 1 .. n
  BY DEF IsList
<1>2. DOMAIN keys = 1 .. n /\ ByName(list, vals) = WriteInOrder(keys, vals)
  BY <1>1 DEF ByName
<1> HIDE DEF keys
<1>3. x \in DOMAIN WriteInOrder(keys, vals) <=> \E i \in 1 .. n : x \in keys[i]
  BY <1>2, WriteInOrderDomain
<1> USE DEF keys
<1> QED
  BY <1>1, <1>2, <1>3

(* apply_alias follows the alias there is.                                 *)
LEMMA AppliesAlias ==
  ASSUME NEW p, WellFormed(p), NEW router, router.aliases = AliasMap(p), NEW a, NEW b
  PROVE  /\ IsAlias(p, a, b) => apply_alias(router, a) = b
         /\ apply_alias(router, a) = b => IsAlias(p, a, b) \/ (a = b /\ \A t : ~IsAlias(p, a, t))
<1> DEFINE tos == [i \in DOMAIN p.aliases |-> p.aliases[i].to]
           aliases == ByName(p.aliases, tos)
<1>1. IsList(p.aliases) /\ router.aliases = aliases
  BY DEF WellFormed, AliasMap
<1>2. a \in DOMAIN aliases <=> \E i \in DOMAIN p.aliases : p.aliases[i].name = a
  BY <1>1, ByNameDomain
<1>3. a \in DOMAIN aliases =>
          \E i \in DOMAIN p.aliases : p.aliases[i].name = a /\ aliases[a] = tos[i]
  BY <1>1, ByNameHas
<1> HIDE DEF aliases
<1>4. a \in DOMAIN aliases => \E i \in DOMAIN p.aliases : p.aliases[i].name = a /\ aliases[a] = p.aliases[i].to
  BY <1>3
<1> HIDE DEF tos
<1>5. \A i, j \in DOMAIN p.aliases :
          p.aliases[i].name = p.aliases[j].name => p.aliases[i].to = p.aliases[j].to
  BY DEF WellFormed
<1>6. ASSUME IsAlias(p, a, b) PROVE apply_alias(router, a) = b
  BY <1>1, <1>2, <1>4, <1>5, <1>6 DEF apply_alias, IsAlias
<1>7. ASSUME apply_alias(router, a) = b
      PROVE  IsAlias(p, a, b) \/ (a = b /\ \A t : ~IsAlias(p, a, t))
  BY <1>1, <1>2, <1>4, <1>7 DEF apply_alias, IsAlias
<1> QED
  BY <1>6, <1>7

(* resolve_signal gives a signal its canonical name.                       *)
LEMMA ResolvesName ==
  ASSUME NEW p, WellFormed(p), NEW router, router.aliases = AliasMap(p),
         NEW raw, NEW id, NEW signal_to_domain
  PROVE  resolve_signal(raw, id, router, signal_to_domain).name = CanonicalName(p, id, raw)
<1> DEFINE key == CompoundKey(id, raw)
           targets == {p.aliases[i].to : i \in DOMAIN p.aliases}
           Is(n) == \/ n # key /\ IsAlias(p, key, n)
                    \/ /\ \A t \in targets \ {key} : ~IsAlias(p, key, t)
                       /\ IsAlias(p, raw, n) \/ (n = raw /\ \A t \in targets : ~IsAlias(p, raw, t))
           r == IF apply_alias(router, key) # key THEN apply_alias(router, key)
                ELSE apply_alias(router, raw)
<1>1. resolve_signal(raw, id, router, signal_to_domain).name = r
  BY DEF resolve_signal
<1>2. CanonicalName(p, id, raw) = CHOOSE n \in targets \cup {raw} : Is(n)
  BY DEF CanonicalName
<1>3. \A a, b : IsAlias(p, a, b) => b \in targets
  BY DEF IsAlias
<1>4. \A a, b : /\ IsAlias(p, a, b) => apply_alias(router, a) = b
                /\ apply_alias(router, a) = b => IsAlias(p, a, b) \/ (a = b /\ \A t : ~IsAlias(p, a, t))
  BY AppliesAlias
<1> HIDE DEF key, targets
<1>5. r \in targets \cup {raw} /\ Is(r)
  <2>1. CASE apply_alias(router, key) # key
    BY <1>3, <1>4, <2>1
  <2>2. CASE apply_alias(router, key) = key
    <3>1. \A t \in targets \ {key} : ~IsAlias(p, key, t)
      BY <1>4, <2>2
    <3> QED
      BY <1>3, <1>4, <2>2, <3>1
  <2> QED
    BY <2>1, <2>2
<1>6. ASSUME NEW n, Is(n) PROVE n = r
  <2>1. CASE apply_alias(router, key) # key
    BY <1>3, <1>4, <1>6, <2>1
  <2>2. CASE apply_alias(router, key) = key
    BY <1>3, <1>4, <1>6, <2>2
  <2> QED
    BY <2>1, <2>2
<1> HIDE DEF Is, r
<1>7. (CHOOSE n \in targets \cup {raw} : Is(n)) = r
  BY <1>5, <1>6
<1> QED
  BY <1>1, <1>2, <1>7

(* The domain of a signal in schema mode is the last schema domain that     *)
(* lists it, otherwise the last one with the id of its message.            *)
LEMMA SchemaDomain ==
  ASSUME NEW p, WellFormed(p), NEW name
  PROVE  LET std == SignalToDomain(p.schema)
             Lists(i) == i \in DOMAIN p.schema /\ SchemaLists(p, i, name)
         IN  /\ DOMAIN std = {} <=> ~SchemaDecides(p)
             /\ name \in DOMAIN std <=> \E i : Lists(i)
             /\ name \in DOMAIN std =>
                    \E i : Lists(i) /\ (\A j : Lists(j) => ~(j > i)) /\ std[name] = p.schema[i].name
             /\ \A i : Lists(i) /\ (\A j : Lists(j) => ~(j > i)) => std[name] = p.schema[i].name
<1> DEFINE std == SignalToDomain(p.schema)
           Lists(i) == i \in DOMAIN p.schema /\ SchemaLists(p, i, name)
           keys == [i \in DOMAIN p.schema |-> ToSet(p.schema[i].signals)]
           vals == [i \in DOMAIN p.schema |-> p.schema[i].name]
<1>1. PICK n \in Nat : DOMAIN p.schema = 1 .. n
  BY DEF WellFormed, IsList
<1>2. std = WriteInOrder(keys, vals) /\ DOMAIN keys = 1 .. n
  BY <1>1 DEF SignalToDomain
<1>3. \A i : Lists(i) <=> i \in DOMAIN keys /\ name \in keys[i]
  BY DEF SchemaLists
<1>4. \A i \in DOMAIN p.schema : keys[i] = {} <=> p.schema[i].signals = <<>>
  <2> SUFFICES ASSUME NEW i \in DOMAIN p.schema PROVE keys[i] = {} <=> p.schema[i].signals = <<>>
    OBVIOUS
  <2> DEFINE q == p.schema[i].signals
  <2>1. PICK m \in Nat : q = [k \in 1 .. m |-> q[k]]
    BY DEF WellFormed, IsList
  <2>2. keys[i] = {q[k] : k \in DOMAIN q}
    BY DEF ToSet
  <2> HIDE DEF q, keys
  <2>3. DOMAIN q = 1 .. m
    BY <2>1
  <2>4. CASE m = 0
    <3>1. DOMAIN q = {}
      BY <2>3, <2>4
    <3>2. q = [k \in {} |-> q[k]]
      BY <2>1, <2>3, <3>1
    <3> QED
      BY <2>2, <3>1, <3>2 DEF q
  <2>5. CASE m # 0
    <3>1. 1 \in DOMAIN q
      BY <2>3, <2>5
    <3>2. q # <<>> /\ keys[i] # {}
      BY <2>2, <3>1
    <3> QED
      BY <3>2 DEF q
  <2> QED
    BY <2>4, <2>5
<1>5. DOMAIN std = UNION Range(keys)
  BY <1>2 DEF WriteInOrder
<1>6. DOMAIN std = {} <=> ~SchemaDecides(p)
  <2> HIDE DEF std
  <2>1. DOMAIN keys = DOMAIN p.schema
    OBVIOUS
  <2> HIDE DEF keys
  <2> QED
    BY <1>4, <1>5, <2>1 DEF SchemaDecides, Range
<1> HIDE DEF keys, vals, Lists, std
<1>7. name \in DOMAIN std <=> \E i : Lists(i)
  BY <1>1, <1>2, <1>3, <1>5 DEF Range
<1>8. \A i : LastToWrite(keys, name, i) <=> Lists(i) /\ (\A j : Lists(j) => ~(j > i))
  BY <1>3 DEF LastToWrite
<1>9. \A i : Lists(i) => vals[i] = p.schema[i].name
  BY DEF Lists, vals
<1>10. name \in DOMAIN std => \E i : LastToWrite(keys, name, i) /\ std[name] = vals[i]
  BY <1>2, WriteInOrderHas
<1>11. \A i : LastToWrite(keys, name, i) => std[name] = vals[i]
  BY <1>2, WriteInOrderGives
<1> QED
  BY <1>6, <1>7, <1>8, <1>9, <1>10, <1>11 DEF Lists, std

LEMMA LegacyDomain ==
  ASSUME NEW p, WellFormed(p), NEW router, NEW aliases, router = configure(p.domains, aliases), NEW id
  PROVE  LET map == router.id_to_domain
             Has(i) == i \in DOMAIN p.domains /\ id \in p.domains[i].can_ids
         IN  /\ id \in DOMAIN map =>
                    \E i : Has(i) /\ (\A j : Has(j) => ~(j > i)) /\ map[id] = p.domains[i].name
             /\ \A i : Has(i) /\ (\A j : Has(j) => ~(j > i)) =>
                    id \in DOMAIN map /\ map[id] = p.domains[i].name
<1> DEFINE map == router.id_to_domain
           Has(i) == i \in DOMAIN p.domains /\ id \in p.domains[i].can_ids
           keys == [i \in DOMAIN p.domains |-> p.domains[i].can_ids]
           vals == [i \in DOMAIN p.domains |-> p.domains[i].name]
<1>1. PICK n \in Nat : DOMAIN p.domains = 1 .. n
  BY DEF WellFormed, IsList
<1>2. map = WriteInOrder(keys, vals) /\ DOMAIN keys = 1 .. n
  BY <1>1 DEF configure
<1>3. \A i : Has(i) <=> i \in DOMAIN keys /\ id \in keys[i]
  OBVIOUS
<1> HIDE DEF keys, vals, Has, map
<1>4. \A i : LastToWrite(keys, id, i) <=> Has(i) /\ (\A j : Has(j) => ~(j > i))
  BY <1>3 DEF LastToWrite
<1>5. \A i : Has(i) => vals[i] = p.domains[i].name
  BY DEF Has, vals
<1>6. id \in DOMAIN map => \E i : LastToWrite(keys, id, i) /\ map[id] = vals[i]
  BY <1>2, WriteInOrderHas
<1>7. \A i : LastToWrite(keys, id, i) => id \in DOMAIN map /\ map[id] = vals[i]
  BY <1>2, WriteInOrderGives
<1> QED
  BY <1>4, <1>5, <1>6, <1>7 DEF Has, map

(* resolve_signal gives a signal the domain it is assigned to, and none to  *)
(* a signal that is assigned to none.                                      *)
LEMMA ResolvesDomain ==
  ASSUME NEW p, WellFormed(p), NEW router, NEW aliases, router = configure(p.domains, aliases),
         NEW raw, NEW id
  PROVE  LET res == resolve_signal(raw, id, router, SignalToDomain(p.schema))
         IN  /\ res.domain # kUnassignedDomain => AssignedTo(p, id, res.name, res.domain)
             /\ \A d : AssignedTo(p, id, res.name, d) => d = res.domain
<1> DEFINE std == SignalToDomain(p.schema)
           res == resolve_signal(raw, id, router, std)
           name == res.name
           Lists(i) == i \in DOMAIN p.schema /\ SchemaLists(p, i, name)
           Has(i) == i \in DOMAIN p.domains /\ id \in p.domains[i].can_ids
<1>1. res.domain = IF DOMAIN std = {} THEN domain_for_id(router, id)
                   ELSE IF name \in DOMAIN std THEN std[name] ELSE kUnassignedDomain
  BY DEF resolve_signal
<1> HIDE DEF res, std, name
<1>2. /\ DOMAIN std = {} <=> ~SchemaDecides(p)
      /\ name \in DOMAIN std <=> \E i : Lists(i)
      /\ name \in DOMAIN std =>
             \E i : Lists(i) /\ (\A j : Lists(j) => ~(j > i)) /\ std[name] = p.schema[i].name
      /\ \A i : Lists(i) /\ (\A j : Lists(j) => ~(j > i)) => std[name] = p.schema[i].name
  BY SchemaDomain DEF std
<1>3. /\ id \in DOMAIN router.id_to_domain =>
             \E i : Has(i) /\ (\A j : Has(j) => ~(j > i)) /\ router.id_to_domain[id] = p.domains[i].name
      /\ \A i : Has(i) /\ (\A j : Has(j) => ~(j > i)) =>
             id \in DOMAIN router.id_to_domain /\ router.id_to_domain[id] = p.domains[i].name
  BY LegacyDomain
<1> DEFINE LastLists(i) == Lists(i) /\ (\A j : Lists(j) => ~(j > i))
           LastHas(i) == Has(i) /\ (\A j : Has(j) => ~(j > i))
<1>6. \A d : AssignedTo(p, id, name, d) <=>
          /\ d # kUnassignedDomain
          /\ \/ SchemaDecides(p) /\ \E i : LastLists(i) /\ p.schema[i].name = d
             \/ ~SchemaDecides(p) /\ \E i : LastHas(i) /\ p.domains[i].name = d
  <2> SUFFICES ASSUME NEW d
               PROVE  /\ (\E i : LastLists(i) /\ p.schema[i].name = d) <=>
                             \E i \in DOMAIN p.schema :
                                /\ p.schema[i].name = d /\ SchemaLists(p, i, name)
                                /\ \A j \in DOMAIN p.schema : j > i => ~SchemaLists(p, j, name)
                      /\ (\E i : LastHas(i) /\ p.domains[i].name = d) <=>
                             \E i \in DOMAIN p.domains :
                                /\ p.domains[i].name = d /\ id \in p.domains[i].can_ids
                                /\ \A j \in DOMAIN p.domains : j > i => id \notin p.domains[j].can_ids
    BY Zenon DEF AssignedTo
  <2> QED
    BY Zenon
<1>7. name \in DOMAIN std => \E i : LastLists(i) /\ std[name] = p.schema[i].name
  BY <1>2
<1>8. \A i : LastLists(i) => name \in DOMAIN std /\ std[name] = p.schema[i].name
  BY <1>2
<1>9. id \in DOMAIN router.id_to_domain => \E i : LastHas(i) /\ router.id_to_domain[id] = p.domains[i].name
  BY <1>3
<1>10. \A i : LastHas(i) => id \in DOMAIN router.id_to_domain /\ router.id_to_domain[id] = p.domains[i].name
  BY <1>3
<1> HIDE DEF LastLists, LastHas
<1> DEFINE Goal == /\ res.domain # kUnassignedDomain => AssignedTo(p, id, name, res.domain)
                   /\ \A d : AssignedTo(p, id, name, d) => d = res.domain
<1>4. ASSUME DOMAIN std = {} PROVE Goal
  BY <1>1, <1>2, <1>4, <1>6, <1>9, <1>10 DEF domain_for_id
<1>5. ASSUME DOMAIN std # {} PROVE Goal
  BY <1>1, <1>2, <1>5, <1>6, <1>7, <1>8
<1> QED
  BY <1>4, <1>5 DEF res, std, name

--------------------------------------------------------------------------------
(* The signals of a message are those the lookup map has for its id.       *)
LEMMA MessageSignals ==
  ASSUME NEW p, WellFormed(p), NEW m
  PROVE  LET map == build_map(p.dbc.messages)
         IN  /\ Decodable(map, m.id) => map[m.id] = Signals(p, m)
             /\ ~Decodable(map, m.id) => Signals(p, m) = <<>>
<1> DEFINE ms == p.dbc.messages
           matching == {i \in DOMAIN ms : ms[i].id = m.id}
<1>1. Decodable(build_map(ms), m.id) <=> matching # {}
  BY DEF Decodable, build_map
<1>2. m.id \in DOMAIN build_map(ms) => build_map(ms)[m.id] = ms[Min(matching)].signals
  BY DEF build_map
<1> QED
  BY <1>1, <1>2 DEF Signals, Decodable

ExpressionsFor(p, name) ==
    {i \in DOMAIN p.transforms : p.transforms[i].name = name /\ p.transforms[i].expression # ""}

(* transform applies the expression configured for a name, if there is one. *)
LEMMA ExpressionOf ==
  ASSUME NEW p, WellFormed(p), NEW name, NEW v
  PROVE  LET exprs == ExpressionsFor(p, name)
         IN  transform(CompiledExprs(ExpressionMap(p)), name, v)
                 = IF exprs = {} THEN v ELSE Eval(p.transforms[Max(exprs)].expression, v)
<1> DEFINE exprs == ExpressionsFor(p, name)
           vals == [i \in DOMAIN p.transforms |-> p.transforms[i].expression]
           map == ByName(p.transforms, vals)
           compiled == CompiledExprs(map)
           Goal == transform(compiled, name, v)
                      = IF exprs = {} THEN v ELSE Eval(p.transforms[Max(exprs)].expression, v)
<1>1. IsList(p.transforms) /\ ExpressionMap(p) = map
  BY DEF WellFormed, ExpressionMap
<1>2. PICK n \in Nat : DOMAIN p.transforms = 1 .. n
  BY <1>1 DEF IsList
<1>3. name \in DOMAIN map <=> \E i \in DOMAIN p.transforms : p.transforms[i].name = name
  BY <1>1, ByNameDomain
<1>4. name \in DOMAIN map => \E i \in DOMAIN p.transforms : p.transforms[i].name = name /\ map[name] = vals[i]
  BY <1>1, ByNameHas
<1>5. name \in DOMAIN map =>
          \E i \in DOMAIN p.transforms :
              p.transforms[i].name = name /\ map[name] = p.transforms[i].expression
  BY <1>4
<1>6. \A i, j \in DOMAIN p.transforms :
          p.transforms[i].name = p.transforms[j].name =>
              p.transforms[i].expression = p.transforms[j].expression
  BY DEF WellFormed
<1> HIDE DEF map, vals
<1> USE DEF ExpressionsFor
<1>7. /\ name \in DOMAIN compiled <=> name \in DOMAIN map /\ map[name] # ""
      /\ name \in DOMAIN compiled => compiled[name] = map[name]
  BY DEF CompiledExprs, NoExpression
<1>8. ASSUME exprs = {} PROVE Goal
  <2>1. name \notin DOMAIN compiled
    BY <1>5, <1>7, <1>8
  <2> QED
    BY <1>8, <2>1 DEF transform
<1>9. ASSUME exprs # {} PROVE Goal
  <2>1. PICK x \in exprs : x = Max(exprs)
    BY <1>2, <1>9, MaxInSet
  <2>2. name \in DOMAIN map /\ map[name] = p.transforms[x].expression
    BY <1>3, <1>5, <1>6
  <2>3. name \in DOMAIN compiled /\ compiled[name] = p.transforms[x].expression
    BY <1>7, <2>2
  <2> HIDE DEF compiled, exprs
  <2> QED
    BY <1>9, <2>1, <2>3 DEF transform
<1> HIDE DEF Goal
<1>10. Goal
  BY <1>8, <1>9
<1> QED
  BY <1>1, <1>10 DEF Goal

PlacesOf(names, x) == {i \in DOMAIN names : names[i] = x}

(* A name that a table lists has the id of its last place, which fits a    *)
(* uint16_t.                                                               *)
LEMMA IdIsLastPlace ==
  ASSUME NEW names, IsList(names), Len(names) <= MaxTableId, NEW x
  PROVE  LET ids == PlacesOf(names, x)
         IN  /\ x \in DOMAIN IdByPlace(names) <=> ids # {}
             /\ ids # {} => /\ IdByPlace(names)[x] = Max(ids)
                            /\ Max(ids) \in ids
                            /\ Max(ids) \in 1 .. MaxTableId
<1> DEFINE ids == PlacesOf(names, x)
           keys == [i \in DOMAIN names |-> {names[i]}]
           vals == [i \in DOMAIN names |-> AsTableId(i)]
<1>1. PICK n \in Nat : names = [i \in 1 .. n |-> names[i]]
  BY DEF IsList
<1>2. DOMAIN names = 1 .. n /\ Len(names) = n
  BY <1>1
<1>3. n <= MaxTableId /\ MaxTableId \in Nat
  BY <1>2, ParameterAssumption
<1>4. \A i \in 1 .. n : AsTableId(i) = i
  BY <1>3 DEF AsTableId
<1>5. \A i : i \in DOMAIN keys /\ x \in keys[i] <=> i \in ids
  BY DEF PlacesOf
<1>6. IdByPlace(names) = WriteInOrder(keys, vals) /\ DOMAIN keys = 1 .. n
  BY <1>2 DEF IdByPlace
<1>7. \A i \in ids : vals[i] = i /\ i \in 1 .. n
  BY <1>2, <1>4 DEF PlacesOf
<1> HIDE DEF keys, vals, ids
<1>8. x \in DOMAIN WriteInOrder(keys, vals) <=> \E i \in 1 .. n : x \in keys[i]
  BY <1>6, WriteInOrderDomain
<1>9. x \in DOMAIN IdByPlace(names) <=> ids # {}
  BY <1>5, <1>6, <1>8
<1>10. ASSUME ids # {}
       PROVE  /\ IdByPlace(names)[x] = Max(ids)
              /\ Max(ids) \in ids /\ Max(ids) \in 1 .. MaxTableId
  <2>1. ids \subseteq 1 .. n
    BY <1>7
  <2>2. PICK y \in ids : y = Max(ids) /\ \A j \in ids : y >= j
    BY <1>10, <2>1, MaxInSet
  <2>3. LastToWrite(keys, x, y)
    <3>1. \A j \in DOMAIN keys : j > y => x \notin keys[j]
      <4> SUFFICES ASSUME NEW j \in DOMAIN keys, j > y, x \in keys[j] PROVE FALSE
        OBVIOUS
      <4>1. j \in ids
        BY <1>5
      <4> QED
        BY <2>1, <2>2, <4>1
    <3> QED
      BY <1>5, <2>2, <3>1 DEF LastToWrite
  <2>4. WriteInOrder(keys, vals)[x] = vals[y]
    BY <1>6, <2>3, WriteInOrderGives
  <2> QED
    BY <1>3, <1>6, <1>7, <2>2, <2>4
<1> QED
  BY <1>9, <1>10 DEF ids

--------------------------------------------------------------------------------
(* What is listed of the n places of a message, but for the skipped ones   *)
(* and those P rules out; f is what is said of a place.                    *)
Chosen(n, P, skipped) == {j \in (1 .. n) \ skipped : P[j]}
Listed(n, P, f, skipped) ==
    [i \in DOMAIN InOrder(Chosen(n, P, skipped)) |-> f[InOrder(Chosen(n, P, skipped))[i]]]

(* They are finitely many.                                                 *)
LEMMA ChosenFinite ==
  ASSUME NEW n \in Nat, NEW P, NEW skipped
  PROVE  /\ Chosen(n, P, skipped) \subseteq 1 .. n
         /\ Chosen(n, P, skipped) \in SUBSET Int
         /\ IsFiniteSet(Chosen(n, P, skipped))
<1>1. Chosen(n, P, skipped) \in SUBSET (1 .. n)
  BY DEF Chosen
<1>2. IsFiniteSet(1 .. n)
  BY FS_Interval
<1>3. IsFiniteSet(Chosen(n, P, skipped))
  BY <1>1, <1>2, FS_Subset
<1> QED
  BY <1>1, <1>3

Failed(F, k) == F \subseteq 1 .. k - 1
Remaining(F, k, n) == F \cup (k .. n)

(* While the places from k on are skipped, k is the next one to come: when  *)
(* it is not skipped any more, what it stands for is appended, if P lets it. *)
LEMMA NextPlace ==
  ASSUME NEW n \in Nat, NEW k \in 1 .. n, NEW F, Failed(F, k), NEW P, NEW f,
         NEW old, old = Remaining(F, k, n), NEW new, new = Remaining(F, k + 1, n)
  PROVE  /\ P[k] => Listed(n, P, f, new) = Append(Listed(n, P, f, old), f[k])
         /\ ~P[k] => Listed(n, P, f, new) = Listed(n, P, f, old)
<1> DEFINE S == Chosen(n, P, old)
           T == Chosen(n, P, new)
<1> USE DEF Failed, Remaining
<1>1. S \in SUBSET Int /\ IsFiniteSet(S)
  BY ChosenFinite
<1>2. \A x \in S : x < k
  <2> SUFFICES ASSUME NEW x \in S PROVE x < k
    OBVIOUS
  <2>1. x \in 1 .. n /\ x \notin k .. n
    BY DEF Chosen
  <2> QED
    BY <2>1
<1>3. \A x \in 1 .. n : x \in F \cup (k .. n) <=> x \in F \cup (k + 1 .. n) \/ x = k
  <2>1. \A x \in 1 .. n : x \in k .. n <=> x \in k + 1 .. n \/ x = k
    OBVIOUS
  <2> QED
    BY <2>1
<1>4. k \notin F \cup (k + 1 .. n)
  <2>1. k \notin 1 .. k - 1 /\ k \notin k + 1 .. n
    OBVIOUS
  <2> QED
    BY <2>1
<1>5. P[k] => T = S \cup {k}
  BY <1>3, <1>4 DEF Chosen
<1>6. ~P[k] => T = S
  BY <1>3, <1>4 DEF Chosen
<1> HIDE DEF S, T
<1>7. [i \in DOMAIN InOrder(S \cup {k}) |-> f[InOrder(S \cup {k})[i]]]
          = Append([i \in DOMAIN InOrder(S) |-> f[InOrder(S)[i]]], f[k])
  <2>1. k \in Int
    OBVIOUS
  <2> QED
    BY <1>1, <1>2, <2>1, ListedAppend
<1>8. /\ Listed(n, P, f, old) = [i \in DOMAIN InOrder(S) |-> f[InOrder(S)[i]]]
      /\ Listed(n, P, f, new) = [i \in DOMAIN InOrder(T) |-> f[InOrder(T)[i]]]
  BY DEF Listed, S, T
<1> QED
  BY <1>5, <1>6, <1>7, <1>8

(* Before the first place nothing is listed.                               *)
LEMMA NothingListed ==
  ASSUME NEW n \in Nat, NEW P, NEW f
  PROVE  Listed(n, P, f, 1 .. n) = <<>>
<1>1. Chosen(n, P, 1 .. n) = {}
  BY DEF Chosen
<1>2. DOMAIN InOrder({}) = {}
  BY InOrderEmpty
<1> QED
  BY <1>1, <1>2 DEF Listed

(* A list that got one more element is not empty.                          *)
LEMMA AppendNotEmpty ==
  ASSUME NEW n \in Nat, NEW P, NEW f, NEW skipped, NEW e
  PROVE  /\ Append(Listed(n, P, f, skipped), e) # <<>>
         /\ Append(<<>>, e) = <<e>>
<1> DEFINE S == Chosen(n, P, skipped)
<1>1. S \in SUBSET Int /\ IsFiniteSet(S)
  BY ChosenFinite
<1>2. Cardinality(S) \in Nat /\ DOMAIN InOrder(S) = 1 .. Cardinality(S)
  BY <1>1, InOrderType
<1> DEFINE q == [i \in 1 .. Cardinality(S) |-> f[InOrder(S)[i]]]
<1>3. Listed(n, P, f, skipped) = q
  BY <1>2 DEF Listed
<1> HIDE DEF S
<1>4. Append(q, e) # <<>>
  BY <1>2
<1>5. Append(<<>>, e) = <<e>>
  OBVIOUS
<1> HIDE DEF q
<1> QED
  BY <1>3, <1>4, <1>5

AssignedPlaces(p, m, n, d) == [j \in 1 .. n |-> AssignedTo(p, m.id, NameAt(p, m, j), d)]
AnyPlaces(p, m, n) ==
    [j \in 1 .. n |-> \E e \in DomainNames(p) : AssignedTo(p, m.id, NameAt(p, m, j), e)]
SignalsAt(p, m, n) == [j \in 1 .. n |-> SignalAt(p, m, j)]

(* The lists of FrameMeaning are such lists.                               *)
LEMMA ListsOfFrame ==
  ASSUME NEW p, NEW m, NEW n \in Nat, DOMAIN Signals(p, m) = 1 .. n, NEW skipped, NEW d
  PROVE  /\ InDomain(p, m, skipped, d) =
                Listed(n, AssignedPlaces(p, m, n, d), SignalsAt(p, m, n), skipped)
         /\ InAny(p, m, skipped) =
                Listed(n, AnyPlaces(p, m, n), SignalsAt(p, m, n), skipped)
<1> DEFINE f == SignalsAt(p, m, n)
           D == AssignedPlaces(p, m, n, d)
           A == AnyPlaces(p, m, n)
<1> USE DEF SignalsAt, AssignedPlaces, AnyPlaces
<1>1. ASSUME NEW P
      PROVE  \A i \in DOMAIN InOrder(Chosen(n, P, skipped)) :
                f[InOrder(Chosen(n, P, skipped))[i]] = SignalAt(p, m, InOrder(Chosen(n, P, skipped))[i])
  <2> DEFINE S == Chosen(n, P, skipped)
  <2>1. S \in SUBSET Int /\ IsFiniteSet(S) /\ S \subseteq 1 .. n
    BY ChosenFinite
  <2> HIDE DEF S
  <2>2. \A i \in DOMAIN InOrder(S) : InOrder(S)[i] \in 1 .. n
    BY <2>1, InOrderType
  <2> QED
    BY <2>2 DEF S
<1>2. InDomain(p, m, skipped, d) =
          [i \in DOMAIN InOrder(Chosen(n, D, skipped)) |-> SignalAt(p, m, InOrder(Chosen(n, D, skipped))[i])]
  <2>1. {k \in DOMAIN Signals(p, m) \ skipped : AssignedTo(p, m.id, NameAt(p, m, k), d)} = Chosen(n, D, skipped)
    BY DEF Chosen
  <2> QED
    BY <2>1, Zenon DEF InDomain, SignalsWhere, Places
<1>3. InAny(p, m, skipped) =
          [i \in DOMAIN InOrder(Chosen(n, A, skipped)) |-> SignalAt(p, m, InOrder(Chosen(n, A, skipped))[i])]
  <2>1. {k \in DOMAIN Signals(p, m) \ skipped :
            \E e \in DomainNames(p) : AssignedTo(p, m.id, NameAt(p, m, k), e)} = Chosen(n, A, skipped)
    BY DEF Chosen
  <2> QED
    BY <2>1, Zenon DEF InAny, SignalsWhere, Places
<1> HIDE DEF f, D, A
<1>4. Listed(n, D, f, skipped) =
          [i \in DOMAIN InOrder(Chosen(n, D, skipped)) |-> SignalAt(p, m, InOrder(Chosen(n, D, skipped))[i])]
  BY <1>1 DEF Listed
<1>5. Listed(n, A, f, skipped) =
          [i \in DOMAIN InOrder(Chosen(n, A, skipped)) |-> SignalAt(p, m, InOrder(Chosen(n, A, skipped))[i])]
  BY <1>1 DEF Listed
<1> QED
  BY <1>2, <1>3, <1>4, <1>5 DEF f, D, A

--------------------------------------------------------------------------------
(* L has the tables of the parameter set p.                                *)
TablesOf(p, L) ==
    /\ WellFormed(p) /\ Len(p.signal_id_names) <= MaxTableId
    /\ L.router = configure(p.domains, AliasMap(p))
    /\ L.signal_to_domain = SignalToDomain(p.schema)
    /\ L.exprs = CompiledExprs(ExpressionMap(p))
    /\ L.signal_name_to_id = IdByPlace(p.signal_id_names)

Padded(m) == [b \in 1 .. NBytes |-> IF b <= m.dlc THEN m.data[b] ELSE 0]

(* One pass of the loop over the signals of a message makes of the signal  *)
(* at place k what FrameMeaning says of it.                                *)
HandledAsMeant(p, L, m, k) ==
    LET s == Signals(p, m)[k]
        res == resolve_signal(s.name, m.id, L.router, L.signal_to_domain)
        v == transform(L.exprs, res.name, Physical(s, Padded(m)))
    IN  /\ res.name = NameAt(p, m, k)
        /\ v = ValueAt(p, m, k)
        /\ [name_id |-> IF res.name \in DOMAIN L.signal_name_to_id
                        THEN L.signal_name_to_id[res.name] ELSE 0,
            value |-> Float32(v)] = SignalAt(p, m, k)
        /\ res.domain # kUnassignedDomain => AssignedTo(p, m.id, NameAt(p, m, k), res.domain)
        /\ \A d : AssignedTo(p, m.id, NameAt(p, m, k), d) => d = res.domain

LEMMA SignalMeant ==
  ASSUME NEW p, NEW L, TablesOf(p, L), NEW m, NEW k
  PROVE  HandledAsMeant(p, L, m, k)
<1> DEFINE s == Signals(p, m)[k]
           data == Padded(m)
           res == resolve_signal(s.name, m.id, L.router, L.signal_to_domain)
           raw == Physical(s, data)
           v == transform(L.exprs, res.name, raw)
           name == NameAt(p, m, k)
<1>1. /\ WellFormed(p) /\ Len(p.signal_id_names) <= MaxTableId
      /\ L.router = configure(p.domains, AliasMap(p))
      /\ L.signal_to_domain = SignalToDomain(p.schema)
      /\ L.exprs = CompiledExprs(ExpressionMap(p))
      /\ L.signal_name_to_id = IdByPlace(p.signal_id_names)
  BY DEF TablesOf
<1>2. data = [b \in 1 .. NBytes |-> IF b <= m.dlc THEN m.data[b] ELSE 0]
  BY DEF Padded
<1> HIDE DEF data
<1>3. L.router.aliases = AliasMap(p)
  BY <1>1 DEF configure
<1>4. res.name = name
  BY <1>1, <1>3, ResolvesName DEF NameAt
<1>5. /\ res.domain # kUnassignedDomain => AssignedTo(p, m.id, res.name, res.domain)
      /\ \A d : AssignedTo(p, m.id, res.name, d) => d = res.domain
  <2> DEFINE router == L.router
             aliases == AliasMap(p)
             r == resolve_signal(s.name, m.id, router, SignalToDomain(p.schema))
  <2>1. router = configure(p.domains, aliases) /\ r = res
    BY <1>1
  <2> HIDE DEF router, aliases, res
  <2>2. /\ r.domain # kUnassignedDomain => AssignedTo(p, m.id, r.name, r.domain)
        /\ \A d : AssignedTo(p, m.id, r.name, d) => d = r.domain
    <3>1. WellFormed(p) /\ router = configure(p.domains, aliases)
      BY <1>1, <2>1
    <3> QED
      BY ONLY <3>1, ResolvesDomain
  <2> QED
    BY <2>1, <2>2
<1>6. v = ValueAt(p, m, k)
  <2> DEFINE exprs == ExpressionsFor(p, name)
  <2>1. raw = Physical(s, [b \in 1 .. NBytes |-> IF b <= m.dlc THEN m.data[b] ELSE 0])
    BY <1>2
  <2>2. transform(CompiledExprs(ExpressionMap(p)), name, raw)
            = IF exprs = {} THEN raw ELSE Eval(p.transforms[Max(exprs)].expression, raw)
    BY <1>1, ExpressionOf
  <2>3. v = IF exprs = {} THEN raw ELSE Eval(p.transforms[Max(exprs)].expression, raw)
    BY <1>1, <1>4, <2>2
  <2> HIDE DEF v
  <2> QED
    BY <2>1, <2>3 DEF ValueAt, ExpressionsFor
<1>7. [name_id |-> IF res.name \in DOMAIN L.signal_name_to_id THEN L.signal_name_to_id[res.name] ELSE 0,
       value |-> Float32(v)] = SignalAt(p, m, k)
  <2> DEFINE ids == PlacesOf(p.signal_id_names, name)
  <2>1. IsList(p.signal_id_names)
    BY <1>1 DEF WellFormed
  <2>2. /\ name \in DOMAIN IdByPlace(p.signal_id_names) <=> ids # {}
        /\ ids # {} => IdByPlace(p.signal_id_names)[name] = Max(ids)
    BY <1>1, <2>1, IdIsLastPlace
  <2>3. SignalAt(p, m, k) = [name_id |-> IF ids = {} THEN 0 ELSE Max(ids),
                             value |-> Float32(ValueAt(p, m, k))]
    BY DEF SignalAt, PlacesOf
  <2> HIDE DEF v, res, ids, name
  <2> QED
    BY <1>1, <1>4, <1>6, <2>2, <2>3
<1> HIDE DEF v, res, name
<1> QED
  BY <1>4, <1>5, <1>6, <1>7 DEF HandledAsMeant, v, res, name, s, raw, data

(* The signal at place k is the next one in the list of its domain.        *)
LEMMA NextInDomain ==
  ASSUME NEW p, NEW m, NEW n \in Nat, DOMAIN Signals(p, m) = 1 .. n,
         NEW k \in 1 .. n, NEW F, Failed(F, k),
         NEW old, old = Remaining(F, k, n), NEW new, new = Remaining(F, k + 1, n), NEW d
  PROVE  /\ AssignedTo(p, m.id, NameAt(p, m, k), d) =>
                InDomain(p, m, new, d) = Append(InDomain(p, m, old, d), SignalAt(p, m, k))
         /\ ~AssignedTo(p, m.id, NameAt(p, m, k), d) => InDomain(p, m, new, d) = InDomain(p, m, old, d)
         /\ Append(InDomain(p, m, old, d), SignalAt(p, m, k)) # <<>>
<1> DEFINE name == NameAt(p, m, k)
           f == SignalsAt(p, m, n)
           P == AssignedPlaces(p, m, n, d)
<1>1. \A sk : InDomain(p, m, sk, d) = Listed(n, P, f, sk)
  BY ListsOfFrame
<1>2. (P[k] <=> AssignedTo(p, m.id, name, d)) /\ f[k] = SignalAt(p, m, k)
  BY DEF AssignedPlaces, AnyPlaces, SignalsAt
<1> HIDE DEF P, f
<1>3. /\ P[k] => Listed(n, P, f, new) = Append(Listed(n, P, f, old), f[k])
      /\ ~P[k] => Listed(n, P, f, new) = Listed(n, P, f, old)
  BY NextPlace
<1>4. Append(Listed(n, P, f, old), f[k]) # <<>>
  BY AppendNotEmpty
<1> HIDE DEF name
<1> QED
  BY <1>1, <1>2, <1>3, <1>4 DEF name

(* When every place is skipped, the lists of all domains are empty.        *)
LEMMA NothingInDomain ==
  ASSUME NEW p, NEW m, NEW n \in Nat, DOMAIN Signals(p, m) = 1 .. n, NEW d
  PROVE  InDomain(p, m, 1 .. n, d) = <<>>
<1> DEFINE sk == 1 .. n
<1>1. \A P, f : Listed(n, P, f, sk) = <<>>
  BY NothingListed
<1> HIDE DEF sk
<1>2. InDomain(p, m, sk, d) = Listed(n, AssignedPlaces(p, m, n, d), SignalsAt(p, m, n), sk)
  BY ListsOfFrame
<1> QED
  BY <1>1, <1>2 DEF sk

--------------------------------------------------------------------------------
(* A list in which every name occurs once: the map read from it has, under *)
(* a name, what belongs to the one record of that name.                    *)
LEMMA ByNameOnce ==
  ASSUME NEW list, IsList(list), DeclaredOnce(list), NEW vals, NEW i \in DOMAIN list
  PROVE  /\ list[i].name \in DOMAIN ByName(list, vals)
         /\ ByName(list, vals)[list[i].name] = vals[i]
         /\ \A j \in DOMAIN list : list[j].name = list[i].name => j = i
<1>1. list[i].name \in DOMAIN ByName(list, vals)
  BY ByNameDomain
<1>2. PICK j \in DOMAIN list : list[j].name = list[i].name /\ ByName(list, vals)[list[i].name] = vals[j]
  BY <1>1, ByNameHas
<1>3. \A a, b \in DOMAIN list : list[a].name = list[b].name => a = b
  BY DEF DeclaredOnce, IsInjective
<1> QED
  BY <1>1, <1>2, <1>3

(* A domain has a publisher if it has a live topic, and then on that one.  *)
LEMMA PublishedTopics ==
  ASSUME NEW p, WellFormed(p), DeclaredOnce(p.domains), DeclaredOnce(p.schema),
         NEW router, NEW aliases, router = configure(p.domains, aliases), NEW d
  PROVE  LET pubs == DomainPublishers(p, router)
         IN  /\ d \in DOMAIN pubs => d \in DomainNames(p) /\ LiveTopicsOf(p, d) = {pubs[d]}
             /\ d \notin DOMAIN pubs => LiveTopicsOf(p, d) = {}
<1> DEFINE topics == [i \in DOMAIN p.domains |-> p.domains[i].topic]
           schemaTopics == [i \in DOMAIN p.schema |-> p.schema[i].topic]
           schema == SchemaPublishers(p)
           legacy == LegacyPublishers(p, router)
<1>1. IsList(p.domains) /\ IsList(p.schema)
  BY DEF WellFormed
<1>2. router.domain_to_topic = ByName(p.domains, topics)
  BY DEF configure, ByName
<1>3. ASSUME NEW i \in DOMAIN p.domains
      PROVE  /\ topic_for_domain(router, p.domains[i].name) = p.domains[i].topic
             /\ \A j \in DOMAIN p.domains : p.domains[j].name = p.domains[i].name => j = i
  <2>1. /\ p.domains[i].name \in DOMAIN ByName(p.domains, topics)
        /\ ByName(p.domains, topics)[p.domains[i].name] = topics[i]
        /\ \A j \in DOMAIN p.domains : p.domains[j].name = p.domains[i].name => j = i
    BY <1>1, ByNameOnce
  <2> QED
    BY <1>2, <2>1 DEF topic_for_domain
<1>4. ASSUME NEW i \in DOMAIN p.schema
      PROVE  /\ p.schema[i].name \in DOMAIN ByName(p.schema, schemaTopics)
             /\ ByName(p.schema, schemaTopics)[p.schema[i].name] = p.schema[i].topic
             /\ \A j \in DOMAIN p.schema : p.schema[j].name = p.schema[i].name => j = i
  <2>1. /\ p.schema[i].name \in DOMAIN ByName(p.schema, schemaTopics)
        /\ ByName(p.schema, schemaTopics)[p.schema[i].name] = schemaTopics[i]
        /\ \A j \in DOMAIN p.schema : p.schema[j].name = p.schema[i].name => j = i
    BY <1>1, ByNameOnce
  <2> QED
    BY <2>1
<1>5. \A x \in DOMAIN ByName(p.schema, schemaTopics) : \E i \in DOMAIN p.schema : p.schema[i].name = x
  BY <1>1, ByNameDomain
<1> HIDE DEF topics, schemaTopics
<1>6. /\ d \in DOMAIN legacy <=>
             \E i \in DOMAIN p.domains : p.domains[i].name = d /\ p.domains[i].topic # ""
      /\ d \in DOMAIN legacy => legacy[d] = topic_for_domain(router, d)
  BY <1>3 DEF LegacyPublishers
<1>7. d \in DOMAIN legacy => LegacyTopics(p, d) \ {""} = {legacy[d]}
  <2> SUFFICES ASSUME d \in DOMAIN legacy PROVE LegacyTopics(p, d) \ {""} = {legacy[d]}
    OBVIOUS
  <2>1. PICK i \in DOMAIN p.domains : p.domains[i].name = d /\ p.domains[i].topic # ""
    BY <1>6
  <2>2. legacy[d] = p.domains[i].topic
    BY <1>3, <1>6, <2>1
  <2>3. {j \in DOMAIN p.domains : p.domains[j].name = d} = {i}
    BY <1>3, <2>1
  <2> HIDE DEF legacy
  <2> QED
    BY <2>1, <2>2, <2>3 DEF LegacyTopics
<1>8. d \notin DOMAIN legacy => LegacyTopics(p, d) \ {""} = {}
  BY <1>6 DEF LegacyTopics
<1>9. CASE ~p.schema_publish_per_domain
  <2>1. DOMAIN schema = {}
    BY <1>9 DEF SchemaPublishers
  <2>2. /\ DOMAIN DomainPublishers(p, router) = DOMAIN legacy
        /\ d \in DOMAIN legacy => DomainPublishers(p, router)[d] = legacy[d]
    BY <2>1 DEF DomainPublishers, Over
  <2>3. LiveTopicsOf(p, d) = LegacyTopics(p, d) \ {""}
    BY <1>9 DEF LiveTopicsOf
  <2>4. d \in DOMAIN legacy => d \in DomainNames(p)
    BY <1>6 DEF DomainNames
  <2> QED
    BY <1>7, <1>8, <2>2, <2>3, <2>4
<1>10. CASE p.schema_publish_per_domain
  <2>1. schema = ByName(p.schema, schemaTopics)
    BY <1>10 DEF SchemaPublishers, schemaTopics
  <2>2. d \in DOMAIN schema => SchemaTopics(p, d) = {schema[d]} /\ d \in DomainNames(p)
    <3> SUFFICES ASSUME d \in DOMAIN schema
                 PROVE  SchemaTopics(p, d) = {schema[d]} /\ d \in DomainNames(p)
      OBVIOUS
    <3>1. PICK i \in DOMAIN p.schema : p.schema[i].name = d
      BY <1>5, <2>1
    <3>2. schema[d] = p.schema[i].topic
      BY <1>4, <2>1, <3>1
    <3>3. {j \in DOMAIN p.schema : p.schema[j].name = d} = {i}
      BY <1>4, <3>1
    <3> HIDE DEF schema
    <3> QED
      BY <3>1, <3>2, <3>3 DEF SchemaTopics, DomainNames
  <2>3. d \notin DOMAIN schema => SchemaTopics(p, d) = {}
    BY <1>4, <2>1 DEF SchemaTopics
  <2>4. /\ d \in DOMAIN DomainPublishers(p, router) <=> d \in DOMAIN schema \/ d \in DOMAIN legacy
        /\ d \in DOMAIN schema => DomainPublishers(p, router)[d] = schema[d]
        /\ d \notin DOMAIN schema /\ d \in DOMAIN legacy => DomainPublishers(p, router)[d] = legacy[d]
    BY DEF DomainPublishers, Over
  <2>5. LiveTopicsOf(p, d) = IF SchemaTopics(p, d) # {} THEN SchemaTopics(p, d)
                             ELSE LegacyTopics(p, d) \ {""}
    BY <1>10 DEF LiveTopicsOf
  <2>6. d \in DOMAIN legacy => d \in DomainNames(p)
    BY <1>6 DEF DomainNames
  <2> HIDE DEF schema, legacy
  <2> QED
    BY <1>7, <1>8, <2>2, <2>3, <2>4, <2>5, <2>6
<1> QED
  BY <1>9, <1>10

(* A promoted signal has the publisher of its place in the list.           *)
LEMMA PromotedTopic ==
  ASSUME NEW p, IsList(p.promoted), DeclaredOnce(p.promoted), NEW name
  PROVE  LET places == PromotedAs(p, name)
         IN  /\ name \in DOMAIN PromotedPublishers(p) <=> places # {}
             /\ places # {} => PromotedPublishers(p)[name] = p.promoted[Max(places)].topic_suffix
<1> DEFINE vals == [i \in DOMAIN p.promoted |-> p.promoted[i].topic_suffix]
           places == PromotedAs(p, name)
<1> USE DEF PromotedAs
<1>1. PromotedPublishers(p) = ByName(p.promoted, vals)
  BY DEF PromotedPublishers
<1>2. name \in DOMAIN ByName(p.promoted, vals) <=> \E i \in DOMAIN p.promoted : p.promoted[i].name = name
  BY ByNameDomain
<1>3. ASSUME places # {} PROVE PromotedPublishers(p)[name] = p.promoted[Max(places)].topic_suffix
  <2>1. PICK n \in Nat : DOMAIN p.promoted = 1 .. n
    BY DEF IsList
  <2>2. PICK x \in places : x = Max(places)
    BY <1>3, <2>1, MaxInSet
  <2>3. x \in DOMAIN p.promoted /\ p.promoted[x].name = name
    BY <2>2
  <2> HIDE DEF vals, places
  <2>4. ByName(p.promoted, vals)[p.promoted[x].name] = vals[x]
    BY <2>3, ByNameOnce
  <2> QED
    BY <1>1, <2>2, <2>3, <2>4 DEF vals
<1> QED
  BY <1>1, <1>2, <1>3

LEMMA IdIsAPlace ==
  ASSUME NEW names, IsList(names), Len(names) <= MaxTableId, NEW x \in DOMAIN IdByPlace(names)
  PROVE  LET id == IdByPlace(names)[x]
         IN  id \in DOMAIN names /\ names[id] = x /\ id \in 1 .. MaxTableId
<1> DEFINE ids == PlacesOf(names, x)
<1>1. /\ x \in DOMAIN IdByPlace(names) <=> ids # {}
      /\ ids # {} => /\ IdByPlace(names)[x] = Max(ids)
                     /\ Max(ids) \in ids
                     /\ Max(ids) \in 1 .. MaxTableId
  BY IdIsLastPlace
<1> QED
  BY <1>1 DEF PlacesOf

(* A signal id has the id of its own unit, if the unit has one.            *)
LEMMA UnitOfId ==
  ASSUME NEW names, IsList(names), Len(names) <= MaxTableId, NEW unit_names, NEW unit_ids,
         NEW id \in DOMAIN names
  PROVE  LET units == UnitBySignalId(names, unit_names, unit_ids)
         IN  /\ id \in DOMAIN units <=> unit_names[id] \in DOMAIN unit_ids
             /\ id \in DOMAIN units => units[id] = unit_ids[unit_names[id]]
<1> DEFINE known == {i \in DOMAIN names : unit_names[i] \in DOMAIN unit_ids}
           same == {i \in known : AsTableId(i) = id}
           units == UnitBySignalId(names, unit_names, unit_ids)
<1>1. PICK n \in Nat : names = [i \in 1 .. n |-> names[i]]
  BY DEF IsList
<1>2. DOMAIN names = 1 .. n /\ Len(names) = n
  BY <1>1
<1>3. \A i \in DOMAIN names : AsTableId(i) = i
  BY <1>2, ParameterAssumption DEF AsTableId
<1>4. DOMAIN units = known
  BY <1>3 DEF UnitBySignalId
<1>5. ASSUME id \in known PROVE units[id] = unit_ids[unit_names[id]]
  <2>1. same = {id}
    BY <1>3, <1>5
  <2>2. units[id] = unit_ids[unit_names[Max(same)]]
    BY <1>4, <1>5 DEF UnitBySignalId
  <2>3. PICK x \in same : x = Max(same)
    BY <1>2, <2>1, MaxInSet
  <2> HIDE DEF same, units, known
  <2> QED
    BY <2>1, <2>2, <2>3
<1> QED
  BY <1>4, <1>5

(* The one row i of a table has the id, the name and the unit's id of the   *)
(* signal name x.                                                          *)
RowOf(p, table, x, i) ==
    LET id == IdByPlace(p.signal_id_names)[x]
        unit == p.signal_id_unit_names[id]
        units == IdByPlace(p.unit_id_names)
    IN  /\ i \in DOMAIN table
        /\ table[i].id = id
        /\ \A j \in DOMAIN table : table[j].id = id => j = i
        /\ table[i].name = x
        /\ table[i].unit_id = IF unit \in DOMAIN units THEN units[unit] ELSE 0

(* The signal table has one row for every name that has an id.             *)
LEMMA TableRow ==
  ASSUME NEW p, IsList(p.signal_id_names), IsList(p.unit_id_names), TablesFit(p),
         NEW members, members.signal_name_to_id = IdByPlace(p.signal_id_names),
         members.signal_id_to_unit_id =
             UnitBySignalId(p.signal_id_names, p.signal_id_unit_names, IdByPlace(p.unit_id_names)),
         NEW x \in DOMAIN IdByPlace(p.signal_id_names)
  PROVE  \E i : RowOf(p, SignalTable(members), x, i)
<1> DEFINE names == p.signal_id_names
           map == IdByPlace(names)
           id == map[x]
           used == Range(members.signal_name_to_id)
           ids == InOrder(used)
           table == SignalTable(members)
           unit == p.signal_id_unit_names[id]
           units == IdByPlace(p.unit_id_names)
<1>0. Len(names) <= MaxTableId
  BY DEF TablesFit
<1>1. \A y : y \in DOMAIN map => map[y] \in DOMAIN names /\ names[map[y]] = y /\ map[y] \in 1 .. MaxTableId
  BY <1>0, IdIsAPlace
<1>2. id \in DOMAIN names
  BY <1>1
<1>3. used \in SUBSET Int /\ IsFiniteSet(used) /\ id \in used
  <2>1. used \in SUBSET (1 .. MaxTableId) /\ id \in used
    BY <1>1 DEF Range
  <2>2. IsFiniteSet(1 .. MaxTableId)
    BY FS_Interval, ParameterAssumption
  <2>3. IsFiniteSet(used)
    BY <2>1, <2>2, FS_Subset
  <2> QED
    BY <2>1, <2>3, ParameterAssumption
<1>4. PICK i \in DOMAIN ids : ids[i] = id
  <2> HIDE DEF used, id
  <2> QED
    BY <1>3, InOrderAt
<1>5. \A j \in DOMAIN ids : ids[j] = id => j = i
  <2> HIDE DEF used, id
  <2>1. /\ DOMAIN ids = 1 .. Cardinality(used)
        /\ \A k \in 1 .. Cardinality(used) : Rank(used, ids[k]) = k - 1
        /\ Cardinality(used) \in Nat
    BY <1>3, InOrderType
  <2> HIDE DEF ids
  <2> SUFFICES ASSUME NEW j \in DOMAIN ids, ids[j] = id PROVE j = i
    OBVIOUS
  <2>2. Rank(used, id) = j - 1 /\ Rank(used, id) = i - 1
    BY <1>4, <2>1
  <2> QED
    BY <2>1, <2>2
<1>6. /\ DOMAIN table = DOMAIN ids
      /\ \A j \in DOMAIN ids : table[j].id = ids[j]
      /\ table[i].name = CHOOSE y \in DOMAIN map : map[y] = ids[i]
      /\ table[i].unit_id = IF ids[i] \in DOMAIN members.signal_id_to_unit_id
                            THEN members.signal_id_to_unit_id[ids[i]] ELSE 0
  <2> HIDE DEF id, map
  <2>1. /\ DOMAIN table = DOMAIN ids
        /\ \A j \in DOMAIN ids : table[j].id = ids[j]
        /\ table[i].name = CHOOSE y \in DOMAIN members.signal_name_to_id :
                                    members.signal_name_to_id[y] = ids[i]
        /\ table[i].unit_id = IF ids[i] \in DOMAIN members.signal_id_to_unit_id
                              THEN members.signal_id_to_unit_id[ids[i]] ELSE 0
    BY DEF SignalTable
  <2>2. members.signal_name_to_id = map
    BY DEF map
  <2> HIDE DEF table, ids, used
  <2> QED
    BY <2>1, <2>2
<1>7. (CHOOSE y \in DOMAIN map : map[y] = id) = x
  <2>1. \A y \in DOMAIN map : map[y] = id => y = x
    BY <1>1
  <2> HIDE DEF map
  <2> QED
    BY <2>1
<1>8. /\ id \in DOMAIN members.signal_id_to_unit_id <=> unit \in DOMAIN units
      /\ id \in DOMAIN members.signal_id_to_unit_id => members.signal_id_to_unit_id[id] = units[unit]
  <2> HIDE DEF id, units
  <2> QED
    BY <1>0, <1>2, UnitOfId DEF units, unit
<1> HIDE DEF table, ids, map, units, id, unit
<1>9. table[i].id = id /\ \A j \in DOMAIN table : table[j].id = id => j = i
  BY <1>4, <1>5, <1>6
<1>10. table[i].name = x /\ table[i].unit_id = IF unit \in DOMAIN units THEN units[unit] ELSE 0
  BY <1>4, <1>6, <1>7, <1>8
<1>11. i \in DOMAIN table
  BY <1>4, <1>6
<1> QED
  BY <1>9, <1>10, <1>11 DEF RowOf, table, ids, map, units, id, unit, names
================================================================================
