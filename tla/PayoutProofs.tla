---------------------------- MODULE PayoutProofs ----------------------------
(***************************************************************************)
(* How companies and fundis are paid.  Theorems about the modules          *)
(* CompanyPayouts and FundiPayouts, for any amounts, any number of rows    *)
(* and any number of requests handled at a time, from the laws of sums     *)
(* over finite sets.                                                       *)
(*                                                                         *)
(* The modules are instantiated under the names of their own variables;    *)
(* payouts and asker stand for a variable of each.                         *)
(***************************************************************************)
EXTENDS FiniteSetTheorems, WellFoundedInduction, Functions, TLAPS

CONSTANTS
    Amounts, MaxPayouts, Askers, None,              \* of both modules
    MaxSettlements, Clerks,                         \* CompanyPayouts
    MaxEarned, MaxRequests, MaxDebts, Admins        \* FundiPayouts

VARIABLES
    payouts, asker,                                 \* of both modules
    settlements, clerk, overlap,                    \* CompanyPayouts
    earned, debts, frozen, suspect, admin           \* FundiPayouts

Withdrawals == INSTANCE CompanyPayouts

Wallets == INSTANCE FundiPayouts WITH MaxPayouts <- MaxRequests

-----------------------------------------------------------------------------
(* Sums *)

(* A set that holds 0, and with each number the next one, holds them all. *)
LEMMA CountUp ==
    ASSUME NEW G, 0 \in G, \A n \in Nat : n \in G => n + 1 \in G
    PROVE  Nat \subseteq G
<1> DEFINE Bad == Nat \ G
<1> SUFFICES ASSUME Bad # {} PROVE FALSE
  OBVIOUS
<1>1. \E n \in Bad : \A m \in Bad : ~ (<<m, n>> \in OpToRel(<, Nat))
  BY NatLessThanWellFounded, WFMin, Bad \subseteq Nat
<1>2. PICK n \in Bad : \A m \in Bad : ~ (<<m, n>> \in OpToRel(<, Nat))
  BY <1>1
<1>3. n # 0 /\ n \in Nat
  OBVIOUS
<1>4. n - 1 \in Nat /\ n = (n - 1) + 1
  BY <1>3
<1>5. n - 1 \in Bad
  BY <1>4
<1>6. <<n - 1, n>> \in OpToRel(<, Nat)
  BY <1>3, <1>4 DEF OpToRel
<1> QED
  BY <1>2, <1>5, <1>6

(* A set that holds each subset of S from which it holds all that lack one   *)
(* element holds all of the subsets of S.                                    *)
LEMMA GrowUp ==
    ASSUME NEW S, IsFiniteSet(S), NEW G,
           \A T \in SUBSET S : (\A x \in T : T \ {x} \in G) => T \in G
    PROVE  SUBSET S \subseteq G
<1> DEFINE Sized == {n \in Nat : \A T \in SUBSET S : Cardinality(T) = n => T \in G}
<1>1. \A T \in SUBSET S : IsFiniteSet(T) /\ Cardinality(T) \in Nat
  BY FS_Subset, FS_CardinalityType
<1>2. \A T \in SUBSET S : \A x \in T : Cardinality(T \ {x}) = Cardinality(T) - 1
  BY <1>1, FS_RemoveElement
<1>3. 0 \in Sized
  BY <1>1, FS_EmptySet
<1>4. ASSUME NEW n \in Nat, n \in Sized PROVE n + 1 \in Sized
  <2> SUFFICES ASSUME NEW T \in SUBSET S, Cardinality(T) = n + 1 PROVE T \in G
    OBVIOUS
  <2>1. ASSUME NEW x \in T PROVE T \ {x} \in G
    <3>1. Cardinality(T \ {x}) = n
      BY <1>2
    <3> QED
      BY <1>4, <3>1
  <2> QED
    BY <2>1
<1>5. Nat \subseteq Sized
  <2> HIDE DEF Sized
  <2> QED
    BY <1>3, <1>4, CountUp
<1> QED
  BY <1>1, <1>5

-----------------------------------------------------------------------------
First(T) == CHOOSE x \in T : TRUE

Adds(f, S, g) ==
    g = [T \in SUBSET S |-> IF T = {} THEN 0 ELSE f[First(T)] + g[T \ {First(T)}]]

LEMMA SumUnfold ==
    ASSUME NEW f, NEW S
    PROVE  SumFunctionOnSet(f, S) = (CHOOSE g : Adds(f, S, g))[S]
BY DEF SumFunctionOnSet, FoldFunctionOnSet, MapThenFoldSet, Adds, First

LEMMA FirstIsMember == \A T : T # {} => First(T) \in T
BY DEF First

(* There is such a function on the subsets of a finite set. *)
LEMMA SumExists ==
    ASSUME NEW f, NEW S, IsFiniteSet(S)
    PROVE  \E g : Adds(f, S, g)
<1> DEFINE Upto(n) == {T \in SUBSET S : Cardinality(T) <= n}
           Value(g, T) == IF T = {} THEN 0 ELSE f[First(T)] + g[T \ {First(T)}]
           Reached == {n \in Nat : \E g : g = [T \in Upto(n) |-> Value(g, T)]}
<1>1. \A T \in SUBSET S : /\ IsFiniteSet(T) /\ Cardinality(T) \in Nat
                          /\ T # {} => /\ T \ {First(T)} \in SUBSET S
                                       /\ Cardinality(T \ {First(T)}) = Cardinality(T) - 1
  BY FS_Subset, FS_CardinalityType, FS_RemoveElement, FirstIsMember
<1>2. 0 \in Reached
  <2> DEFINE g == [T \in Upto(0) |-> 0]
  <2>1. \A T \in Upto(0) : T = {}
    <3> SUFFICES ASSUME NEW T \in Upto(0) PROVE T = {}
      OBVIOUS
    <3>1. T \in SUBSET S /\ Cardinality(T) <= 0
      OBVIOUS
    <3>2. IsFiniteSet(T) /\ Cardinality(T) \in Nat
      BY <1>1, <3>1
    <3>3. Cardinality(T) = 0
      BY <3>1, <3>2
    <3> QED
      BY <3>2, <3>3, FS_EmptySet
  <2>2. g = [T \in Upto(0) |-> Value(g, T)]
    BY <2>1
  <2> QED
    BY <2>2
<1>3. ASSUME NEW n \in Nat, n \in Reached PROVE n + 1 \in Reached
  <2>1. PICK g : g = [T \in Upto(n) |-> Value(g, T)]
    BY <1>3
  <2> DEFINE h == [T \in Upto(n + 1) |-> IF T \in Upto(n) THEN g[T] ELSE Value(g, T)]
  <2>2. \A T \in Upto(n + 1) : T # {} => T \ {First(T)} \in Upto(n)
    BY <1>1
  <2>3. \A T \in Upto(n) : T \in Upto(n + 1)
    <3> SUFFICES ASSUME NEW T \in Upto(n) PROVE Cardinality(T) <= n + 1
      OBVIOUS
    <3>1. Cardinality(T) \in Nat /\ Cardinality(T) <= n
      BY <1>1
    <3> QED
      BY <3>1
  <2>4. ASSUME NEW T \in Upto(n + 1) PROVE h[T] = Value(h, T)
    <3>1. h[T] = Value(g, T)
      BY <2>1
    <3>2. T # {} => h[T \ {First(T)}] = g[T \ {First(T)}]
      BY <2>2, <2>3
    <3> QED
      BY <3>1, <3>2
  <2>5. h = [T \in Upto(n + 1) |-> Value(h, T)]
    <3> HIDE DEF Value, Upto
    <3> QED
      BY <2>4
  <2> HIDE DEF h, Upto, Value
  <2> QED
    BY <2>5
<1>4. Cardinality(S) \in Reached
  <2> HIDE DEF Reached
  <2> QED
    BY <1>1, <1>2, <1>3, CountUp
<1>5. Upto(Cardinality(S)) = SUBSET S
  BY FS_Subset, FS_CardinalityType
<1> QED
  BY <1>4, <1>5 DEF Adds

(* Every part of S is added up the same way from S as by itself. *)
LEMMA SumIsAdded ==
    ASSUME NEW f, NEW S, IsFiniteSet(S)
    PROVE  \E g : Adds(f, S, g) /\ \A T \in SUBSET S : SumFunctionOnSet(f, T) = g[T]
<1> DEFINE Sum(T) == CHOOSE g : Adds(f, T, g)
<1>1. \A T \in SUBSET S : IsFiniteSet(T) /\ Adds(f, T, Sum(T))
  BY SumExists, FS_Subset
<1> HIDE DEF Sum
<1>2. ASSUME NEW T \in SUBSET S PROVE Sum(T)[T] = Sum(S)[T]
  <2> DEFINE G == {U \in SUBSET T : Sum(T)[U] = Sum(S)[U]}
  <2>1. \A U \in SUBSET T :
           /\ Sum(T)[U] = IF U = {} THEN 0 ELSE f[First(U)] + Sum(T)[U \ {First(U)}]
           /\ Sum(S)[U] = IF U = {} THEN 0 ELSE f[First(U)] + Sum(S)[U \ {First(U)}]
    BY <1>1 DEF Adds
  <2>2. ASSUME NEW U \in SUBSET T, \A x \in U : U \ {x} \in G PROVE U \in G
    BY <2>1, <2>2, FirstIsMember
  <2>3. SUBSET T \subseteq G
    <3> HIDE DEF G
    <3> QED
      BY <1>1, <2>2, GrowUp
  <2> QED
    BY <2>3
<1> QED
  BY <1>1, <1>2, SumUnfold DEF Sum

(* A sum is a number, which grows by what is added to it. *)
LEMMA SumGrows ==
    ASSUME NEW f, NEW S, IsFiniteSet(S), \A x \in S : f[x] \in Nat
    PROVE  /\ SumFunctionOnSet(f, {}) = 0
           /\ SumFunctionOnSet(f, S) \in Nat
           /\ \A x \in S : SumFunctionOnSet(f, S) = f[x] + SumFunctionOnSet(f, S \ {x})
<1>1. PICK g : Adds(f, S, g) /\ \A T \in SUBSET S : SumFunctionOnSet(f, T) = g[T]
  BY SumIsAdded
<1>2. \A T \in SUBSET S : g[T] = IF T = {} THEN 0 ELSE f[First(T)] + g[T \ {First(T)}]
  BY <1>1 DEF Adds
<1> DEFINE Counted == {T \in SUBSET S : g[T] \in Nat}
           Good == {T \in SUBSET S : \A x \in T : g[T] = f[x] + g[T \ {x}]}
<1>3. SUBSET S \subseteq Counted
  <2>1. ASSUME NEW T \in SUBSET S, \A x \in T : T \ {x} \in Counted PROVE T \in Counted
    <3>1. CASE T = {}
      BY <1>2, <3>1
    <3>2. CASE T # {}
      <4>1. First(T) \in T /\ g[T] = f[First(T)] + g[T \ {First(T)}]
        BY <1>2, <3>2, FirstIsMember
      <4>2. f[First(T)] \in Nat /\ g[T \ {First(T)}] \in Nat
        BY <2>1, <4>1
      <4> QED
        BY <4>1, <4>2
    <3> QED
      BY <3>1, <3>2
  <2> HIDE DEF Counted
  <2> QED
    BY <2>1, GrowUp
<1>4. SUBSET S \subseteq Good
  <2>1. ASSUME NEW T \in SUBSET S, \A x \in T : T \ {x} \in Good PROVE T \in Good
    <3> SUFFICES ASSUME NEW x \in T PROVE g[T] = f[x] + g[T \ {x}]
      OBVIOUS
    <3> DEFINE y == First(T)
    <3>1. y \in T /\ g[T] = f[y] + g[T \ {y}]
      BY <1>2, FirstIsMember
    <3> HIDE DEF y
    <3>2. CASE y = x
      BY <3>1, <3>2
    <3>3. CASE y # x
      <4>1. g[T \ {y}] = f[x] + g[(T \ {y}) \ {x}]
        BY <2>1, <3>1, <3>3
      <4>2. g[T \ {x}] = f[y] + g[(T \ {x}) \ {y}]
        BY <2>1, <3>1, <3>3
      <4>3. PICK k : k = g[(T \ {x}) \ {y}]
        OBVIOUS
      <4>4. g[(T \ {y}) \ {x}] = k
        <5>1. (T \ {x}) \ {y} = (T \ {y}) \ {x}
          OBVIOUS
        <5> QED
          BY <4>3, <5>1
      <4>5. f[x] \in Nat /\ f[y] \in Nat /\ k \in Nat
        BY <1>3, <3>1, <4>3
      <4>6. g[T] = f[y] + (f[x] + k) /\ g[T \ {x}] = f[y] + k
        BY <3>1, <4>1, <4>2, <4>3, <4>4
      <4> QED
        BY <4>5, <4>6
    <3> QED
      BY <3>2, <3>3
  <2> HIDE DEF Good
  <2> QED
    BY <2>1, GrowUp
<1> QED
  BY <1>1, <1>2, <1>3, <1>4

(* A sum depends on what it adds only. *)
LEMMA SumSame ==
    ASSUME NEW f, NEW g, NEW S, IsFiniteSet(S), \A x \in S : f[x] \in Nat /\ g[x] = f[x]
    PROVE  SumFunctionOnSet(g, S) = SumFunctionOnSet(f, S)
<1> DEFINE G == {T \in SUBSET S : SumFunctionOnSet(g, T) = SumFunctionOnSet(f, T)}
<1>1. ASSUME NEW T \in SUBSET S, \A x \in T : T \ {x} \in G PROVE T \in G
  <2>1. IsFiniteSet(T)
    BY FS_Subset
  <2>2. SumFunctionOnSet(g, {}) = 0 /\ SumFunctionOnSet(f, {}) = 0
    BY <2>1, SumGrows
  <2>3. ASSUME NEW x \in T PROVE SumFunctionOnSet(g, T) = SumFunctionOnSet(f, T)
    <3>1. SumFunctionOnSet(f, T) = f[x] + SumFunctionOnSet(f, T \ {x})
      BY <2>1, SumGrows
    <3>2. SumFunctionOnSet(g, T) = g[x] + SumFunctionOnSet(g, T \ {x})
      BY <2>1, SumGrows
    <3> QED
      BY <1>1, <3>1, <3>2
  <2> QED
    BY <2>2, <2>3
<1>2. SUBSET S \subseteq G
  <2> HIDE DEF G
  <2> QED
    BY <1>1, GrowUp
<1> QED
  BY <1>2

(* The sum over two sets apart. *)
LEMMA SumOfUnion ==
    ASSUME NEW f, NEW S, NEW R, IsFiniteSet(S), IsFiniteSet(R), S \cap R = {},
           \A x \in S \cup R : f[x] \in Nat
    PROVE  SumFunctionOnSet(f, S \cup R) = SumFunctionOnSet(f, S) + SumFunctionOnSet(f, R)
<1> DEFINE G == {T \in SUBSET S :
                   SumFunctionOnSet(f, T \cup R) = SumFunctionOnSet(f, T) + SumFunctionOnSet(f, R)}
<1>1. ASSUME NEW T \in SUBSET S, \A x \in T : T \ {x} \in G PROVE T \in G
  <2>1. IsFiniteSet(T)
    BY FS_Subset
  <2>2. IsFiniteSet(T \cup R)
    BY <2>1, FS_Union
  <2>3. SumFunctionOnSet(f, {}) = 0 /\ SumFunctionOnSet(f, R) \in Nat
    BY SumGrows
  <2>4. T = {} => T \cup R = R
    OBVIOUS
  <2>5. ASSUME NEW x \in T
        PROVE  SumFunctionOnSet(f, T \cup R) = SumFunctionOnSet(f, T) + SumFunctionOnSet(f, R)
    <3>1. SumFunctionOnSet(f, T) = f[x] + SumFunctionOnSet(f, T \ {x})
      BY <2>1, SumGrows
    <3>2. SumFunctionOnSet(f, T \cup R) = f[x] + SumFunctionOnSet(f, (T \cup R) \ {x})
      BY <2>2, SumGrows
    <3>3. (T \cup R) \ {x} = (T \ {x}) \cup R
      OBVIOUS
    <3>4. IsFiniteSet(T \ {x}) /\ \A y \in T \ {x} : f[y] \in Nat
      BY <2>1, FS_RemoveElement
    <3>5. SumFunctionOnSet(f, T \ {x}) \in Nat /\ f[x] \in Nat
      BY <3>4, SumGrows
    <3> QED
      BY <1>1, <2>3, <3>1, <3>2, <3>3, <3>5
  <2> QED
    BY <2>3, <2>4, <2>5
<1>2. SUBSET S \subseteq G
  <2> HIDE DEF G
  <2> QED
    BY <1>1, GrowUp
<1> QED
  BY <1>2

LEMMA SumOfPart ==
    ASSUME NEW f, NEW S, IsFiniteSet(S), \A x \in S : f[x] \in Nat, NEW T \in SUBSET S
    PROVE  /\ SumFunctionOnSet(f, T) \in Nat
           /\ SumFunctionOnSet(f, S) = SumFunctionOnSet(f, T) + SumFunctionOnSet(f, S \ T)
           /\ SumFunctionOnSet(f, T) <= SumFunctionOnSet(f, S)
<1>1. PICK R : R = S \ T
  OBVIOUS
<1>2. IsFiniteSet(T) /\ IsFiniteSet(R) /\ T \cap R = {} /\ R \subseteq S
  BY <1>1, FS_Subset
<1>3. SumFunctionOnSet(f, T) \in Nat /\ SumFunctionOnSet(f, R) \in Nat
  BY <1>2, SumGrows
<1>4. SumFunctionOnSet(f, T \cup R) = SumFunctionOnSet(f, T) + SumFunctionOnSet(f, R)
  BY <1>2, SumOfUnion
<1>5. S = T \cup R
  BY <1>1
<1>6. SumFunctionOnSet(f, S) = SumFunctionOnSet(f, T) + SumFunctionOnSet(f, R)
  BY <1>4, <1>5, Zenon
<1>7. SumFunctionOnSet(f, T) <= SumFunctionOnSet(f, S)
  BY <1>3, <1>6
<1> QED
  BY <1>1, <1>3, <1>6, <1>7, Zenon

(* What one element more or less makes of a sum, and another value of one. *)
LEMMA SumChanges ==
    ASSUME NEW f, NEW g, NEW S, NEW x \in S, IsFiniteSet(S),
           \A y \in S : f[y] \in Nat, g[x] \in Nat, \A y \in S \ {x} : g[y] = f[y]
    PROVE  /\ SumFunctionOnSet(f, S) = f[x] + SumFunctionOnSet(f, S \ {x})
           /\ SumFunctionOnSet(g, S) = g[x] + SumFunctionOnSet(f, S \ {x})
           /\ SumFunctionOnSet(f, S \ {x}) \in Nat
<1>1. IsFiniteSet(S \ {x})
  BY FS_RemoveElement
<1>2. SumFunctionOnSet(f, S) = f[x] + SumFunctionOnSet(f, S \ {x})
  BY SumGrows
<1>3. \A y \in S : g[y] \in Nat
  OBVIOUS
<1>4. SumFunctionOnSet(g, S) = g[x] + SumFunctionOnSet(g, S \ {x})
  BY <1>3, SumGrows
<1>5. SumFunctionOnSet(g, S \ {x}) = SumFunctionOnSet(f, S \ {x})
  BY <1>1, SumSame
<1>6. SumFunctionOnSet(f, S \ {x}) \in Nat
  BY <1>1, SumGrows
<1> QED
  BY <1>2, <1>4, <1>5, <1>6

LEMMA SumJoins ==
    ASSUME NEW f, NEW g, NEW S, NEW T, NEW x, x \notin S, T = S \cup {x}, IsFiniteSet(S),
           \A y \in S : f[y] \in Nat, \A y \in S : g[y] = f[y], g[x] \in Nat
    PROVE  SumFunctionOnSet(g, T) = g[x] + SumFunctionOnSet(f, S)
<1>1. T \ {x} = S /\ x \in T /\ \A y \in T : g[y] \in Nat
  OBVIOUS
<1>2. IsFiniteSet(T)
  BY FS_AddElement
<1>3. SumFunctionOnSet(g, T) = g[x] + SumFunctionOnSet(g, T \ {x})
  BY <1>1, <1>2, SumGrows
<1>4. SumFunctionOnSet(g, S) = SumFunctionOnSet(f, S)
  BY SumSame
<1> QED
  BY <1>1, <1>3, <1>4

(* Sums of the elements of two functions. *)
LEMMA SumsAdd ==
    ASSUME NEW f, NEW g, NEW h, NEW S, IsFiniteSet(S),
           \A x \in S : f[x] \in Nat /\ g[x] \in Nat /\ h[x] = f[x] + g[x]
    PROVE  SumFunctionOnSet(h, S) = SumFunctionOnSet(f, S) + SumFunctionOnSet(g, S)
<1> DEFINE G == {T \in SUBSET S :
                   SumFunctionOnSet(h, T) = SumFunctionOnSet(f, T) + SumFunctionOnSet(g, T)}
<1>1. ASSUME NEW T \in SUBSET S, \A x \in T : T \ {x} \in G PROVE T \in G
  <2>1. /\ IsFiniteSet(T) /\ \A x \in T : f[x] \in Nat
        /\ \A x \in T : g[x] \in Nat
        /\ \A x \in T : h[x] \in Nat
    BY FS_Subset
  <2>2. SumFunctionOnSet(f, {}) = 0 /\ SumFunctionOnSet(g, {}) = 0 /\ SumFunctionOnSet(h, {}) = 0
    BY <2>1, SumGrows
  <2>3. ASSUME NEW x \in T
        PROVE  SumFunctionOnSet(h, T) = SumFunctionOnSet(f, T) + SumFunctionOnSet(g, T)
    <3>1. /\ SumFunctionOnSet(f, T) = f[x] + SumFunctionOnSet(f, T \ {x})
          /\ SumFunctionOnSet(g, T) = g[x] + SumFunctionOnSet(g, T \ {x})
          /\ SumFunctionOnSet(h, T) = h[x] + SumFunctionOnSet(h, T \ {x})
      BY <2>1, SumGrows
    <3>2. PICK U : U = T \ {x}
      OBVIOUS
    <3>3. IsFiniteSet(U) /\ (\A y \in U : f[y] \in Nat) /\ (\A y \in U : g[y] \in Nat)
      BY <2>1, <3>2, FS_RemoveElement
    <3>4. SumFunctionOnSet(f, U) \in Nat /\ SumFunctionOnSet(g, U) \in Nat
      BY <3>3, SumGrows
    <3>5. SumFunctionOnSet(h, U) = SumFunctionOnSet(f, U) + SumFunctionOnSet(g, U)
      BY <1>1, <3>2
    <3>6. h[x] = f[x] + g[x] /\ f[x] \in Nat /\ g[x] \in Nat
      OBVIOUS
    <3> QED
      BY <3>1, <3>2, <3>4, <3>5, <3>6
  <2> QED
    BY <2>2, <2>3
<1>2. SUBSET S \subseteq G
  <2> HIDE DEF G
  <2> QED
    BY <1>1, GrowUp
<1> QED
  BY <1>2

-----------------------------------------------------------------------------
(* Companies *)

LEMMA WithdrawalSums ==
    \A f, S : Withdrawals!SumFunctionOnSet(f, S) = SumFunctionOnSet(f, S)
BY DEF SumFunctionOnSet, FoldFunctionOnSet, MapThenFoldSet, Withdrawals!SumFunctionOnSet,
       Withdrawals!FoldFunctionOnSet, Withdrawals!MapThenFoldSet

LEMMA WalletSums ==
    \A f, S : Wallets!SumFunctionOnSet(f, S) = SumFunctionOnSet(f, S)
BY DEF SumFunctionOnSet, FoldFunctionOnSet, MapThenFoldSet, Wallets!SumFunctionOnSet,
       Wallets!FoldFunctionOnSet, Wallets!MapThenFoldSet

Nets == [s \in Withdrawals!Settlements |-> settlements[s].net]
Having(statuses) == {s \in Withdrawals!Settlements : settlements[s].status \in statuses}

Sums == [p \in Withdrawals!Payouts |-> payouts[p].amount]
Asked(statuses) == {p \in Withdrawals!Payouts : payouts[p].status \in statuses}

Earned == {"pending", "paid", "cancelled"}
Taken == {"requested", "completed"}

WithdrawalsTyped ==
    /\ settlements \in [Withdrawals!Settlements ->
                           [status : {"none"} \cup Earned, net : Nat]]
    /\ payouts \in [Withdrawals!Payouts -> [status : {"none"} \cup Taken, amount : Nat]]
    /\ asker \in [Askers -> Amounts \cup {None}]
    /\ clerk \in [Clerks -> [payout : Withdrawals!Payouts, paid : SUBSET Withdrawals!Settlements]
                              \cup {None}]
    /\ overlap \in BOOLEAN

LEMMA SumsUnfold ==
    /\ \A ss : Withdrawals!Net(ss) = SumFunctionOnSet(Nets, ss)
    /\ \A st : Withdrawals!SettlementsIn(st) = SumFunctionOnSet(Nets, Having(st))
    /\ \A st : Withdrawals!PayoutsIn(st) = SumFunctionOnSet(Sums, Asked(st))
<1>1. \A ss : Withdrawals!Net(ss) = SumFunctionOnSet(Nets, ss)
  BY WithdrawalSums DEF Withdrawals!Net, Nets
<1>2. \A st : Withdrawals!SettlementsIn(st) = SumFunctionOnSet(Nets, Having(st))
  BY <1>1 DEF Withdrawals!SettlementsIn, Having
<1>3. \A st : Withdrawals!PayoutsIn(st) = SumFunctionOnSet(Sums, Asked(st))
  BY WithdrawalSums DEF Withdrawals!PayoutsIn, Sums, Asked
<1> QED
  BY <1>1, <1>2, <1>3

LEMMA RowsCount ==
    ASSUME MaxSettlements \in Nat, MaxPayouts \in Nat, WithdrawalsTyped
    PROVE  /\ IsFiniteSet(Withdrawals!Settlements) /\ IsFiniteSet(Withdrawals!Payouts)
           /\ \A s \in Withdrawals!Settlements : Nets[s] = settlements[s].net /\ Nets[s] \in Nat
           /\ \A p \in Withdrawals!Payouts : Sums[p] = payouts[p].amount /\ Sums[p] \in Nat
           /\ \A ss \in SUBSET Withdrawals!Settlements :
                 IsFiniteSet(ss) /\ Withdrawals!Net(ss) \in Nat
           /\ \A st : IsFiniteSet(Asked(st)) /\ Withdrawals!PayoutsIn(st) \in Nat
           /\ \A st : IsFiniteSet(Having(st)) /\ Withdrawals!SettlementsIn(st) \in Nat
<1>1. IsFiniteSet(Withdrawals!Settlements) /\ IsFiniteSet(Withdrawals!Payouts)
  BY FS_Interval DEF Withdrawals!Settlements, Withdrawals!Payouts
<1>2. \A s \in Withdrawals!Settlements : Nets[s] = settlements[s].net /\ Nets[s] \in Nat
  BY DEF Nets, WithdrawalsTyped
<1>3. \A p \in Withdrawals!Payouts : Sums[p] = payouts[p].amount /\ Sums[p] \in Nat
  BY DEF Sums, WithdrawalsTyped
<1>4. \A ss \in SUBSET Withdrawals!Settlements : IsFiniteSet(ss)
  BY <1>1, FS_Subset
<1>5. \A ps \in SUBSET Withdrawals!Payouts : IsFiniteSet(ps)
  BY <1>1, FS_Subset
<1>6. \A ss \in SUBSET Withdrawals!Settlements : SumFunctionOnSet(Nets, ss) \in Nat
  BY <1>2, <1>4, SumGrows
<1>7. \A ps \in SUBSET Withdrawals!Payouts : SumFunctionOnSet(Sums, ps) \in Nat
  BY <1>3, <1>5, SumGrows
<1>8. (\A st : Having(st) \in SUBSET Withdrawals!Settlements)
        /\ (\A st : Asked(st) \in SUBSET Withdrawals!Payouts)
  BY DEF Having, Asked
<1> QED
  BY <1>1, <1>2, <1>3, <1>4, <1>5, <1>6, <1>7, <1>8, SumsUnfold

(* What was asked for is requested or completed; what is pending or paid    *)
(* was earned.                                                              *)
LEMMA PartsOfSums ==
    ASSUME MaxSettlements \in Nat, MaxPayouts \in Nat, WithdrawalsTyped
    PROVE  /\ Withdrawals!PayoutsIn(Taken) =
                  Withdrawals!PayoutsIn({"requested"}) + Withdrawals!PayoutsIn({"completed"})
           /\ Withdrawals!SettlementsIn({"pending"}) + Withdrawals!SettlementsIn({"paid"})
                  <= Withdrawals!SettlementsIn(Earned)
<1>1. Withdrawals!PayoutsIn(Taken) =
          Withdrawals!PayoutsIn({"requested"}) + Withdrawals!PayoutsIn({"completed"})
  <2>1. /\ Asked({"requested"}) \cap Asked({"completed"}) = {}
        /\ Asked(Taken) = Asked({"requested"}) \cup Asked({"completed"})
    BY DEF Asked, Taken
  <2>2. \A p \in Asked({"requested"}) \cup Asked({"completed"}) : Sums[p] \in Nat
    BY RowsCount DEF Asked
  <2> QED
    BY <2>1, <2>2, RowsCount, SumsUnfold, SumOfUnion
<1>2. Withdrawals!SettlementsIn({"pending"}) + Withdrawals!SettlementsIn({"paid"})
          <= Withdrawals!SettlementsIn(Earned)
  <2>1. PICK T : T = Having({"pending"}) \cup Having({"paid"})
    OBVIOUS
  <2>2. Having({"pending"}) \cap Having({"paid"}) = {} /\ T \in SUBSET Having(Earned)
    BY <2>1 DEF Having, Earned
  <2>3. \A s \in Having(Earned) : Nets[s] \in Nat
    BY RowsCount DEF Having
  <2>4. SumFunctionOnSet(Nets, T) <= SumFunctionOnSet(Nets, Having(Earned))
    BY <2>2, <2>3, RowsCount, SumOfPart
  <2>5. SumFunctionOnSet(Nets, T) =
            SumFunctionOnSet(Nets, Having({"pending"})) + SumFunctionOnSet(Nets, Having({"paid"}))
    <3>1. \A s \in Having({"pending"}) \cup Having({"paid"}) : Nets[s] \in Nat
      BY <2>1, <2>2, <2>3
    <3> QED
      BY <2>1, <2>2, <3>1, RowsCount, SumOfUnion
  <2> QED
    BY <2>4, <2>5, SumsUnfold
<1> QED
  BY <1>1, <1>2

(* The same of the next state. *)
LEMMA SumsUnfoldNext ==
    /\ \A ss : Withdrawals!Net(ss)' = SumFunctionOnSet(Nets', ss)
    /\ \A st : Withdrawals!SettlementsIn(st)' = SumFunctionOnSet(Nets', Having(st)')
    /\ \A st : Withdrawals!PayoutsIn(st)' = SumFunctionOnSet(Sums', Asked(st)')
<1>1. \A ss : Withdrawals!Net(ss)' = SumFunctionOnSet(Nets', ss)
  BY WithdrawalSums DEF Withdrawals!Net, Nets
<1>2. \A st : Withdrawals!SettlementsIn(st)' = SumFunctionOnSet(Nets', Having(st)')
  BY <1>1 DEF Withdrawals!SettlementsIn, Having
<1>3. \A st : Withdrawals!PayoutsIn(st)' = SumFunctionOnSet(Sums', Asked(st)')
  BY WithdrawalSums DEF Withdrawals!PayoutsIn, Sums, Asked
<1> QED
  BY <1>1, <1>2, <1>3

(* One withdrawal is asked for at a time. *)
OneAsks == \A a, b \in Askers : asker[a] # None /\ asker[b] # None => a = b

(* What is asked for is still covered when it is recorded. *)
StaysCovered ==
    \A a \in Askers :
        asker[a] # None =>
            asker[a] + Withdrawals!PayoutsIn(Taken) <= Withdrawals!SettlementsIn(Earned)

(* Of completions that never overlapped: one is under way at most, and it   *)
(* pays settlements that were not paid, for the payout it completes.        *)
OneCompletes ==
    /\ \A c, d \in Clerks : clerk[c] # None /\ clerk[d] # None => c = d
    /\ \A c \in Clerks :
          clerk[c] # None =>
              /\ payouts[clerk[c].payout].status = "requested"
              /\ clerk[c].paid \subseteq Having({"pending", "cancelled"})
              /\ Withdrawals!Net(clerk[c].paid) = payouts[clerk[c].payout].amount

WithdrawalsInv ==
    /\ WithdrawalsTyped /\ OneAsks
    /\ overlap \/ /\ OneCompletes /\ StaysCovered
                  /\ Withdrawals!PaidAsSettled
                  /\ Withdrawals!PayoutsIn(Taken) <= Withdrawals!SettlementsIn(Earned)

LEMMA InitWithdrawals == Withdrawals!Init => WithdrawalsInv
<1> SUFFICES ASSUME Withdrawals!Init PROVE WithdrawalsInv
  OBVIOUS
<1>1. WithdrawalsTyped /\ OneAsks /\ OneCompletes /\ StaysCovered
  BY DEF Withdrawals!Init, WithdrawalsTyped, OneAsks, OneCompletes, StaysCovered, Earned, Taken
<1>2. \A st : "none" \notin st => Having(st) = {} /\ Asked(st) = {}
  BY DEF Withdrawals!Init, Having, Asked
<1>3. SumFunctionOnSet(Nets, {}) = 0 /\ SumFunctionOnSet(Sums, {}) = 0
  BY SumGrows, FS_EmptySet
<1>4. \A st : "none" \notin st =>
                  Withdrawals!SettlementsIn(st) = 0 /\ Withdrawals!PayoutsIn(st) = 0
  BY <1>2, <1>3, SumsUnfold
<1> QED
  BY <1>1, <1>4 DEF WithdrawalsInv, Withdrawals!PaidAsSettled, Earned, Taken

LEMMA WithdrawalsAreRight ==
    WithdrawalsInv => Withdrawals!SettledInFull /\ Withdrawals!NeverOverdrawn
BY DEF WithdrawalsInv, Withdrawals!SettledInFull, Withdrawals!NeverOverdrawn, Earned, Taken

LEMMA ReleaseKeepsWithdrawals ==
    ASSUME MaxSettlements \in Nat, MaxPayouts \in Nat, Amounts \subseteq Nat,
           WithdrawalsInv, Withdrawals!releaseJobEscrow
    PROVE  WithdrawalsInv'
<1>1. PICK s \in Withdrawals!Settlements, v \in Amounts :
         /\ settlements[s].status = "none"
         /\ settlements' = [settlements EXCEPT ![s] = [status |-> "pending", net |-> v]]
         /\ UNCHANGED <<payouts, asker, clerk, overlap>>
  BY DEF Withdrawals!releaseJobEscrow, Withdrawals!NextRow
<1>2. WithdrawalsTyped /\ OneAsks
  BY DEF WithdrawalsInv
<1>3. WithdrawalsTyped' /\ OneAsks'
  BY <1>1, <1>2 DEF WithdrawalsTyped, OneAsks, Earned
<1>4. /\ Having({"paid"})' = Having({"paid"}) /\ Having(Earned)' = Having(Earned) \cup {s}
      /\ s \notin Having(Earned)
      /\ Having({"pending", "cancelled"}) \subseteq Having({"pending", "cancelled"})'
  BY <1>1, <1>2 DEF WithdrawalsTyped, Having, Earned
<1>5. Nets'[s] = v /\ v \in Nat /\ \A t \in Withdrawals!Settlements \ {s} : Nets'[t] = Nets[t]
  BY <1>1, <1>2 DEF WithdrawalsTyped, Nets
<1>6. \A st : Withdrawals!PayoutsIn(st)' = Withdrawals!PayoutsIn(st)
  BY <1>1 DEF Withdrawals!PayoutsIn
<1>7. \A ss \in SUBSET (Withdrawals!Settlements \ {s}) :
         SumFunctionOnSet(Nets', ss) = SumFunctionOnSet(Nets, ss)
  <2> SUFFICES ASSUME NEW ss \in SUBSET (Withdrawals!Settlements \ {s})
               PROVE  SumFunctionOnSet(Nets', ss) = SumFunctionOnSet(Nets, ss)
    OBVIOUS
  <2>1. IsFiniteSet(ss) /\ \A t \in ss : Nets[t] \in Nat /\ Nets'[t] = Nets[t]
    BY <1>2, <1>5, RowsCount
  <2> QED
    BY <2>1, SumSame
<1>8. Withdrawals!SettlementsIn({"paid"})' = Withdrawals!SettlementsIn({"paid"})
  <2>1. Having({"paid"}) \in SUBSET (Withdrawals!Settlements \ {s})
    BY <1>1 DEF Having
  <2> QED
    BY <1>4, <1>7, <2>1, SumsUnfold, SumsUnfoldNext
<1>9. Withdrawals!SettlementsIn(Earned)' = v + Withdrawals!SettlementsIn(Earned)
  <2>1. IsFiniteSet(Having(Earned)) /\ Nets'[s] \in Nat
    BY <1>2, <1>5, RowsCount
  <2>2. \A t \in Having(Earned) : Nets[t] \in Nat
    BY <1>2, RowsCount DEF Having
  <2>3. \A t \in Having(Earned) : Nets'[t] = Nets[t]
    BY <1>4, <1>5 DEF Having
  <2>4. SumFunctionOnSet(Nets', Having(Earned)')
            = Nets'[s] + SumFunctionOnSet(Nets, Having(Earned))
    BY <1>4, <2>1, <2>2, <2>3, SumJoins
  <2> QED
    BY <1>5, <2>4, SumsUnfold, SumsUnfoldNext
<1>10. ASSUME OneCompletes PROVE OneCompletes'
  <2>1. \A c \in Clerks : clerk[c] # None =>
           /\ clerk[c].paid \in SUBSET (Withdrawals!Settlements \ {s})
           /\ clerk[c].payout \in Withdrawals!Payouts
    BY <1>1, <1>2, <1>10 DEF OneCompletes, WithdrawalsTyped, Having
  <2>2. \A c \in Clerks : clerk[c] # None =>
           Withdrawals!Net(clerk[c].paid)' = Withdrawals!Net(clerk[c].paid)
    BY <1>1, <1>7, <2>1, SumsUnfold, SumsUnfoldNext
  <2> QED
    BY <1>1, <1>4, <1>10, <2>2 DEF OneCompletes
<1>11. ASSUME StaysCovered PROVE StaysCovered'
  <2>1. Withdrawals!SettlementsIn(Earned) \in Nat /\ Withdrawals!PayoutsIn(Taken) \in Nat
    BY <1>2, RowsCount
  <2>2. \A a \in Askers : asker[a] # None => asker[a] \in Nat
    BY <1>2 DEF WithdrawalsTyped
  <2> QED
    BY <1>1, <1>5, <1>6, <1>9, <1>11, <2>1, <2>2 DEF StaysCovered
<1>12. Withdrawals!SettlementsIn(Earned) \in Nat /\ Withdrawals!PayoutsIn(Taken) \in Nat
  BY <1>2, RowsCount
<1> QED
  BY <1>1, <1>3, <1>5, <1>6, <1>8, <1>9, <1>10, <1>11, <1>12
  DEF WithdrawalsInv, Withdrawals!PaidAsSettled

LEMMA RefundKeepsWithdrawals ==
    ASSUME MaxSettlements \in Nat, MaxPayouts \in Nat, Amounts \subseteq Nat,
           WithdrawalsInv, Withdrawals!executeRefundReversal
    PROVE  WithdrawalsInv'
<1>1. PICK s \in Withdrawals!Settlements :
         /\ settlements[s].status = "pending"
         /\ settlements' = [settlements EXCEPT ![s].status = "cancelled"]
         /\ UNCHANGED <<payouts, asker, clerk, overlap>>
  BY DEF Withdrawals!executeRefundReversal
<1>2. WithdrawalsTyped /\ OneAsks
  BY DEF WithdrawalsInv
<1>3. WithdrawalsTyped' /\ OneAsks'
  BY <1>1, <1>2 DEF WithdrawalsTyped, OneAsks, Earned
<1>4. /\ Having({"paid"})' = Having({"paid"}) /\ Having(Earned)' = Having(Earned)
      /\ Having({"pending", "cancelled"})' = Having({"pending", "cancelled"})
  BY <1>1, <1>2 DEF WithdrawalsTyped, Having, Earned
<1>5. Nets' = Nets
  BY <1>1, <1>2 DEF WithdrawalsTyped, Nets
<1>6. \A st : Withdrawals!PayoutsIn(st)' = Withdrawals!PayoutsIn(st)
  BY <1>1 DEF Withdrawals!PayoutsIn
<1>7. \A ss : Withdrawals!Net(ss)' = Withdrawals!Net(ss)
  BY <1>5, SumsUnfold, SumsUnfoldNext
<1>8. /\ Withdrawals!SettlementsIn({"paid"})' = Withdrawals!SettlementsIn({"paid"})
      /\ Withdrawals!SettlementsIn(Earned)' = Withdrawals!SettlementsIn(Earned)
  BY <1>4, <1>5, SumsUnfold, SumsUnfoldNext
<1>9. OneCompletes => OneCompletes'
  BY <1>1, <1>4, <1>7 DEF OneCompletes
<1>10. StaysCovered => StaysCovered'
  BY <1>1, <1>6, <1>8 DEF StaysCovered
<1> QED
  BY <1>1, <1>3, <1>6, <1>8, <1>9, <1>10 DEF WithdrawalsInv, Withdrawals!PaidAsSettled

LEMMA CheckKeepsWithdrawals ==
    ASSUME MaxSettlements \in Nat, MaxPayouts \in Nat, Amounts \subseteq Nat,
           WithdrawalsInv, NEW a \in Askers, Withdrawals!CheckBalance(a)
    PROVE  WithdrawalsInv'
<1>1. PICK v \in Amounts :
         /\ v + Withdrawals!PayoutsIn({"requested"}) <= Withdrawals!SettlementsIn({"pending"})
         /\ asker' = [asker EXCEPT ![a] = v]
  BY DEF Withdrawals!CheckBalance
<1>2. /\ \A b \in Askers : asker[b] = None
      /\ UNCHANGED <<settlements, payouts, clerk, overlap>>
  BY DEF Withdrawals!CheckBalance
<1>3. WithdrawalsTyped
  BY DEF WithdrawalsInv
<1>4. WithdrawalsTyped' /\ OneAsks'
  BY <1>1, <1>2, <1>3 DEF WithdrawalsTyped, OneAsks
<1>5. \A st : /\ Withdrawals!PayoutsIn(st)' = Withdrawals!PayoutsIn(st)
              /\ Withdrawals!SettlementsIn(st)' = Withdrawals!SettlementsIn(st)
  BY <1>2 DEF Withdrawals!PayoutsIn, Withdrawals!SettlementsIn, Withdrawals!Net
<1>6. OneCompletes => OneCompletes'
  BY <1>2 DEF OneCompletes, Having, Withdrawals!Net
<1>7. ASSUME Withdrawals!PaidAsSettled PROVE StaysCovered'
  <2>1. v \in Nat /\ \A st : /\ Withdrawals!PayoutsIn(st) \in Nat
                             /\ Withdrawals!SettlementsIn(st) \in Nat
    BY <1>3, RowsCount
  <2>2. v + Withdrawals!PayoutsIn(Taken) <= Withdrawals!SettlementsIn(Earned)
    BY <1>1, <1>3, <1>7, <2>1, PartsOfSums DEF Withdrawals!PaidAsSettled
  <2>3. \A b \in Askers : asker'[b] # None => asker'[b] = v
    BY <1>1, <1>2, <1>3 DEF WithdrawalsTyped
  <2> QED
    BY <1>5, <2>2, <2>3 DEF StaysCovered
<1> QED
  BY <1>2, <1>4, <1>5, <1>6, <1>7 DEF WithdrawalsInv, Withdrawals!PaidAsSettled

LEMMA RecordKeepsWithdrawals ==
    ASSUME MaxSettlements \in Nat, MaxPayouts \in Nat, Amounts \subseteq Nat,
           WithdrawalsInv, NEW a \in Askers, Withdrawals!requestCompanyWithdrawal(a)
    PROVE  WithdrawalsInv'
<1>1. PICK p \in Withdrawals!Payouts :
         /\ payouts[p].status = "none"
         /\ payouts' = [payouts EXCEPT ![p] = [status |-> "requested", amount |-> asker[a]]]
  BY DEF Withdrawals!requestCompanyWithdrawal, Withdrawals!NextRow
<1>2. /\ asker[a] # None /\ asker' = [asker EXCEPT ![a] = None]
      /\ UNCHANGED <<settlements, clerk, overlap>>
  BY DEF Withdrawals!requestCompanyWithdrawal
<1>3. WithdrawalsTyped /\ OneAsks
  BY DEF WithdrawalsInv
<1>4. asker[a] \in Nat
  BY <1>2, <1>3 DEF WithdrawalsTyped
<1>5. WithdrawalsTyped' /\ \A b \in Askers : asker'[b] = None
  BY <1>1, <1>2, <1>3, <1>4 DEF WithdrawalsTyped, OneAsks, Taken
<1>6. /\ Asked({"completed"})' = Asked({"completed"}) /\ Asked(Taken)' = Asked(Taken) \cup {p}
      /\ p \notin Asked(Taken)
  BY <1>1, <1>3 DEF WithdrawalsTyped, Asked, Taken
<1>7. Sums'[p] = asker[a] /\ \A q \in Withdrawals!Payouts \ {p} : Sums'[q] = Sums[q]
  BY <1>1, <1>3 DEF WithdrawalsTyped, Sums
<1>8. \A st : Withdrawals!SettlementsIn(st)' = Withdrawals!SettlementsIn(st)
  BY <1>2 DEF Withdrawals!SettlementsIn, Withdrawals!Net
<1>9. Withdrawals!PayoutsIn({"completed"})' = Withdrawals!PayoutsIn({"completed"})
  <2>1. IsFiniteSet(Asked({"completed"}))
        /\ \A q \in Asked({"completed"}) : Sums[q] \in Nat /\ Sums'[q] = Sums[q]
    BY <1>1, <1>3, <1>7, RowsCount DEF Asked
  <2>2. SumFunctionOnSet(Sums', Asked({"completed"})) = SumFunctionOnSet(Sums, Asked({"completed"}))
    BY <2>1, SumSame
  <2> QED
    BY <1>6, <2>2, SumsUnfold, SumsUnfoldNext
<1>10. Withdrawals!PayoutsIn(Taken)' = asker[a] + Withdrawals!PayoutsIn(Taken)
  <2>1. IsFiniteSet(Asked(Taken)) /\ Sums'[p] \in Nat
    BY <1>3, <1>4, <1>7, RowsCount
  <2>2. \A q \in Asked(Taken) : Sums[q] \in Nat
    BY <1>3, RowsCount DEF Asked
  <2>3. \A q \in Asked(Taken) : Sums'[q] = Sums[q]
    BY <1>6, <1>7 DEF Asked
  <2>4. SumFunctionOnSet(Sums', Asked(Taken)') = Sums'[p] + SumFunctionOnSet(Sums, Asked(Taken))
    BY <1>6, <2>1, <2>2, <2>3, SumJoins
  <2> QED
    BY <1>7, <2>4, SumsUnfold, SumsUnfoldNext
<1>11. ASSUME OneCompletes PROVE OneCompletes'
  <2>1. \A c \in Clerks : clerk[c] # None => payouts'[clerk[c].payout] = payouts[clerk[c].payout]
    BY <1>1, <1>3, <1>11 DEF OneCompletes, WithdrawalsTyped
  <2> QED
    BY <1>2, <1>11, <2>1 DEF OneCompletes, Having, Withdrawals!Net
<1>12. OneAsks' /\ StaysCovered'
  BY <1>5 DEF OneAsks, StaysCovered
<1> QED
  BY <1>2, <1>5, <1>8, <1>9, <1>10, <1>11, <1>12
  DEF WithdrawalsInv, Withdrawals!PaidAsSettled, StaysCovered

LEMMA ReadKeepsWithdrawals ==
    ASSUME MaxSettlements \in Nat, MaxPayouts \in Nat, Amounts \subseteq Nat,
           WithdrawalsInv, NEW c \in Clerks, Withdrawals!ReadPending(c)
    PROVE  WithdrawalsInv'
<1>0. PICK p \in Withdrawals!Payouts :
         /\ payouts[p].status = "requested"
         /\ \E paid \in Withdrawals!markSettlementsPaid(payouts[p].amount) :
               /\ Withdrawals!Net(paid) = payouts[p].amount
               /\ clerk' = [clerk EXCEPT ![c] = [payout |-> p, paid |-> paid]]
  BY DEF Withdrawals!ReadPending
<1>1. PICK paid \in Withdrawals!markSettlementsPaid(payouts[p].amount) :
         /\ Withdrawals!Net(paid) = payouts[p].amount
         /\ clerk' = [clerk EXCEPT ![c] = [payout |-> p, paid |-> paid]]
  BY <1>0
<1>2. /\ clerk[c] = None /\ UNCHANGED <<settlements, payouts, asker>>
      /\ overlap' = (overlap \/ \E o \in Clerks : clerk[o] # None)
  BY DEF Withdrawals!ReadPending
<1>3. WithdrawalsTyped /\ OneAsks
  BY DEF WithdrawalsInv
<1>4. paid \in SUBSET Withdrawals!Settlements /\ paid \subseteq Having({"pending", "cancelled"})
  BY DEF Withdrawals!markSettlementsPaid, Having
<1>5. overlap' \in BOOLEAN
  BY <1>2
<1>6. clerk' \in [Clerks -> [payout : Withdrawals!Payouts, paid : SUBSET Withdrawals!Settlements]
                            \cup {None}]
  BY <1>1, <1>3, <1>4 DEF WithdrawalsTyped
<1>7. WithdrawalsTyped' /\ OneAsks'
  BY <1>2, <1>3, <1>5, <1>6 DEF WithdrawalsTyped, OneAsks
<1>8. \A st : /\ Withdrawals!PayoutsIn(st)' = Withdrawals!PayoutsIn(st)
              /\ Withdrawals!SettlementsIn(st)' = Withdrawals!SettlementsIn(st)
              /\ Having(st)' = Having(st)
  BY <1>2 DEF Withdrawals!PayoutsIn, Withdrawals!SettlementsIn, Withdrawals!Net, Having
<1>9. \A ss : Withdrawals!Net(ss)' = Withdrawals!Net(ss)
  BY <1>2 DEF Withdrawals!Net
<1>10. ~ overlap' => ~ overlap /\ \A o \in Clerks : clerk[o] = None
  BY <1>2
<1>11. ASSUME \A o \in Clerks : clerk[o] = None PROVE OneCompletes'
  <2>1. clerk'[c] = [payout |-> p, paid |-> paid] /\ \A o \in Clerks \ {c} : clerk'[o] = None
    BY <1>1, <1>3, <1>11 DEF WithdrawalsTyped
  <2> QED
    BY <1>0, <1>1, <1>2, <1>4, <1>8, <1>9, <2>1 DEF OneCompletes
<1>12. StaysCovered => StaysCovered'
  BY <1>2, <1>8 DEF StaysCovered
<1> QED
  BY <1>7, <1>8, <1>10, <1>11, <1>12 DEF WithdrawalsInv, Withdrawals!PaidAsSettled

LEMMA CompletionKeepsWithdrawals ==
    ASSUME MaxSettlements \in Nat, MaxPayouts \in Nat, Amounts \subseteq Nat,
           WithdrawalsInv, NEW c \in Clerks, Withdrawals!completePayout(c)
    PROVE  WithdrawalsInv'
<1>1. PICK p, paid : clerk[c].payout = p /\ clerk[c].paid = paid
  OBVIOUS
<1>2. /\ clerk[c] # None /\ clerk' = [clerk EXCEPT ![c] = None] /\ UNCHANGED <<asker, overlap>>
      /\ payouts' = [payouts EXCEPT ![p].status = "completed"]
      /\ settlements' = [s \in Withdrawals!Settlements |->
                            IF s \in paid THEN [settlements[s] EXCEPT !.status = "paid"]
                                          ELSE settlements[s]]
  BY <1>1 DEF Withdrawals!completePayout
<1>3. WithdrawalsTyped /\ OneAsks
  BY DEF WithdrawalsInv
<1>4. p \in Withdrawals!Payouts /\ paid \in SUBSET Withdrawals!Settlements
  BY <1>1, <1>2, <1>3 DEF WithdrawalsTyped
<1>5. WithdrawalsTyped' /\ OneAsks'
  <2>1. payouts' \in [Withdrawals!Payouts -> [status : {"none"} \cup Taken, amount : Nat]]
    BY <1>2, <1>3, <1>4 DEF WithdrawalsTyped, Taken
  <2>2. settlements' \in [Withdrawals!Settlements -> [status : {"none"} \cup Earned, net : Nat]]
    BY <1>2, <1>3 DEF WithdrawalsTyped, Earned
  <2>3. clerk' \in [Clerks -> [payout : Withdrawals!Payouts, paid : SUBSET Withdrawals!Settlements]
                              \cup {None}]
    BY <1>2, <1>3 DEF WithdrawalsTyped
  <2> QED
    BY <1>2, <1>3, <2>1, <2>2, <2>3 DEF WithdrawalsTyped, OneAsks
<1>6. Nets' = Nets
  BY <1>2, <1>3 DEF WithdrawalsTyped, Nets
<1>7. Sums' = Sums
  BY <1>2, <1>3 DEF WithdrawalsTyped, Sums
<1>8. ASSUME OneCompletes, StaysCovered, Withdrawals!PaidAsSettled,
             Withdrawals!PayoutsIn(Taken) <= Withdrawals!SettlementsIn(Earned)
      PROVE  /\ OneCompletes' /\ StaysCovered' /\ Withdrawals!PaidAsSettled'
             /\ Withdrawals!PayoutsIn(Taken)' <= Withdrawals!SettlementsIn(Earned)'
  <2>1. /\ payouts[p].status = "requested" /\ paid \subseteq Having({"pending", "cancelled"})
        /\ Withdrawals!Net(paid) = payouts[p].amount
        /\ \A d \in Clerks : clerk'[d] = None
    BY <1>1, <1>2, <1>3, <1>8 DEF OneCompletes, WithdrawalsTyped
  <2>2. /\ Asked(Taken)' = Asked(Taken) /\ Asked({"completed"})' = Asked({"completed"}) \cup {p}
        /\ p \notin Asked({"completed"})
    BY <1>2, <1>3, <1>4, <2>1 DEF WithdrawalsTyped, Asked, Taken
  <2>3. /\ Having(Earned)' = Having(Earned) /\ Having({"paid"})' = Having({"paid"}) \cup paid
        /\ Having({"paid"}) \cap paid = {}
    BY <1>2, <1>3, <1>4, <2>1 DEF WithdrawalsTyped, Having, Earned
  <2>4. /\ Withdrawals!PayoutsIn(Taken)' = Withdrawals!PayoutsIn(Taken)
        /\ Withdrawals!SettlementsIn(Earned)' = Withdrawals!SettlementsIn(Earned)
    BY <1>6, <1>7, <2>2, <2>3, SumsUnfold, SumsUnfoldNext
  <2>5. Withdrawals!PayoutsIn({"completed"})'
            = payouts[p].amount + Withdrawals!PayoutsIn({"completed"})
    <3>1. /\ IsFiniteSet(Asked({"completed"})) /\ Sums[p] = payouts[p].amount /\ Sums[p] \in Nat
          /\ \A q \in Asked({"completed"}) : Sums[q] \in Nat
      BY <1>3, <1>4, RowsCount DEF Asked
    <3>2. SumFunctionOnSet(Sums, Asked({"completed"})')
              = Sums[p] + SumFunctionOnSet(Sums, Asked({"completed"}))
      BY <2>2, <3>1, SumJoins
    <3> QED
      BY <1>7, <3>1, <3>2, SumsUnfold, SumsUnfoldNext
  <2>6. Withdrawals!SettlementsIn({"paid"})'
            = Withdrawals!SettlementsIn({"paid"}) + Withdrawals!Net(paid)
    <3>1. /\ IsFiniteSet(Having({"paid"})) /\ IsFiniteSet(paid)
          /\ \A s \in Having({"paid"}) \cup paid : Nets[s] \in Nat
      BY <1>3, <1>4, RowsCount DEF Having
    <3>2. SumFunctionOnSet(Nets, Having({"paid"}) \cup paid)
              = SumFunctionOnSet(Nets, Having({"paid"})) + SumFunctionOnSet(Nets, paid)
      BY <2>3, <3>1, SumOfUnion
    <3>3. SumFunctionOnSet(Nets', Having({"paid"})')
              = SumFunctionOnSet(Nets, Having({"paid"}) \cup paid)
      BY <1>6, <2>3, Zenon
    <3> QED
      BY <3>2, <3>3, SumsUnfold, SumsUnfoldNext
  <2>7. /\ payouts[p].amount \in Nat /\ Withdrawals!PayoutsIn({"completed"}) \in Nat
        /\ Withdrawals!SettlementsIn({"paid"}) \in Nat
    BY <1>3, <1>4, RowsCount
  <2>8. Withdrawals!PaidAsSettled'
    BY <1>8, <2>1, <2>5, <2>6, <2>7 DEF Withdrawals!PaidAsSettled
  <2>9. StaysCovered'
    BY <1>2, <1>8, <2>4 DEF StaysCovered
  <2>10. OneCompletes'
    BY <2>1 DEF OneCompletes
  <2> QED
    BY <1>8, <2>4, <2>8, <2>9, <2>10
<1> QED
  BY <1>2, <1>5, <1>8 DEF WithdrawalsInv

LEMMA NextWithdrawals ==
    ASSUME MaxSettlements \in Nat, MaxPayouts \in Nat, Amounts \subseteq Nat,
           WithdrawalsInv, [Withdrawals!Next]_(Withdrawals!vars)
    PROVE  WithdrawalsInv'
<1>1. CASE Withdrawals!releaseJobEscrow
  BY <1>1, ReleaseKeepsWithdrawals
<1>2. CASE Withdrawals!executeRefundReversal
  BY <1>2, RefundKeepsWithdrawals
<1>3. ASSUME NEW a \in Askers, Withdrawals!CheckBalance(a) PROVE WithdrawalsInv'
  BY <1>3, CheckKeepsWithdrawals
<1>4. ASSUME NEW a \in Askers, Withdrawals!requestCompanyWithdrawal(a) PROVE WithdrawalsInv'
  BY <1>4, RecordKeepsWithdrawals
<1>5. ASSUME NEW c \in Clerks, Withdrawals!ReadPending(c) PROVE WithdrawalsInv'
  BY <1>5, ReadKeepsWithdrawals
<1>6. ASSUME NEW c \in Clerks, Withdrawals!completePayout(c) PROVE WithdrawalsInv'
  BY <1>6, CompletionKeepsWithdrawals
<1>7. CASE UNCHANGED Withdrawals!vars
  BY <1>7 DEF Withdrawals!vars, WithdrawalsInv, WithdrawalsTyped, OneAsks, OneCompletes,
              StaysCovered, Withdrawals!PaidAsSettled, Withdrawals!PayoutsIn,
              Withdrawals!SettlementsIn, Withdrawals!Net, Having
<1> QED
  BY <1>1, <1>2, <1>3, <1>4, <1>5, <1>6, <1>7 DEF Withdrawals!Next

(* Completions that did not overlap pay off settlements of what the company *)
(* was paid, whatever is refunded between their reading and their commit    *)
(* (payoutController.js:200-210).                                           *)
THEOREM PaidIsSettled ==
    ASSUME MaxSettlements \in Nat, MaxPayouts \in Nat, Amounts \subseteq Nat
    PROVE  Withdrawals!Spec => []Withdrawals!SettledInFull
<1>1. Withdrawals!Init => WithdrawalsInv
  BY InitWithdrawals
<1>2. WithdrawalsInv /\ [Withdrawals!Next]_(Withdrawals!vars) => WithdrawalsInv'
  BY NextWithdrawals
<1> QED
  BY <1>1, <1>2, WithdrawalsAreRight, PTL DEF Withdrawals!Spec

(* Withdrawals asked for at the same time never get a company more than it  *)
(* earned, as long as completions do not overlap                            *)
(* (companyPayoutService.js:44-46).                                         *)
THEOREM WithdrawalsAreEarned ==
    ASSUME MaxSettlements \in Nat, MaxPayouts \in Nat, Amounts \subseteq Nat
    PROVE  Withdrawals!Spec => []Withdrawals!NeverOverdrawn
<1>1. Withdrawals!Init => WithdrawalsInv
  BY InitWithdrawals
<1>2. WithdrawalsInv /\ [Withdrawals!Next]_(Withdrawals!vars) => WithdrawalsInv'
  BY NextWithdrawals
<1> QED
  BY <1>1, <1>2, WithdrawalsAreRight, PTL DEF Withdrawals!Spec

-----------------------------------------------------------------------------
(* Fundis *)

(* The columns of payouts and debts that are added up. *)
Amount == [p \in Wallets!Payouts |-> payouts[p].amount]
Booked == [p \in Wallets!Payouts |-> payouts[p].taken]
Debt == [d \in Wallets!Debts |-> debts[d].amount]
Collected == [d \in Wallets!Debts |-> debts[d].taken]

WalletsTyped ==
    /\ earned \in Nat
    /\ payouts \in [Wallets!Payouts ->
                       [status : {"none", "requested", "processing", "completed"},
                        amount : Nat, net : Nat, taken : Nat]]
    /\ debts \in [Wallets!Debts ->
                     [status : {"none", "pending", "deducted"}, amount : Nat, taken : Nat]]
    /\ frozen \in [wallet : BOOLEAN, payout : BOOLEAN]
    /\ asker \in [Askers -> [amount : Nat, net : Nat] \cup {None}]
    /\ admin \in [Admins -> [wallet : BOOLEAN, payout : BOOLEAN] \cup {None}]

LEMMA WalletRowsCount ==
    ASSUME MaxRequests \in Nat, MaxDebts \in Nat, WalletsTyped
    PROVE  /\ IsFiniteSet(Wallets!Payouts) /\ IsFiniteSet(Wallets!Debts)
           /\ \A p \in Wallets!Payouts : Amount[p] \in Nat /\ Booked[p] \in Nat
           /\ \A d \in Wallets!Debts : Debt[d] \in Nat /\ Collected[d] \in Nat
           /\ \A ds : IsFiniteSet(ds \cap Wallets!Open) /\ Wallets!Owed(ds) \in Nat
           /\ Wallets!PaidOut \in Nat
           /\ SumFunctionOnSet(Booked, Wallets!Payouts) \in Nat
           /\ SumFunctionOnSet(Collected, Wallets!Debts) \in Nat
<1>1. IsFiniteSet(Wallets!Payouts) /\ IsFiniteSet(Wallets!Debts)
  BY FS_Interval DEF Wallets!Payouts, Wallets!Debts
<1>2. \A p \in Wallets!Payouts : Amount[p] \in Nat /\ Booked[p] \in Nat
  BY DEF Amount, Booked, WalletsTyped
<1>3. \A d \in Wallets!Debts : Debt[d] \in Nat /\ Collected[d] \in Nat
  BY DEF Debt, Collected, WalletsTyped
<1>4. \A ds : ds \cap Wallets!Open \in SUBSET Wallets!Debts
  BY DEF Wallets!Open
<1>5. \A ds \in SUBSET Wallets!Debts : IsFiniteSet(ds)
  BY <1>1, FS_Subset
<1>6. \A ds \in SUBSET Wallets!Debts : SumFunctionOnSet(Debt, ds) \in Nat
  BY <1>3, <1>5, SumGrows
<1>7. /\ SumFunctionOnSet(Amount, Wallets!Payouts) \in Nat
      /\ SumFunctionOnSet(Booked, Wallets!Payouts) \in Nat
      /\ SumFunctionOnSet(Collected, Wallets!Debts) \in Nat
  BY <1>1, <1>2, <1>3, SumGrows
<1>8. (\A ds : Wallets!Owed(ds) = SumFunctionOnSet(Debt, ds \cap Wallets!Open))
        /\ Wallets!PaidOut = SumFunctionOnSet(Amount, Wallets!Payouts)
  BY WalletSums DEF Wallets!Owed, Wallets!PaidOut, Debt, Amount
<1> QED
  BY <1>1, <1>2, <1>3, <1>4, <1>5, <1>6, <1>7, <1>8

LEMMA WalletSumsUnfold ==
    /\ \A ds : Wallets!Owed(ds) = SumFunctionOnSet(Debt, ds \cap Wallets!Open)
    /\ Wallets!PaidOut = SumFunctionOnSet(Amount, Wallets!Payouts)
    /\ \A ds : Wallets!Owed(ds)' = SumFunctionOnSet(Debt', ds \cap Wallets!Open')
    /\ Wallets!PaidOut' = SumFunctionOnSet(Amount', Wallets!Payouts)
    /\ Wallets!WithheldIsBooked <=>
          /\ \A p \in Wallets!Payouts : payouts[p].amount - payouts[p].net <= payouts[p].taken
          /\ SumFunctionOnSet(Booked, Wallets!Payouts) = SumFunctionOnSet(Collected, Wallets!Debts)
          /\ \A d \in Wallets!Debts :
                debts[d].status = "deducted" => debts[d].taken >= debts[d].amount
    /\ Wallets!WithheldIsBooked' <=>
          /\ \A p \in Wallets!Payouts : payouts'[p].amount - payouts'[p].net <= payouts'[p].taken
          /\ SumFunctionOnSet(Booked', Wallets!Payouts)
                 = SumFunctionOnSet(Collected', Wallets!Debts)
          /\ \A d \in Wallets!Debts :
                debts'[d].status = "deducted" => debts'[d].taken >= debts'[d].amount
<1>1. /\ \A ds : Wallets!Owed(ds) = SumFunctionOnSet(Debt, ds \cap Wallets!Open)
      /\ \A ds : Wallets!Owed(ds)' = SumFunctionOnSet(Debt', ds \cap Wallets!Open')
  BY WalletSums DEF Wallets!Owed, Debt
<1>2. /\ Wallets!PaidOut = SumFunctionOnSet(Amount, Wallets!Payouts)
      /\ Wallets!PaidOut' = SumFunctionOnSet(Amount', Wallets!Payouts)
  BY WalletSums DEF Wallets!PaidOut, Amount
<1>3. Wallets!WithheldIsBooked <=>
          /\ \A p \in Wallets!Payouts : payouts[p].amount - payouts[p].net <= payouts[p].taken
          /\ SumFunctionOnSet(Booked, Wallets!Payouts) = SumFunctionOnSet(Collected, Wallets!Debts)
          /\ \A d \in Wallets!Debts :
                debts[d].status = "deducted" => debts[d].taken >= debts[d].amount
  BY WalletSums DEF Wallets!WithheldIsBooked, Booked, Collected
<1>4. Wallets!WithheldIsBooked' <=>
          /\ \A p \in Wallets!Payouts : payouts'[p].amount - payouts'[p].net <= payouts'[p].taken
          /\ SumFunctionOnSet(Booked', Wallets!Payouts)
                 = SumFunctionOnSet(Collected', Wallets!Debts)
          /\ \A d \in Wallets!Debts :
                debts'[d].status = "deducted" => debts'[d].taken >= debts'[d].amount
  BY WalletSums DEF Wallets!WithheldIsBooked, Booked, Collected
<1> QED
  BY <1>1, <1>2, <1>3, <1>4

(* A row that is not there yet counts for nothing. *)
RowsStartEmpty ==
    /\ \A p \in Wallets!Payouts :
          payouts[p].status = "none" => payouts[p].amount = 0 /\ payouts[p].taken = 0
    /\ \A d \in Wallets!Debts : debts[d].status = "none" => debts[d].taken = 0

(* One payout is asked for at a time.  What its checks found stays so until *)
(* it is recorded: the amount is covered, no money is frozen, and there are *)
(* debts for what is withheld.                                              *)
ChecksStand ==
    /\ \A a, b \in Askers : asker[a] # None /\ asker[b] # None => a = b
    /\ \A a \in Askers :
          asker[a] # None =>
              /\ asker[a].amount + Wallets!PaidOut <= earned
              /\ ~ frozen.wallet /\ ~ frozen.payout
              /\ asker[a].amount - asker[a].net
                     <= Wallets!Least(Wallets!Owed(Wallets!Debts), asker[a].amount)

WalletsInv ==
    /\ WalletsTyped /\ RowsStartEmpty /\ ChecksStand
    /\ Wallets!NeverOverdrawn /\ Wallets!WithheldIsBooked

(* What the debts that are still open are, up to the nth one. *)
Upto(n) == {d \in Wallets!Debts : d <= n}

LEMMA OwedGrows ==
    ASSUME MaxRequests \in Nat, MaxDebts \in Nat, WalletsTyped,
           NEW n \in Nat, n + 1 \in Wallets!Debts
    PROVE  Wallets!Owed(Upto(n + 1)) =
              Wallets!Owed(Upto(n)) + (IF n + 1 \in Wallets!Open THEN Debt[n + 1] ELSE 0)
<1>1. PICK S, T : S = Upto(n) \cap Wallets!Open /\ T = Upto(n + 1) \cap Wallets!Open
  OBVIOUS
<1>2. IsFiniteSet(S) /\ SumFunctionOnSet(Debt, S) \in Nat
  BY <1>1, WalletRowsCount, WalletSumsUnfold
<1>3. CASE n + 1 \in Wallets!Open
  <2>1. PICK m : m = n + 1
    OBVIOUS
  <2>2. T = S \cup {m} /\ m \notin S
    BY <1>1, <1>3, <2>1 DEF Upto, Wallets!Debts
  <2>3. \A d \in S : Debt[d] \in Nat
    BY <1>1, WalletRowsCount DEF Upto
  <2>4. IsFiniteSet(S) /\ Debt[m] \in Nat
    BY <1>2, <2>1, WalletRowsCount
  <2>5. SumFunctionOnSet(Debt, T) = Debt[m] + SumFunctionOnSet(Debt, S)
    BY <2>2, <2>3, <2>4, SumJoins
  <2> QED
    BY <1>1, <1>2, <1>3, <2>1, <2>4, <2>5, WalletSumsUnfold
<1>4. CASE n + 1 \notin Wallets!Open
  <2>1. T = S
    BY <1>1, <1>4 DEF Upto, Wallets!Debts
  <2> QED
    BY <1>1, <1>2, <1>4, <2>1, WalletSumsUnfold
<1> QED
  BY <1>3, <1>4

(* What is taken from the debts comes to the amount, or to all of the debts *)
(* that are open if that is less.                                           *)
LEMMA DeductionTakes ==
    ASSUME MaxRequests \in Nat, MaxDebts \in Nat, WalletsTyped, NEW amount \in Nat,
           NEW f, f = [d \in Wallets!Debts |-> Wallets!TakenFrom(d, amount)]
    PROVE  /\ \A d \in Wallets!Debts : f[d] \in Nat
           /\ SumFunctionOnSet(f, Wallets!Debts) =
                  Wallets!Least(Wallets!Owed(Wallets!Debts), amount)
<1>1. /\ \A ds : Wallets!Owed(ds) \in Nat
      /\ \A d \in Wallets!Debts : Debt[d] \in Nat /\ debts[d].amount = Debt[d]
      /\ IsFiniteSet(Wallets!Debts)
  BY WalletRowsCount DEF Debt
<1>2. \A d \in Wallets!Debts :
         f[d] = IF d \notin Wallets!Open \/ Wallets!Owed({e \in Wallets!Debts : e < d}) >= amount
                THEN 0
                ELSE Wallets!Least(amount - Wallets!Owed({e \in Wallets!Debts : e < d}), Debt[d])
  BY <1>1 DEF Wallets!TakenFrom
<1>3. \A d \in Wallets!Debts : f[d] \in Nat
  <2> SUFFICES ASSUME NEW d \in Wallets!Debts PROVE f[d] \in Nat
    OBVIOUS
  <2>1. PICK older : older = Wallets!Owed({e \in Wallets!Debts : e < d}) /\ older \in Nat
    BY <1>1
  <2>2. f[d] = IF d \notin Wallets!Open \/ older >= amount
               THEN 0 ELSE Wallets!Least(amount - older, Debt[d])
    BY <1>2, <2>1, Zenon
  <2>3. Debt[d] \in Nat
    BY <1>1
  <2> QED
    BY <2>1, <2>2, <2>3 DEF Wallets!Least
<1> DEFINE Reached == {n \in Nat : SumFunctionOnSet(f, Upto(n)) =
                                       Wallets!Least(Wallets!Owed(Upto(n)), amount)}
<1>4. 0 \in Reached
  <2>1. Upto(0) = {} /\ Upto(0) \cap Wallets!Open = {}
    BY DEF Upto, Wallets!Debts
  <2>2. SumFunctionOnSet(f, {}) = 0 /\ SumFunctionOnSet(Debt, {}) = 0
    BY SumGrows, FS_EmptySet
  <2>3. SumFunctionOnSet(f, Upto(0)) = 0 /\ Wallets!Owed(Upto(0)) = 0
    BY <2>1, <2>2, WalletSumsUnfold
  <2> QED
    BY <2>3 DEF Wallets!Least
<1>5. ASSUME NEW n \in Nat, n \in Reached PROVE n + 1 \in Reached
  <2>1. CASE n + 1 \notin Wallets!Debts
    <3>1. Upto(n + 1) = Upto(n)
      BY <2>1 DEF Upto, Wallets!Debts
    <3> QED
      BY <1>5, <3>1
  <2>2. CASE n + 1 \in Wallets!Debts
    <3>1. PICK owed : owed = Wallets!Owed(Upto(n)) /\ owed \in Nat
      BY <1>1
    <3>2. /\ Upto(n + 1) = Upto(n) \cup {n + 1} /\ n + 1 \notin Upto(n)
          /\ Upto(n) = {e \in Wallets!Debts : e < n + 1}
      BY <2>2 DEF Upto, Wallets!Debts
    <3>3. f[n + 1] = IF n + 1 \notin Wallets!Open \/ owed >= amount
                     THEN 0 ELSE Wallets!Least(amount - owed, Debt[n + 1])
      BY <1>2, <2>2, <3>1, <3>2
    <3>4. IsFiniteSet(Upto(n)) /\ \A d \in Upto(n) : f[d] \in Nat
      BY <1>1, <1>3, FS_Subset DEF Upto
    <3>5. SumFunctionOnSet(f, Upto(n + 1)) = f[n + 1] + SumFunctionOnSet(f, Upto(n))
      BY <1>3, <2>2, <3>2, <3>4, SumJoins
    <3>6. SumFunctionOnSet(f, Upto(n)) = Wallets!Least(owed, amount)
      BY <1>5, <3>1
    <3>7. Wallets!Owed(Upto(n + 1)) =
             owed + (IF n + 1 \in Wallets!Open THEN Debt[n + 1] ELSE 0)
      BY <2>2, <3>1, OwedGrows
    <3>8. Debt[n + 1] \in Nat /\ f[n + 1] \in Nat
      BY <1>1, <1>3, <2>2
    <3>9. SumFunctionOnSet(f, Upto(n + 1)) = Wallets!Least(Wallets!Owed(Upto(n + 1)), amount)
      BY <3>1, <3>3, <3>5, <3>6, <3>7, <3>8 DEF Wallets!Least
    <3> QED
      BY <3>9
  <2> QED
    BY <2>1, <2>2
<1>6. MaxDebts \in Reached
  <2> HIDE DEF Reached
  <2> QED
    BY <1>4, <1>5, CountUp
<1>7. Upto(MaxDebts) = Wallets!Debts
  BY DEF Upto, Wallets!Debts
<1> QED
  BY <1>3, <1>6, <1>7

LEMMA InitWallets == ASSUME MaxRequests \in Nat, MaxDebts \in Nat, Wallets!Init PROVE WalletsInv
<1>1. WalletsTyped /\ RowsStartEmpty
  BY DEF Wallets!Init, WalletsTyped, RowsStartEmpty
<1>2. /\ \A p \in Wallets!Payouts : Amount[p] = 0 /\ Booked[p] = 0
      /\ \A d \in Wallets!Debts : Collected[d] = 0
  BY DEF Wallets!Init, Amount, Booked, Collected
<1> DEFINE zero == [x \in Wallets!Payouts \cup Wallets!Debts |-> 0]
<1>3. \A S \in SUBSET (Wallets!Payouts \cup Wallets!Debts) :
         IsFiniteSet(S) => SumFunctionOnSet(zero, S) = 0
  <2> SUFFICES ASSUME NEW S \in SUBSET (Wallets!Payouts \cup Wallets!Debts), IsFiniteSet(S)
               PROVE  SumFunctionOnSet(zero, S) = 0
    OBVIOUS
  <2>1. \A x \in S : zero[x] \in Nat /\ zero[x] = zero[x] + zero[x]
    OBVIOUS
  <2> HIDE DEF zero
  <2>2. SumFunctionOnSet(zero, S) = SumFunctionOnSet(zero, S) + SumFunctionOnSet(zero, S)
    BY <2>1, SumsAdd
  <2>3. SumFunctionOnSet(zero, S) \in Nat
    BY <2>1, SumGrows
  <2> QED
    BY <2>2, <2>3
<1>4. /\ \A p \in Wallets!Payouts : zero[p] \in Nat /\ Amount[p] = zero[p] /\ Booked[p] = zero[p]
      /\ \A d \in Wallets!Debts : zero[d] \in Nat /\ Collected[d] = zero[d]
  BY <1>2
<1> HIDE DEF zero
<1>5. IsFiniteSet(Wallets!Payouts) /\ IsFiniteSet(Wallets!Debts)
  BY FS_Interval DEF Wallets!Payouts, Wallets!Debts
<1>6. /\ SumFunctionOnSet(Amount, Wallets!Payouts) = 0
      /\ SumFunctionOnSet(Booked, Wallets!Payouts) = 0
      /\ SumFunctionOnSet(Collected, Wallets!Debts) = 0
  BY <1>3, <1>4, <1>5, SumSame
<1>7. Wallets!NeverOverdrawn
  BY <1>6, WalletSumsUnfold DEF Wallets!NeverOverdrawn, Wallets!Init
<1>8. Wallets!WithheldIsBooked
  BY <1>6, WalletSumsUnfold DEF Wallets!Init
<1>9. ChecksStand
  BY DEF Wallets!Init, ChecksStand
<1> QED
  BY <1>1, <1>7, <1>8, <1>9 DEF WalletsInv

(* A payout that is recorded adds its amount, and what it takes from debts. *)
LEMMA RecordedRow ==
    ASSUME MaxRequests \in Nat, MaxDebts \in Nat, WalletsTyped, RowsStartEmpty,
           NEW p \in Wallets!Payouts, payouts[p].status = "none",
           NEW r \in [status : {"none", "requested", "processing", "completed"},
                      amount : Nat, net : Nat, taken : Nat],
           payouts' = [payouts EXCEPT ![p] = r]
    PROVE  /\ Wallets!PaidOut' = r.amount + Wallets!PaidOut
           /\ SumFunctionOnSet(Booked', Wallets!Payouts) =
                 r.taken + SumFunctionOnSet(Booked, Wallets!Payouts)
           /\ payouts' \in [Wallets!Payouts ->
                               [status : {"none", "requested", "processing", "completed"},
                                amount : Nat, net : Nat, taken : Nat]]
<1>1. payouts' \in [Wallets!Payouts -> [status : {"none", "requested", "processing", "completed"},
                                         amount : Nat, net : Nat, taken : Nat]]
  BY DEF WalletsTyped
<1>2. /\ Amount[p] = 0 /\ Amount'[p] = r.amount
      /\ \A q \in Wallets!Payouts \ {p} : Amount'[q] = Amount[q]
  BY DEF WalletsTyped, RowsStartEmpty, Amount
<1>3. /\ Booked[p] = 0 /\ Booked'[p] = r.taken
      /\ \A q \in Wallets!Payouts \ {p} : Booked'[q] = Booked[q]
  BY DEF WalletsTyped, RowsStartEmpty, Booked
<1>4. /\ IsFiniteSet(Wallets!Payouts) /\ r.amount \in Nat /\ r.taken \in Nat
      /\ \A q \in Wallets!Payouts : Amount[q] \in Nat
      /\ \A q \in Wallets!Payouts : Booked[q] \in Nat
  BY WalletRowsCount
<1>5. /\ SumFunctionOnSet(Amount, Wallets!Payouts) =
            Amount[p] + SumFunctionOnSet(Amount, Wallets!Payouts \ {p})
      /\ SumFunctionOnSet(Amount', Wallets!Payouts) =
            Amount'[p] + SumFunctionOnSet(Amount, Wallets!Payouts \ {p})
      /\ SumFunctionOnSet(Amount, Wallets!Payouts \ {p}) \in Nat
  <2>1. /\ IsFiniteSet(Wallets!Payouts) /\ Amount'[p] \in Nat
        /\ \A q \in Wallets!Payouts : Amount[q] \in Nat
    BY <1>2, <1>4
  <2>2. \A q \in Wallets!Payouts \ {p} : Amount'[q] = Amount[q]
    BY <1>2
  <2> QED
    BY <2>1, <2>2, SumChanges
<1>6. /\ SumFunctionOnSet(Booked, Wallets!Payouts) =
            Booked[p] + SumFunctionOnSet(Booked, Wallets!Payouts \ {p})
      /\ SumFunctionOnSet(Booked', Wallets!Payouts) =
            Booked'[p] + SumFunctionOnSet(Booked, Wallets!Payouts \ {p})
      /\ SumFunctionOnSet(Booked, Wallets!Payouts \ {p}) \in Nat
  <2>1. /\ IsFiniteSet(Wallets!Payouts) /\ Booked'[p] \in Nat
        /\ \A q \in Wallets!Payouts : Booked[q] \in Nat
    BY <1>3, <1>4
  <2>2. \A q \in Wallets!Payouts \ {p} : Booked'[q] = Booked[q]
    BY <1>3
  <2> QED
    BY <2>1, <2>2, SumChanges
<1> QED
  BY <1>1, <1>2, <1>3, <1>5, <1>6, WalletSumsUnfold

LEMMA ReleaseKeepsWallets ==
    ASSUME MaxRequests \in Nat, MaxDebts \in Nat, Amounts \subseteq Nat,
           WalletsInv, Wallets!releaseJobEscrow
    PROVE  WalletsInv'
<1>1. PICK v \in Amounts :
         /\ earned' = earned + v
         /\ \/ UNCHANGED payouts
            \/ \E p \in Wallets!Payouts :
                  /\ payouts[p].status = "none"
                  /\ payouts' = [payouts EXCEPT ![p] = [status |-> "processing", amount |-> v,
                                                      net |-> v, taken |-> 0]]
         /\ UNCHANGED <<debts, frozen, suspect, asker, admin>>
  BY DEF Wallets!releaseJobEscrow, Wallets!NextRow
<1>2. /\ WalletsTyped /\ RowsStartEmpty /\ ChecksStand
      /\ Wallets!NeverOverdrawn /\ Wallets!WithheldIsBooked
  BY DEF WalletsInv
<1>3. \A ds : Wallets!Owed(ds)' = Wallets!Owed(ds)
  BY <1>1 DEF Wallets!Owed, Wallets!Open
<1>4. Collected' = Collected
  BY <1>1 DEF Collected
<1>5. Wallets!PaidOut \in Nat /\ earned \in Nat /\ v \in Nat
  BY <1>2, WalletRowsCount DEF WalletsTyped
<1>6. \A a \in Askers : asker[a] # None => asker[a].amount \in Nat
  BY <1>2 DEF WalletsTyped
<1>7. ASSUME Wallets!PaidOut' <= Wallets!PaidOut + v, Wallets!PaidOut' \in Nat
      PROVE  ChecksStand' /\ Wallets!NeverOverdrawn'
  <2>1. ASSUME NEW a \in Askers, asker[a] # None
        PROVE  asker[a].amount + Wallets!PaidOut' <= earned'
    <3>1. asker[a].amount + Wallets!PaidOut <= earned
      BY <1>2, <2>1 DEF ChecksStand
    <3> QED
      BY <1>1, <1>5, <1>6, <1>7, <2>1, <3>1
  <2>2. ChecksStand'
    BY <1>1, <1>2, <1>3, <2>1 DEF ChecksStand, Wallets!Least, Wallets!Debts
  <2>3. Wallets!NeverOverdrawn'
    BY <1>1, <1>2, <1>5, <1>7 DEF Wallets!NeverOverdrawn
  <2> QED
    BY <2>2, <2>3
<1>8. CASE UNCHANGED payouts
  <2>1. Amount' = Amount /\ Booked' = Booked
    BY <1>8 DEF Amount, Booked
  <2>2. Wallets!PaidOut' = Wallets!PaidOut
    BY <2>1, WalletSumsUnfold
  <2>3. Wallets!WithheldIsBooked'
    BY <1>1, <1>2, <1>4, <1>8, <2>1, WalletSumsUnfold
  <2>4. WalletsTyped' /\ RowsStartEmpty'
    BY <1>1, <1>2, <1>5, <1>8 DEF WalletsTyped, RowsStartEmpty
  <2>5. ChecksStand' /\ Wallets!NeverOverdrawn'
    BY <1>5, <1>7, <2>2
  <2> QED
    BY <2>3, <2>4, <2>5 DEF WalletsInv
<1>9. ASSUME NEW p \in Wallets!Payouts, payouts[p].status = "none",
             payouts' = [payouts EXCEPT ![p] = [status |-> "processing", amount |-> v,
                                                net |-> v, taken |-> 0]]
      PROVE  WalletsInv'
  <2> DEFINE r == [status |-> "processing", amount |-> v, net |-> v, taken |-> 0]
  <2>1. r \in [status : {"none", "requested", "processing", "completed"},
              amount : Nat, net : Nat, taken : Nat]
    BY <1>5
  <2>2. r.amount = v /\ r.taken = 0 /\ r.net = v /\ r.status = "processing"
    OBVIOUS
  <2>3. payouts' = [payouts EXCEPT ![p] = r]
    BY <1>9
  <2> HIDE DEF r
  <2>4. /\ Wallets!PaidOut' = r.amount + Wallets!PaidOut
        /\ SumFunctionOnSet(Booked', Wallets!Payouts) =
              r.taken + SumFunctionOnSet(Booked, Wallets!Payouts)
        /\ payouts' \in [Wallets!Payouts ->
                            [status : {"none", "requested", "processing", "completed"},
                             amount : Nat, net : Nat, taken : Nat]]
    BY <1>2, <1>9, <2>1, <2>3, RecordedRow
  <2>5. payouts'[p] = r /\ \A q \in Wallets!Payouts \ {p} : payouts'[q] = payouts[q]
    BY <1>2, <2>3 DEF WalletsTyped
  <2>6. SumFunctionOnSet(Booked', Wallets!Payouts) = SumFunctionOnSet(Booked, Wallets!Payouts)
    BY <1>2, <2>2, <2>4, WalletRowsCount
  <2>7. \A q \in Wallets!Payouts : payouts'[q].amount - payouts'[q].net <= payouts'[q].taken
    BY <1>2, <1>5, <2>2, <2>5, WalletSumsUnfold
  <2>8. Wallets!WithheldIsBooked'
    BY <1>1, <1>2, <1>4, <2>6, <2>7, WalletSumsUnfold
  <2>9. WalletsTyped'
    BY <1>1, <1>2, <1>5, <2>4 DEF WalletsTyped
  <2>10. RowsStartEmpty'
    BY <1>1, <1>2, <2>2, <2>5 DEF RowsStartEmpty
  <2>11. ChecksStand' /\ Wallets!NeverOverdrawn'
    BY <1>5, <1>7, <2>2, <2>4
  <2> QED
    BY <2>8, <2>9, <2>10, <2>11 DEF WalletsInv
<1> QED
  BY <1>1, <1>8, <1>9

LEMMA DebtKeepsWallets ==
    ASSUME MaxRequests \in Nat, MaxDebts \in Nat, Amounts \subseteq Nat,
           WalletsInv, Wallets!flagSuspiciousCommission
    PROVE  WalletsInv'
<1>1. PICK d \in Wallets!Debts, v \in Amounts :
         /\ debts[d].status = "none"
         /\ debts' = [debts EXCEPT ![d] = [status |-> "pending", amount |-> v, taken |-> 0]]
         /\ UNCHANGED <<earned, payouts, frozen, asker, admin>>
  BY DEF Wallets!flagSuspiciousCommission, Wallets!NextRow
<1>2. /\ WalletsTyped /\ RowsStartEmpty /\ ChecksStand
      /\ Wallets!NeverOverdrawn /\ Wallets!WithheldIsBooked
  BY DEF WalletsInv
<1>3. WalletsTyped'
  BY <1>1, <1>2 DEF WalletsTyped
<1>4. RowsStartEmpty'
  BY <1>1, <1>2 DEF RowsStartEmpty, WalletsTyped
<1>5. Amount' = Amount /\ Booked' = Booked /\ Collected' = Collected
  BY <1>1, <1>2 DEF Amount, Booked, Collected, RowsStartEmpty, WalletsTyped
<1>6. Wallets!PaidOut' = Wallets!PaidOut
  BY <1>5, WalletSumsUnfold
<1>7. Wallets!WithheldIsBooked'
  <2>1. \A e \in Wallets!Debts : debts'[e].status = "deducted" => debts'[e] = debts[e]
    BY <1>1, <1>2 DEF WalletsTyped
  <2> QED
    BY <1>1, <1>2, <1>5, <2>1, WalletSumsUnfold
<1>8. Wallets!Owed(Wallets!Debts)' = v + Wallets!Owed(Wallets!Debts)
  <2>1. PICK S, T : /\ S = Wallets!Debts \cap Wallets!Open
                    /\ T = Wallets!Debts \cap Wallets!Open'
    OBVIOUS
  <2>2. T = S \cup {d} /\ d \notin S
    BY <1>1, <1>2, <2>1 DEF Wallets!Open, WalletsTyped
  <2>3. Debt'[d] = v /\ v \in Nat
    BY <1>1, <1>2 DEF Debt, WalletsTyped
  <2>4. \A e \in S : Debt'[e] = Debt[e]
    BY <1>1, <1>2, <2>1, <2>2 DEF Debt, WalletsTyped
  <2>5. \A e \in S : Debt[e] \in Nat
    BY <1>2, <2>1, WalletRowsCount
  <2>6. IsFiniteSet(S)
    BY <1>2, <2>1, WalletRowsCount
  <2>7. Debt'[d] \in Nat
    BY <2>3
  <2>8. SumFunctionOnSet(Debt', T) = Debt'[d] + SumFunctionOnSet(Debt, S)
    BY <2>2, <2>4, <2>5, <2>6, <2>7, SumJoins
  <2> QED
    BY <2>1, <2>3, <2>8, WalletSumsUnfold
<1>9. ChecksStand'
  <2>1. v \in Nat /\ Wallets!Owed(Wallets!Debts) \in Nat
    BY <1>2, WalletRowsCount
  <2>2. \A a \in Askers : asker[a] # None => asker[a].amount \in Nat /\ asker[a].net \in Nat
    BY <1>2 DEF WalletsTyped
  <2>3. ASSUME NEW a \in Askers, asker[a] # None
        PROVE  asker[a].amount - asker[a].net
                  <= Wallets!Least(Wallets!Owed(Wallets!Debts)', asker[a].amount)
    <3>1. asker[a].amount - asker[a].net
             <= Wallets!Least(Wallets!Owed(Wallets!Debts), asker[a].amount)
      BY <1>2, <2>3 DEF ChecksStand
    <3> QED
      BY <1>8, <2>1, <2>2, <2>3, <3>1 DEF Wallets!Least
  <2> QED
    BY <1>1, <1>2, <1>6, <2>3 DEF ChecksStand, Wallets!Least, Wallets!Debts
<1> QED
  BY <1>1, <1>2, <1>3, <1>4, <1>6, <1>7, <1>9 DEF WalletsInv, Wallets!NeverOverdrawn

LEMMA CheckKeepsWallets ==
    ASSUME MaxRequests \in Nat, MaxDebts \in Nat, Amounts \subseteq Nat,
           WalletsInv, NEW a \in Askers, Wallets!CheckPayout(a)
    PROVE  WalletsInv'
<1>1. PICK v \in Amounts :
         /\ v + Wallets!PaidOut <= earned
         /\ asker' = [asker EXCEPT ![a] =
                        [amount |-> v, net |-> v - Wallets!Least(Wallets!Owed(Wallets!Debts), v)]]
  BY DEF Wallets!CheckPayout
<1>2. /\ \A b \in Askers : asker[b] = None
      /\ ~ frozen.wallet /\ ~ frozen.payout
      /\ UNCHANGED <<earned, payouts, debts, frozen, suspect, admin>>
  BY DEF Wallets!CheckPayout, Wallets!Unlocked
<1>3. /\ WalletsTyped /\ RowsStartEmpty /\ ChecksStand
      /\ Wallets!NeverOverdrawn /\ Wallets!WithheldIsBooked
  BY DEF WalletsInv
<1>4. PICK owed : owed = Wallets!Owed(Wallets!Debts) /\ owed \in Nat /\ v \in Nat
  BY <1>3, WalletRowsCount
<1>5. PICK r : r = [amount |-> v, net |-> v - Wallets!Least(owed, v)]
  OBVIOUS
<1>6. /\ r \in [amount : Nat, net : Nat] /\ r.amount = v
      /\ r.amount - r.net <= Wallets!Least(owed, r.amount)
  BY <1>4, <1>5 DEF Wallets!Least
<1>7. asker' = [asker EXCEPT ![a] = r]
  BY <1>1, <1>4, <1>5
<1>8. WalletsTyped' /\ RowsStartEmpty'
  BY <1>2, <1>3, <1>6, <1>7 DEF WalletsTyped, RowsStartEmpty
<1>9. Wallets!PaidOut' = Wallets!PaidOut /\ \A ds : Wallets!Owed(ds)' = Wallets!Owed(ds)
  BY <1>2 DEF Wallets!PaidOut, Wallets!Owed, Wallets!Open
<1>10. Wallets!NeverOverdrawn' /\ Wallets!WithheldIsBooked'
  BY <1>2, <1>3 DEF Wallets!NeverOverdrawn, Wallets!WithheldIsBooked, Wallets!PaidOut
<1>11. asker'[a] = r /\ \A b \in Askers \ {a} : asker'[b] = None
  BY <1>2, <1>3, <1>7 DEF WalletsTyped
<1>12. ChecksStand'
  BY <1>1, <1>2, <1>4, <1>6, <1>9, <1>11 DEF ChecksStand, Wallets!Least, Wallets!Debts
<1> QED
  BY <1>8, <1>10, <1>12 DEF WalletsInv

(* The debts after a deduction. *)
LEMMA DeductionKeepsDebts ==
    ASSUME MaxRequests \in Nat, MaxDebts \in Nat, WalletsTyped, RowsStartEmpty,
           Wallets!WithheldIsBooked,
           NEW amount \in Nat, Wallets!applyCommissionDebtDeduction(amount)
    PROVE  /\ debts' \in [Wallets!Debts ->
                             [status : {"none", "pending", "deducted"}, amount : Nat, taken : Nat]]
           /\ SumFunctionOnSet(Collected', Wallets!Debts) =
                 SumFunctionOnSet(Collected, Wallets!Debts)
                    + Wallets!Least(Wallets!Owed(Wallets!Debts), amount)
           /\ \A d \in Wallets!Debts :
                 /\ debts'[d].status = "none" => debts'[d].taken = 0
                 /\ debts'[d].status = "deducted" => debts'[d].taken >= debts'[d].amount
<1>1. PICK f : f = [d \in Wallets!Debts |-> Wallets!TakenFrom(d, amount)]
  OBVIOUS
<1>2. /\ \A d \in Wallets!Debts : f[d] \in Nat
      /\ SumFunctionOnSet(f, Wallets!Debts) = Wallets!Least(Wallets!Owed(Wallets!Debts), amount)
  BY <1>1, DeductionTakes
<1>3. debts' = [d \in Wallets!Debts |->
                  [debts[d] EXCEPT !.taken = @ + f[d],
                                   !.status = IF f[d] > 0 /\ f[d] >= debts[d].amount
                                              THEN "deducted" ELSE @]]
  BY <1>1 DEF Wallets!applyCommissionDebtDeduction
<1>4. \A d \in Wallets!Debts : debts[d].status = "none" => f[d] = 0
  BY <1>1 DEF Wallets!TakenFrom, Wallets!Open
<1>5. ASSUME NEW d \in Wallets!Debts
      PROVE  /\ debts'[d] \in [status : {"none", "pending", "deducted"}, amount : Nat, taken : Nat]
             /\ debts'[d].taken = debts[d].taken + f[d]
             /\ debts'[d].status = "none" => debts'[d].taken = 0
             /\ debts'[d].status = "deducted" => debts'[d].taken >= debts'[d].amount
  <2>1. /\ debts[d] \in [status : {"none", "pending", "deducted"}, amount : Nat, taken : Nat]
        /\ f[d] \in Nat
    BY <1>2 DEF WalletsTyped
  <2>2. /\ debts'[d].amount = debts[d].amount /\ debts'[d].taken = debts[d].taken + f[d]
        /\ debts'[d].status = IF f[d] > 0 /\ f[d] >= debts[d].amount
                              THEN "deducted" ELSE debts[d].status
    BY <1>3, <2>1
  <2>3. debts'[d] \in [status : {"none", "pending", "deducted"}, amount : Nat, taken : Nat]
    <3>1. PICK row, sum, state :
             /\ row = debts[d] /\ sum = debts[d].taken + f[d]
             /\ state = IF f[d] > 0 /\ f[d] >= debts[d].amount THEN "deducted" ELSE debts[d].status
      OBVIOUS
    <3>2. debts'[d] = [row EXCEPT !.taken = sum, !.status = state]
      BY <1>3, <3>1
    <3>3. /\ row \in [status : {"none", "pending", "deducted"}, amount : Nat, taken : Nat]
          /\ sum \in Nat /\ state \in {"none", "pending", "deducted"}
      BY <2>1, <3>1
    <3> QED
      BY <3>2, <3>3
  <2>4. /\ debts[d].status = "deducted" => debts[d].taken >= debts[d].amount
        /\ debts[d].status = "none" => debts[d].taken = 0
    BY WalletSumsUnfold DEF RowsStartEmpty
  <2> QED
    BY <1>4, <2>1, <2>2, <2>3, <2>4
<1>6. debts' \in [Wallets!Debts ->
                   [status : {"none", "pending", "deducted"}, amount : Nat, taken : Nat]]
  <2>1. DOMAIN debts' = Wallets!Debts /\ debts' = [d \in Wallets!Debts |-> debts'[d]]
    BY <1>3
  <2> QED
    BY <1>5, <2>1
<1>7. SumFunctionOnSet(Collected', Wallets!Debts) =
         SumFunctionOnSet(Collected, Wallets!Debts) + SumFunctionOnSet(f, Wallets!Debts)
  <2>1. IsFiniteSet(Wallets!Debts)
    BY WalletRowsCount
  <2>2. \A d \in Wallets!Debts :
           Collected[d] \in Nat /\ f[d] \in Nat /\ Collected'[d] = Collected[d] + f[d]
    BY <1>2, <1>5, WalletRowsCount DEF Collected
  <2> QED
    BY <2>1, <2>2, SumsAdd
<1> QED
  BY <1>2, <1>5, <1>6, <1>7

LEMMA RequestKeepsWallets ==
    ASSUME MaxRequests \in Nat, MaxDebts \in Nat, Amounts \subseteq Nat,
           WalletsInv, NEW a \in Askers, Wallets!requestPayout(a)
    PROVE  WalletsInv'
<1>1. PICK amount, net, owed :
         amount = asker[a].amount /\ net = asker[a].net /\ owed = Wallets!Owed(Wallets!Debts)
  OBVIOUS
<1>2. PICK r : r = [status |-> "requested", amount |-> amount, net |-> net,
                    taken |-> IF net < amount THEN Wallets!Least(owed, amount) ELSE 0]
  OBVIOUS
<1>3. /\ \E p \in Wallets!Payouts :
            payouts[p].status = "none" /\ payouts' = [payouts EXCEPT ![p] = r]
      /\ IF net < amount THEN Wallets!applyCommissionDebtDeduction(amount) ELSE UNCHANGED debts
      /\ asker[a] # None /\ asker' = [asker EXCEPT ![a] = None]
      /\ UNCHANGED <<earned, frozen, suspect, admin>>
  BY <1>1, <1>2 DEF Wallets!requestPayout, Wallets!NextRow
<1>4. PICK p \in Wallets!Payouts :
         payouts[p].status = "none" /\ payouts' = [payouts EXCEPT ![p] = r]
  BY <1>3
<1>5. /\ WalletsTyped /\ RowsStartEmpty /\ ChecksStand
      /\ Wallets!NeverOverdrawn /\ Wallets!WithheldIsBooked
  BY DEF WalletsInv
<1>6. amount \in Nat /\ net \in Nat /\ owed \in Nat
  BY <1>1, <1>3, <1>5, WalletRowsCount DEF WalletsTyped
<1>7. amount + Wallets!PaidOut <= earned /\ amount - net <= Wallets!Least(owed, amount)
  BY <1>1, <1>3, <1>5 DEF ChecksStand
<1>8. /\ r \in [status : {"none", "requested", "processing", "completed"},
                amount : Nat, net : Nat, taken : Nat]
      /\ r.status = "requested" /\ r.amount = amount /\ r.net = net
      /\ r.taken = IF net < amount THEN Wallets!Least(owed, amount) ELSE 0
  BY <1>2, <1>6 DEF Wallets!Least
<1>9. r.amount - r.net <= r.taken
  BY <1>6, <1>7, <1>8
<1>10. /\ Wallets!PaidOut' = r.amount + Wallets!PaidOut
       /\ SumFunctionOnSet(Booked', Wallets!Payouts) =
             r.taken + SumFunctionOnSet(Booked, Wallets!Payouts)
       /\ payouts' \in [Wallets!Payouts ->
                           [status : {"none", "requested", "processing", "completed"},
                            amount : Nat, net : Nat, taken : Nat]]
  BY <1>4, <1>5, <1>8, RecordedRow
<1>11. payouts'[p] = r /\ \A q \in Wallets!Payouts \ {p} : payouts'[q] = payouts[q]
  BY <1>4, <1>5 DEF WalletsTyped
<1>12. /\ debts' \in [Wallets!Debts ->
                         [status : {"none", "pending", "deducted"}, amount : Nat, taken : Nat]]
       /\ SumFunctionOnSet(Collected', Wallets!Debts) =
             SumFunctionOnSet(Collected, Wallets!Debts) + r.taken
       /\ \A d \in Wallets!Debts :
             /\ debts'[d].status = "none" => debts'[d].taken = 0
             /\ debts'[d].status = "deducted" => debts'[d].taken >= debts'[d].amount
  <2>1. CASE net < amount
    BY <1>1, <1>3, <1>5, <1>6, <1>8, <2>1, DeductionKeepsDebts
  <2>2. CASE ~ (net < amount)
    <3>1. debts' = debts /\ r.taken = 0
      BY <1>3, <1>8, <2>2
    <3>2. Collected' = Collected /\ SumFunctionOnSet(Collected, Wallets!Debts) \in Nat
      BY <1>5, <3>1, WalletRowsCount DEF Collected
    <3> QED
      BY <1>5, <3>1, <3>2, WalletSumsUnfold DEF WalletsTyped, RowsStartEmpty
  <2> QED
    BY <2>1, <2>2
<1>13. SumFunctionOnSet(Booked', Wallets!Payouts) = SumFunctionOnSet(Collected', Wallets!Debts)
  <2>1. /\ SumFunctionOnSet(Booked, Wallets!Payouts) = SumFunctionOnSet(Collected, Wallets!Debts)
        /\ SumFunctionOnSet(Collected, Wallets!Debts) \in Nat /\ r.taken \in Nat
    BY <1>5, <1>8, WalletRowsCount, WalletSumsUnfold
  <2> QED
    BY <1>10, <1>12, <2>1
<1>14. \A q \in Wallets!Payouts : payouts'[q].amount - payouts'[q].net <= payouts'[q].taken
  BY <1>5, <1>9, <1>11, WalletSumsUnfold
<1>15. Wallets!WithheldIsBooked'
  BY <1>12, <1>13, <1>14, WalletSumsUnfold
<1>16. WalletsTyped'
  BY <1>3, <1>5, <1>10, <1>12 DEF WalletsTyped
<1>17. RowsStartEmpty'
  BY <1>5, <1>8, <1>11, <1>12 DEF RowsStartEmpty
<1>18. \A b \in Askers : asker'[b] = None
  BY <1>3, <1>5 DEF WalletsTyped, ChecksStand
<1>19. ChecksStand'
  BY <1>18 DEF ChecksStand
<1>20. Wallets!NeverOverdrawn'
  BY <1>3, <1>7, <1>8, <1>10 DEF Wallets!NeverOverdrawn
<1> QED
  BY <1>15, <1>16, <1>17, <1>19, <1>20 DEF WalletsInv

LEMMA CompletionKeepsWallets ==
    ASSUME MaxRequests \in Nat, MaxDebts \in Nat, WalletsInv, Wallets!completePayout
    PROVE  WalletsInv'
<1>1. PICK p \in Wallets!Payouts :
         /\ payouts[p].status \in {"requested", "processing"}
         /\ payouts' = [payouts EXCEPT ![p].status = "completed"]
         /\ UNCHANGED <<earned, debts, frozen, suspect, asker, admin>>
  BY DEF Wallets!completePayout
<1>2. /\ WalletsTyped /\ RowsStartEmpty /\ ChecksStand
      /\ Wallets!NeverOverdrawn /\ Wallets!WithheldIsBooked
  BY DEF WalletsInv
<1>3. WalletsTyped' /\ RowsStartEmpty'
  BY <1>1, <1>2 DEF WalletsTyped, RowsStartEmpty
<1>4. Amount' = Amount /\ Booked' = Booked /\ Collected' = Collected
  BY <1>1, <1>2 DEF Amount, Booked, Collected, WalletsTyped
<1>5. Wallets!PaidOut' = Wallets!PaidOut /\ \A ds : Wallets!Owed(ds)' = Wallets!Owed(ds)
  BY <1>1, <1>4, WalletSumsUnfold DEF Wallets!Owed, Wallets!Open
<1>6. \A q \in Wallets!Payouts : /\ payouts'[q].amount = payouts[q].amount
                                 /\ payouts'[q].net = payouts[q].net
                                 /\ payouts'[q].taken = payouts[q].taken
  BY <1>1, <1>2 DEF WalletsTyped
<1>7. Wallets!WithheldIsBooked'
  BY <1>1, <1>2, <1>4, <1>6, WalletSumsUnfold
<1>8. ChecksStand' /\ Wallets!NeverOverdrawn'
  BY <1>1, <1>2, <1>5 DEF ChecksStand, Wallets!NeverOverdrawn, Wallets!Least, Wallets!Debts
<1> QED
  BY <1>3, <1>7, <1>8 DEF WalletsInv

(* The freeze and what else decides on it. *)
LEMMA FreezeKeepsWallets ==
    ASSUME WalletsInv,
           \/ Wallets!Suspect
           \/ \E a \in Admins : Wallets!ReadFreeze(a) \/ Wallets!setFundiFinancialFreeze(a)
    PROVE  WalletsInv'
<1>1. /\ WalletsTyped /\ RowsStartEmpty /\ ChecksStand
      /\ Wallets!NeverOverdrawn /\ Wallets!WithheldIsBooked
  BY DEF WalletsInv
<1>2. UNCHANGED <<earned, payouts, debts, asker>>
  BY DEF Wallets!Suspect, Wallets!ReadFreeze, Wallets!setFundiFinancialFreeze
<1>3. /\ UNCHANGED frozen \/ \A a \in Askers : asker[a] = None
      /\ frozen' \in [wallet : BOOLEAN, payout : BOOLEAN]
      /\ admin' \in [Admins -> [wallet : BOOLEAN, payout : BOOLEAN] \cup {None}]
  <2>1. CASE Wallets!Suspect
    BY <1>1, <2>1 DEF Wallets!Suspect, WalletsTyped
  <2>2. ASSUME NEW a \in Admins, Wallets!ReadFreeze(a)
        PROVE  /\ UNCHANGED frozen
               /\ admin' \in [Admins -> [wallet : BOOLEAN, payout : BOOLEAN] \cup {None}]
    <3>1. PICK flag \in {"wallet", "payout"}, value \in BOOLEAN :
             admin' = [admin EXCEPT ![a] = [frozen EXCEPT ![flag] = value]]
      BY <2>2 DEF Wallets!ReadFreeze
    <3>2. [frozen EXCEPT ![flag] = value] \in [wallet : BOOLEAN, payout : BOOLEAN]
      BY <1>1, <3>1 DEF WalletsTyped
    <3> QED
      BY <1>1, <2>2, <3>1, <3>2 DEF WalletsTyped, Wallets!ReadFreeze
  <2>3. ASSUME NEW a \in Admins, Wallets!setFundiFinancialFreeze(a)
        PROVE  /\ \A b \in Askers : asker[b] = None
               /\ frozen' \in [wallet : BOOLEAN, payout : BOOLEAN]
               /\ admin' \in [Admins -> [wallet : BOOLEAN, payout : BOOLEAN] \cup {None}]
    BY <1>1, <2>3 DEF WalletsTyped, Wallets!setFundiFinancialFreeze, Wallets!Unlocked
  <2> QED
    BY <1>1, <2>1, <2>2, <2>3 DEF WalletsTyped
<1>4. WalletsTyped' /\ RowsStartEmpty'
  BY <1>1, <1>2, <1>3 DEF WalletsTyped, RowsStartEmpty
<1>5. Wallets!PaidOut' = Wallets!PaidOut /\ \A ds : Wallets!Owed(ds)' = Wallets!Owed(ds)
  BY <1>2 DEF Wallets!PaidOut, Wallets!Owed, Wallets!Open
<1>6. Wallets!NeverOverdrawn' /\ Wallets!WithheldIsBooked'
  BY <1>1, <1>2 DEF Wallets!NeverOverdrawn, Wallets!WithheldIsBooked, Wallets!PaidOut
<1>7. ChecksStand'
  BY <1>1, <1>2, <1>3, <1>5 DEF ChecksStand, Wallets!Least, Wallets!Debts
<1> QED
  BY <1>4, <1>6, <1>7 DEF WalletsInv

LEMMA NextWallets ==
    ASSUME MaxRequests \in Nat, MaxDebts \in Nat, Amounts \subseteq Nat,
           WalletsInv, [Wallets!Next]_(Wallets!vars)
    PROVE  WalletsInv'
<1>1. CASE Wallets!releaseJobEscrow
  BY <1>1, ReleaseKeepsWallets
<1>2. CASE Wallets!flagSuspiciousCommission
  BY <1>2, DebtKeepsWallets
<1>3. CASE Wallets!completePayout
  BY <1>3, CompletionKeepsWallets
<1>4. ASSUME NEW a \in Askers, Wallets!CheckPayout(a) PROVE WalletsInv'
  BY <1>4, CheckKeepsWallets
<1>5. ASSUME NEW a \in Askers, Wallets!requestPayout(a) PROVE WalletsInv'
  BY <1>5, RequestKeepsWallets
<1>6. CASE \/ Wallets!Suspect
           \/ \E a \in Admins : Wallets!ReadFreeze(a) \/ Wallets!setFundiFinancialFreeze(a)
  BY <1>6, FreezeKeepsWallets
<1>7. CASE UNCHANGED Wallets!vars
  BY <1>7 DEF Wallets!vars, WalletsInv, WalletsTyped, RowsStartEmpty, ChecksStand,
              Wallets!NeverOverdrawn, Wallets!WithheldIsBooked, Wallets!PaidOut,
              Wallets!Owed, Wallets!Open
<1> QED
  BY <1>1, <1>2, <1>3, <1>4, <1>5, <1>6, <1>7 DEF Wallets!Next

LEMMA FrozenStepsAskNothing ==
    ASSUME WalletsInv, [Wallets!Next]_(Wallets!vars)
    PROVE  Wallets!FrozenAsksNothing
<1> SUFFICES ASSUME frozen.wallet \/ frozen.payout, NEW p \in Wallets!Payouts,
                    payouts'[p].status = "requested"
             PROVE  payouts[p].status = "requested"
  BY DEF Wallets!FrozenAsksNothing
<1>1. payouts \in [Wallets!Payouts ->
                     [status : {"none", "requested", "processing", "completed"},
                      amount : Nat, net : Nat, taken : Nat]]
  BY DEF WalletsInv, WalletsTyped
<1>2. CASE Wallets!releaseJobEscrow
  BY <1>1, <1>2 DEF Wallets!releaseJobEscrow
<1>3. CASE Wallets!completePayout
  BY <1>1, <1>3 DEF Wallets!completePayout
<1>4. ASSUME NEW a \in Askers, Wallets!requestPayout(a) PROVE FALSE
  BY <1>4 DEF Wallets!requestPayout, WalletsInv, ChecksStand
<1>5. CASE UNCHANGED payouts
  BY <1>5
<1> QED
  BY <1>2, <1>3, <1>4, <1>5
  DEF Wallets!Next, Wallets!vars, Wallets!flagSuspiciousCommission, Wallets!Suspect,
      Wallets!CheckPayout, Wallets!ReadFreeze, Wallets!setFundiFinancialFreeze

(* Requests at the same time, and releases in between, never get a fundi    *)
(* more than was released to them (payoutController.js:44-46).              *)
THEOREM PayoutsAreEarned ==
    ASSUME MaxRequests \in Nat, MaxDebts \in Nat, Amounts \subseteq Nat
    PROVE  Wallets!Spec => []Wallets!NeverOverdrawn
<1>1. Wallets!Init => WalletsInv
  BY InitWallets
<1>2. WalletsInv /\ [Wallets!Next]_(Wallets!vars) => WalletsInv'
  BY NextWallets
<1>3. WalletsInv => Wallets!NeverOverdrawn
  BY DEF WalletsInv
<1> QED
  BY <1>1, <1>2, <1>3, PTL DEF Wallets!Spec

(* What payouts withhold is taken from debts, once, and no debt is written  *)
(* off that was not paid (fraudService.js:311-351).                         *)
THEOREM WithholdingIsBooked ==
    ASSUME MaxRequests \in Nat, MaxDebts \in Nat, Amounts \subseteq Nat
    PROVE  Wallets!Spec => []Wallets!WithheldIsBooked
<1>1. Wallets!Init => WalletsInv
  BY InitWallets
<1>2. WalletsInv /\ [Wallets!Next]_(Wallets!vars) => WalletsInv'
  BY NextWallets
<1>3. WalletsInv => Wallets!WithheldIsBooked
  BY DEF WalletsInv
<1> QED
  BY <1>1, <1>2, <1>3, PTL DEF Wallets!Spec

(* While money is frozen no payout that the fundi asks for is recorded, not *)
(* even one whose checks came before the freeze (payoutController.js:78).   *)
THEOREM FreezeHoldsPayouts ==
    ASSUME MaxRequests \in Nat, MaxDebts \in Nat, Amounts \subseteq Nat
    PROVE  Wallets!Spec => Wallets!NoPayoutWhileFrozen
<1>1. Wallets!Init => WalletsInv
  BY InitWallets
<1>2. WalletsInv /\ [Wallets!Next]_(Wallets!vars) => WalletsInv'
  BY NextWallets
<1>3. WalletsInv /\ [Wallets!Next]_(Wallets!vars) => Wallets!FrozenAsksNothing
  BY FrozenStepsAskNothing
<1> QED
  BY <1>1, <1>2, <1>3, PTL DEF Wallets!Spec, Wallets!NoPayoutWhileFrozen
=============================================================================
