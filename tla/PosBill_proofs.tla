--------------------------- MODULE PosBill_proofs ---------------------------
(***************************************************************************)
(* What PosBill promises for any bills, totals and checks: that the checks  *)
(* of a bill share exactly its total, that money taken is on record, that   *)
(* settlements in cash are covered by cash, that nothing settled is ever    *)
(* taken off a bill, and that a payment group settles all of its members or *)
(* none.  What the checks hold is a sum over them: the module begins with   *)
(* sums over finite sets, and what each operation on checks does to them.   *)
(***************************************************************************)
EXTENDS PosBill, FiniteSetTheorems, WellFoundedInduction, TLAPS

-----------------------------------------------------------------------------
(* Sums over finite sets (SumFunctionOnSet of the community module Functions): *)
(* the facts that the sums over a bill's checks are reasoned about with.       *)

\* The element that a sum starts with.
Pick(s) == CHOOSE x \in s : TRUE

\* g holds the sum of f over every subset of S.
SumTable(f, S, g) ==
    g = [s \in SUBSET S |-> IF s = {} THEN 0 ELSE f[Pick(s)] + g[s \ {Pick(s)}]]

(* The sum of f over S is what the table of the sums of f over all subsets of  *)
(* S holds for S.                                                              *)
LEMMA SumIsTable ==
    ASSUME NEW f, NEW S
    PROVE  SumFunctionOnSet(f, S) = (CHOOSE g : SumTable(f, S, g))[S]
  BY DEF SumFunctionOnSet, FoldFunctionOnSet, MapThenFoldSet, SumTable, Pick

(* Among subsets of a finite set there is one that contains no other: what      *)
(* stands for an induction here is the smallest set of which a claim is false.  *)
LEMMA SmallestSet ==
    ASSUME NEW S, IsFiniteSet(S), NEW C \in SUBSET (SUBSET S), C # {}
    PROVE  \E T \in C : \A U \in SUBSET T : U # T => U \notin C
<1>1. C \subseteq FiniteSubsetsOf(S)
  BY FS_Subset DEF FiniteSubsetsOf
<1>2. PICK T \in C : \A U \in C : ~(<<U, T>> \in StrictSubsetOrdering(S))
  BY <1>1, FS_StrictSubsetOrderingWellFounded, WFMin
<1>3. ASSUME NEW U \in SUBSET T, U # T, U \in C PROVE FALSE
  <2>1. <<U, T>> \in StrictSubsetOrdering(S)
    BY <1>3 DEF StrictSubsetOrdering
  <2> QED
    BY <1>2, <1>3, <2>1
<1> QED
  BY <1>2, <1>3

(* Pick takes an element of the set.                                           *)
LEMMA PickIn == ASSUME NEW s, s # {} PROVE Pick(s) \in s
  BY DEF Pick

(* Tables for different sets agree on the sets that both know.                 *)
LEMMA TablesAgree ==
    ASSUME NEW f, NEW e, NEW S, NEW T, NEW g, NEW h,
           SumTable(f, S, g), SumTable(e, T, h),
           NEW U, IsFiniteSet(U), U \subseteq S, U \subseteq T,
           \A x \in U : f[x] = e[x]
    PROVE  g[U] = h[U]
<1> DEFINE Bad == {V \in SUBSET U : g[V] # h[V]}
<1> SUFFICES ASSUME Bad # {} PROVE FALSE
  OBVIOUS
<1>1. PICK V \in Bad : \A W \in SUBSET V : W # V => W \notin Bad
  <2> HIDE DEF Bad
  <2>1. Bad \in SUBSET (SUBSET U)
    BY DEF Bad
  <2> QED
    BY <2>1, SmallestSet
<1>2. V # {}
  BY <1>1 DEF SumTable
<1>3. Pick(V) \in V
  BY <1>2, PickIn
<1>4. g[V \ {Pick(V)}] = h[V \ {Pick(V)}]
  BY <1>1, <1>3
<1>5. g[V] = f[Pick(V)] + g[V \ {Pick(V)}] /\ h[V] = e[Pick(V)] + h[V \ {Pick(V)}]
  BY <1>1, <1>2 DEF SumTable
<1> QED
  BY <1>1, <1>3, <1>4, <1>5

(* There is a table for every finite set.                                      *)
LEMMA TableExists ==
    ASSUME NEW f, NEW S, IsFiniteSet(S)
    PROVE  \E g : SumTable(f, S, g)
<1> DEFINE Bad == {T \in SUBSET S : ~\E g : SumTable(f, T, g)}
<1> SUFFICES ASSUME Bad # {} PROVE FALSE
  OBVIOUS
<1>1. PICK T \in Bad : \A U \in SUBSET T : U # T => U \notin Bad
  <2> HIDE DEF Bad
  <2>1. Bad \in SUBSET (SUBSET S)
    BY DEF Bad
  <2> QED
    BY <2>1, SmallestSet
<1>2. \A U \in SUBSET T : U # T => SumTable(f, U, CHOOSE g : SumTable(f, U, g))
  BY <1>1
<1> DEFINE Table(U) == CHOOSE g : SumTable(f, U, g)
           h == [s \in SUBSET T |-> IF s = {} THEN 0
                   ELSE f[Pick(s)] + Table(s \ {Pick(s)})[s \ {Pick(s)}]]
<1>3. ASSUME NEW U \in SUBSET T, U # T PROVE h[U] = Table(U)[U]
  <2>1. SumTable(f, U, Table(U))
    BY <1>2, <1>3
  <2>2. CASE U = {}
    BY <2>1, <2>2 DEF SumTable
  <2>3. CASE U # {}
    <3> DEFINE W == U \ {Pick(U)}
    <3>1. W \in SUBSET U /\ W \in SUBSET T /\ W # T
      BY <1>3
    <3>2. Table(U)[U] = f[Pick(U)] + Table(U)[W]
      BY <2>1, <2>3 DEF SumTable
    <3>3. SumTable(f, W, Table(W))
      BY <1>2, <3>1
    <3>4. IsFiniteSet(W)
      BY <1>1, <3>1, FS_Subset
    <3>5. Table(U)[W] = Table(W)[W]
      <4> HIDE DEF Table, W
      <4> QED
        BY <2>1, <3>1, <3>3, <3>4, TablesAgree
    <3>6. h[U] = f[Pick(U)] + Table(W)[W]
      BY <2>3
    <3> QED
      BY <3>2, <3>5, <3>6
  <2> QED
    BY <2>2, <2>3
<1>4. \A s \in SUBSET T : s # {} => 
         h[s] = f[Pick(s)] + h[s \ {Pick(s)}]
  <2> SUFFICES ASSUME NEW s \in SUBSET T, s # {} PROVE h[s] = f[Pick(s)] + h[s \ {Pick(s)}]
    OBVIOUS
  <2>1. s \ {Pick(s)} \in SUBSET T /\ s \ {Pick(s)} # T
    BY PickIn
  <2>2. h[s] = f[Pick(s)] + Table(s \ {Pick(s)})[s \ {Pick(s)}]
    OBVIOUS
  <2> HIDE DEF h, Table
  <2> QED
    BY <1>3, <2>1, <2>2
<1>5. h[{}] = 0 /\ h = [s \in SUBSET T |-> h[s]]
  OBVIOUS
<1>6. SumTable(f, T, h)
  <2> HIDE DEF h
  <2> QED 
    BY <1>4, <1>5 DEF SumTable
<1> QED
  BY <1>1, <1>6

(* The empty sum.                                                              *)
LEMMA SumEmpty == ASSUME NEW f PROVE SumFunctionOnSet(f, {}) = 0
<1>1. SumTable(f, {}, CHOOSE g : SumTable(f, {}, g))
  BY TableExists, FS_EmptySet
<1> QED
  BY <1>1, SumIsTable DEF SumTable

(* A sum depends on the summands only.                                         *)
LEMMA SumAgrees ==
    ASSUME NEW f, NEW e, NEW S, IsFiniteSet(S), \A x \in S : f[x] = e[x]
    PROVE  SumFunctionOnSet(f, S) = SumFunctionOnSet(e, S)
<1> DEFINE g == CHOOSE g : SumTable(f, S, g)
           h == CHOOSE h : SumTable(e, S, h)
<1>1. SumTable(f, S, g) /\ SumTable(e, S, h)
  BY TableExists
<1>2. g[S] = h[S]
  <2> HIDE DEF g, h
  <2> QED
    BY <1>1, TablesAgree
<1> QED
  BY <1>2, SumIsTable

(* What the recursion of the table says of the sum.                            *)
LEMMA SumPick ==
    ASSUME NEW f, NEW S, IsFiniteSet(S), S # {}
    PROVE  SumFunctionOnSet(f, S) = f[Pick(S)] + SumFunctionOnSet(f, S \ {Pick(S)})
<1> DEFINE R == S \ {Pick(S)}
           g == CHOOSE g : SumTable(f, S, g)
           h == CHOOSE h : SumTable(f, R, h)
<1>1. IsFiniteSet(R)
  BY FS_Subset
<1>2. SumTable(f, S, g) /\ SumTable(f, R, h)
  BY <1>1, TableExists
<1>3. g[S] = f[Pick(S)] + g[R]
  BY <1>2 DEF SumTable
<1>4. g[R] = h[R]
  <2>1. R \subseteq S /\ R \subseteq R
    OBVIOUS
  <2> HIDE DEF g, h, R
  <2> QED
    BY <1>1, <1>2, <2>1, TablesAgree
<1>5. SumFunctionOnSet(f, S) = g[S] /\ SumFunctionOnSet(f, R) = h[R]
  BY SumIsTable
<1> QED
  BY <1>3, <1>4, <1>5

(* Sums of integers are integers, and of naturals naturals.                    *)
LEMMA SumInt ==
    ASSUME NEW f, NEW S, IsFiniteSet(S), \A x \in S : f[x] \in Int
    PROVE  /\ SumFunctionOnSet(f, S) \in Int
           /\ (\A x \in S : f[x] \in Nat) => SumFunctionOnSet(f, S) \in Nat
<1> DEFINE OK(T) == /\ SumFunctionOnSet(f, T) \in Int
                    /\ (\A x \in S : f[x] \in Nat) => SumFunctionOnSet(f, T) \in Nat
           Bad == {T \in SUBSET S : ~OK(T)}
<1> SUFFICES ASSUME Bad # {} PROVE FALSE
  OBVIOUS
<1>1. PICK T \in Bad : \A U \in SUBSET T : U # T => U \notin Bad
  <2> HIDE DEF Bad
  <2>1. Bad \in SUBSET (SUBSET S)
    BY DEF Bad
  <2> QED
    BY <2>1, SmallestSet
<1>2. T # {}
  <2>1. SumFunctionOnSet(f, {}) = 0
    BY SumEmpty
  <2>2. OK({})
    BY <2>1
  <2> QED
    BY <1>1, <2>2
<1>3. Pick(T) \in T /\ OK(T \ {Pick(T)})
  BY <1>1, <1>2, PickIn
<1>4. SumFunctionOnSet(f, T) = f[Pick(T)] + SumFunctionOnSet(f, T \ {Pick(T)})
  BY <1>1, <1>2, FS_Subset, SumPick
<1> QED
  BY <1>1, <1>3, <1>4

(* Any element may be summed first.                                            *)
LEMMA SumRemove ==
    ASSUME NEW f, NEW S, IsFiniteSet(S), \A y \in S : f[y] \in Int, NEW x \in S
    PROVE  SumFunctionOnSet(f, S) = f[x] + SumFunctionOnSet(f, S \ {x})
<1> DEFINE Bad == {T \in SUBSET S : \E y \in T :
                      SumFunctionOnSet(f, T) # f[y] + SumFunctionOnSet(f, T \ {y})}
<1> SUFFICES ASSUME Bad # {} PROVE FALSE
  OBVIOUS
<1>1. PICK T \in Bad : \A U \in SUBSET T : U # T => U \notin Bad
  <2> HIDE DEF Bad
  <2>1. Bad \in SUBSET (SUBSET S)
    BY DEF Bad
  <2> QED
    BY <2>1, SmallestSet
<1>2. PICK y \in T : SumFunctionOnSet(f, T) # f[y] + SumFunctionOnSet(f, T \ {y})
  BY <1>1
<1> DEFINE p == Pick(T)
<1>3. p \in T /\ IsFiniteSet(T) /\ T # {}
  BY <1>1, <1>2, PickIn, FS_Subset
<1>4. SumFunctionOnSet(f, T) = f[p] + SumFunctionOnSet(f, T \ {p})
  BY <1>3, SumPick
<1>5. y # p
  BY <1>2, <1>4
<1>6. SumFunctionOnSet(f, T \ {p}) = f[y] + SumFunctionOnSet(f, (T \ {p}) \ {y})
  <2>1. T \ {p} \in SUBSET T /\ T \ {p} # T /\ T \ {p} \in SUBSET S /\ y \in T \ {p}
    BY <1>3, <1>5
  <2> QED
    BY <1>1, <2>1
<1>7. SumFunctionOnSet(f, T \ {y}) = f[p] + SumFunctionOnSet(f, (T \ {y}) \ {p})
  <2>1. T \ {y} \in SUBSET T /\ T \ {y} # T /\ T \ {y} \in SUBSET S /\ p \in T \ {y}
    BY <1>3, <1>5
  <2> QED
    BY <1>1, <2>1
<1> DEFINE rest == SumFunctionOnSet(f, (T \ {p}) \ {y})
<1>8. SumFunctionOnSet(f, T \ {y}) = f[p] + rest /\ SumFunctionOnSet(f, T \ {p}) = f[y] + rest
  <2>1. (T \ {y}) \ {p} = (T \ {p}) \ {y}
    OBVIOUS
  <2> QED
    BY <1>6, <1>7, <2>1
<1>9. /\ rest \in Int /\ f[p] \in Int /\ f[y] \in Int
  <2>1. (T \ {p}) \ {y} \in SUBSET S
    OBVIOUS
  <2>2. IsFiniteSet((T \ {p}) \ {y})
    BY <2>1, FS_Subset
  <2> QED
    BY <1>3, <2>1, <2>2, SumInt
<1> HIDE DEF rest
<1> QED
  BY <1>2, <1>4, <1>8, <1>9

(* A sum over more: what it was, and the sum over what is new.                 *)
LEMMA SumExtend ==
    ASSUME NEW f, NEW e, NEW S, NEW T, IsFiniteSet(S), IsFiniteSet(T), S \cap T = {},
           \A x \in S : e[x] = f[x] /\ f[x] \in Int, \A x \in T : e[x] \in Int
    PROVE  SumFunctionOnSet(e, S \cup T) = SumFunctionOnSet(f, S) + SumFunctionOnSet(e, T)
<1> DEFINE Bad == {U \in SUBSET T : SumFunctionOnSet(e, S \cup U)
                                      # SumFunctionOnSet(f, S) + SumFunctionOnSet(e, U)}
<1> SUFFICES ASSUME Bad # {} PROVE FALSE
  OBVIOUS
<1>1. PICK U \in Bad : \A V \in SUBSET U : V # U => V \notin Bad
  <2> HIDE DEF Bad
  <2>1. Bad \in SUBSET (SUBSET T)
    BY DEF Bad
  <2> QED
    BY <2>1, SmallestSet
<1>2. SumFunctionOnSet(f, S) = SumFunctionOnSet(e, S) /\ SumFunctionOnSet(f, S) \in Int
  BY SumAgrees, SumInt
<1>3. U # {}
  <2>1. SumFunctionOnSet(e, {}) = 0 /\ S \cup {} = S
    BY SumEmpty
  <2>2. {} \notin Bad
    BY <1>2, <2>1
  <2> QED
    BY <1>1, <2>2
<1>4. PICK x \in U : TRUE
  BY <1>3
<1> DEFINE V == U \ {x}
           a == SumFunctionOnSet(f, S)
           u == SumFunctionOnSet(e, V)
<1>5. SumFunctionOnSet(e, S \cup V) = a + u
  <2>1. V \in SUBSET U /\ V # U /\ V \in SUBSET T
    OBVIOUS
  <2> QED
    BY <1>1, <2>1
<1>6. IsFiniteSet(U) /\ IsFiniteSet(V) /\ IsFiniteSet(S \cup U)
  BY FS_Subset, FS_Union
<1>7. SumFunctionOnSet(e, U) = e[x] + u
  BY <1>6, SumRemove
<1>8. SumFunctionOnSet(e, S \cup U) = e[x] + SumFunctionOnSet(e, S \cup V)
  <2>1. (S \cup U) \ {x} = S \cup V /\ x \in S \cup U
    OBVIOUS
  <2>2. \A y \in S \cup U : e[y] \in Int
    OBVIOUS
  <2> QED
    BY <1>6, <2>1, <2>2, SumRemove
<1>9. u \in Int /\ e[x] \in Int
  BY <1>6, SumInt
<1>10. SumFunctionOnSet(e, S \cup U) # a + SumFunctionOnSet(e, U)
  BY <1>1
<1> HIDE DEF a, u
<1> QED
  BY <1>2, <1>5, <1>7, <1>8, <1>9, <1>10 DEF a

(* A sum of which one summand changes.                                         *)
LEMMA SumReplace ==
    ASSUME NEW f, NEW e, NEW S, IsFiniteSet(S), NEW x \in S,
           \A y \in S : f[y] \in Int, \A y \in S \ {x} : e[y] = f[y], e[x] \in Int
    PROVE  SumFunctionOnSet(e, S) = (SumFunctionOnSet(f, S) - f[x]) + e[x]
<1>1. IsFiniteSet(S \ {x})
  BY FS_Subset
<1>2. SumFunctionOnSet(f, S) = f[x] + SumFunctionOnSet(f, S \ {x})
  BY SumRemove
<1>3. SumFunctionOnSet(e, S) = e[x] + SumFunctionOnSet(e, S \ {x})
  BY SumRemove
<1>4. SumFunctionOnSet(e, S \ {x}) = SumFunctionOnSet(f, S \ {x})
  BY <1>1, SumAgrees
<1>5. SumFunctionOnSet(f, S \ {x}) \in Int
  BY <1>1, SumInt
<1> QED
  BY <1>2, <1>3, <1>4, <1>5

(* The sum of one summand.                                                     *)
LEMMA SumSingle ==
    ASSUME NEW f, NEW x, f[x] \in Int
    PROVE  SumFunctionOnSet(f, {x}) = f[x]
<1>1. IsFiniteSet({x}) /\ {x} \ {x} = {}
  BY FS_Singleton
<1> QED
  BY <1>1, SumRemove, SumEmpty

(* The sum of equal summands.                                                  *)
LEMMA SumConstant ==
    ASSUME NEW f, NEW S, IsFiniteSet(S), NEW c \in Nat, \A x \in S : f[x] = c
    PROVE  SumFunctionOnSet(f, S) = c * Cardinality(S)
<1> DEFINE Bad == {T \in SUBSET S : SumFunctionOnSet(f, T) # c * Cardinality(T)}
<1> SUFFICES ASSUME Bad # {} PROVE FALSE
  OBVIOUS
<1>1. PICK T \in Bad : \A U \in SUBSET T : U # T => U \notin Bad
  <2> HIDE DEF Bad
  <2>1. Bad \in SUBSET (SUBSET S)
    BY DEF Bad
  <2> QED
    BY <2>1, SmallestSet
<1>2. T # {}
  <2>1. SumFunctionOnSet(f, {}) = 0 /\ Cardinality({}) = 0
    BY SumEmpty, FS_EmptySet
  <2>2. c * 0 = 0
    OBVIOUS
  <2>3. {} \notin Bad
    BY <2>1, <2>2
  <2> QED
    BY <1>1, <2>3
<1>3. PICK x \in T : TRUE
  BY <1>2
<1> DEFINE U == T \ {x}
           k == Cardinality(U)
<1>4. U \in SUBSET T /\ U # T /\ U \in SUBSET S
  OBVIOUS
<1>5. IsFiniteSet(T) /\ IsFiniteSet(U) /\ k \in Nat /\ Cardinality(T) = k + 1
  <2>1. IsFiniteSet(T) /\ T \in SUBSET S
    BY FS_Subset
  <2>2. IsFiniteSet(U) /\ Cardinality(U) = Cardinality(T) - 1
    BY <2>1, FS_RemoveElement
  <2>3. Cardinality(U) \in Nat /\ Cardinality(T) \in Nat
    BY <2>1, <2>2, FS_CardinalityType
  <2> QED
    BY <2>1, <2>2, <2>3
<1>6. SumFunctionOnSet(f, T) = c + SumFunctionOnSet(f, U)
  BY <1>5, SumRemove
<1>7. SumFunctionOnSet(f, U) = c * k
  BY <1>1, <1>4
<1>8. SumFunctionOnSet(f, T) # c * (k + 1)
  BY <1>1, <1>5
<1>9. c * (k + 1) = c + c * k
  <2> HIDE DEF k
  <2> QED 
    BY <1>5
<1> QED
  BY <1>6, <1>7, <1>8, <1>9

(* No natural summand exceeds the sum.                                         *)
LEMMA SumBounds ==
    ASSUME NEW f, NEW S, IsFiniteSet(S), \A y \in S : f[y] \in Nat, NEW x \in S
    PROVE  f[x] <= SumFunctionOnSet(f, S)
<1>1. IsFiniteSet(S \ {x}) /\ SumFunctionOnSet(f, S \ {x}) \in Nat
  BY FS_Subset, SumInt
<1>2. SumFunctionOnSet(f, S) = f[x] + SumFunctionOnSet(f, S \ {x})
  BY SumRemove
<1> QED
  BY <1>1, <1>2

-----------------------------------------------------------------------------
(* Checks, without regard to the bill they are of. *)

IsChecks(cs) ==
    /\ IsFiniteSet(DOMAIN cs)
    /\ DOMAIN cs \subseteq Nat
    /\ cs \in [DOMAIN cs -> Check]

Paid(cs) == [n \in DOMAIN cs |-> cs[n].paid]
Allocated(cs) == [n \in DOMAIN cs |-> cs[n].alloc]

\* What ChecksShareTheBill says of the checks of one bill.
Shares(cs, t) ==
    /\ AllocatedOf(cs) = t
    /\ \A n \in DOMAIN cs :
        /\ cs[n].paid <= cs[n].alloc
        /\ cs[n].status = "paid" <=> cs[n].paid = cs[n].alloc

(* findOrderPaidAmount and the shares of the checks as sums of functions.      *)
LEMMA PaidIsSum ==
    ASSUME NEW cs
    PROVE  PaidOf(cs) = SumFunctionOnSet(Paid(cs), DOMAIN cs)
<1> DEFINE Table(g) == g = [s \in SUBSET DOMAIN cs |->
              IF s = {} THEN 0 ELSE cs[Pick(s)].paid + g[s \ {Pick(s)}]]
<1>1. PaidOf(cs) = (CHOOSE g : Table(g))[DOMAIN cs]
  BY DEF PaidOf, MapThenSumSet, MapThenFoldSet, Pick
<1>2. ASSUME NEW g PROVE Table(g) <=> SumTable(Paid(cs), DOMAIN cs, g)
  <2>1. \A s \in SUBSET DOMAIN cs : s # {} => Paid(cs)[Pick(s)] = cs[Pick(s)].paid
    BY PickIn DEF Paid
  <2> QED
    BY <2>1 DEF SumTable
<1>3. (CHOOSE g : Table(g)) = (CHOOSE g : SumTable(Paid(cs), DOMAIN cs, g))
  BY <1>2
<1> QED
  BY <1>1, <1>3, SumIsTable

(* The shares of the checks likewise.                                          *)
LEMMA AllocatedIsSum ==
    ASSUME NEW cs
    PROVE  AllocatedOf(cs) = SumFunctionOnSet(Allocated(cs), DOMAIN cs)
<1> DEFINE Table(g) == g = [s \in SUBSET DOMAIN cs |->
              IF s = {} THEN 0 ELSE cs[Pick(s)].alloc + g[s \ {Pick(s)}]]
<1>1. AllocatedOf(cs) = (CHOOSE g : Table(g))[DOMAIN cs]
  BY DEF AllocatedOf, MapThenSumSet, MapThenFoldSet, Pick
<1>2. ASSUME NEW g PROVE Table(g) <=> SumTable(Allocated(cs), DOMAIN cs, g)
  <2>1. \A s \in SUBSET DOMAIN cs : s # {} => Allocated(cs)[Pick(s)] = cs[Pick(s)].alloc
    BY PickIn DEF Allocated
  <2> QED
    BY <2>1 DEF SumTable
<1>3. (CHOOSE g : Table(g)) = (CHOOSE g : SumTable(Allocated(cs), DOMAIN cs, g))
  BY <1>2
<1> QED
  BY <1>1, <1>3, SumIsTable

(* Both are amounts.                                                           *)
LEMMA SumsOfChecks ==
    ASSUME NEW cs, IsChecks(cs)
    PROVE  /\ PaidOf(cs) \in Nat /\ AllocatedOf(cs) \in Nat
           /\ \A n \in DOMAIN cs : /\ Paid(cs)[n] = cs[n].paid /\ cs[n].paid \in Nat
                                   /\ Allocated(cs)[n] = cs[n].alloc /\ cs[n].alloc \in Nat
<1>1. \A n \in DOMAIN cs : /\ Paid(cs)[n] = cs[n].paid /\ cs[n].paid \in Nat
                           /\ Allocated(cs)[n] = cs[n].alloc /\ cs[n].alloc \in Nat
  BY DEF IsChecks, Paid, Allocated, Check
<1>2. /\ SumFunctionOnSet(Paid(cs), DOMAIN cs) \in Nat
      /\ SumFunctionOnSet(Allocated(cs), DOMAIN cs) \in Nat
  <2>1. \A n \in DOMAIN cs : Paid(cs)[n] \in Nat /\ Allocated(cs)[n] \in Nat
    BY <1>1
  <2> QED
    BY <2>1, SumInt DEF IsChecks
<1> QED
  BY <1>1, <1>2, PaidIsSum, AllocatedIsSum

(* A bill with one check.                                                      *)
LEMMA OnlyCheck ==
    ASSUME NEW cs, NEW n \in Nat, DOMAIN cs = {n}, cs = [k \in {n} |-> cs[k]], cs[n] \in Check
    PROVE  IsChecks(cs) /\ AllocatedOf(cs) = cs[n].alloc /\ PaidOf(cs) = cs[n].paid
<1>1. IsChecks(cs)
  BY FS_Singleton DEF IsChecks
<1>2. Paid(cs)[n] = cs[n].paid /\ Allocated(cs)[n] = cs[n].alloc
      /\ cs[n].paid \in Int /\ cs[n].alloc \in Int
  BY <1>1, SumsOfChecks
<1> QED
  BY <1>1, <1>2, SumSingle, PaidIsSum, AllocatedIsSum

(* One check changes.                                                          *)
LEMMA ChangedCheck ==
    ASSUME NEW cs, NEW ds, IsChecks(cs), IsChecks(ds), DOMAIN ds = DOMAIN cs,
           NEW n \in DOMAIN cs, \A k \in DOMAIN cs \ {n} : ds[k] = cs[k]
    PROVE  /\ AllocatedOf(ds) = (AllocatedOf(cs) - cs[n].alloc) + ds[n].alloc
           /\ PaidOf(ds) = (PaidOf(cs) - cs[n].paid) + ds[n].paid
<1>1. /\ \A k \in DOMAIN cs : /\ Paid(cs)[k] = cs[k].paid /\ Allocated(cs)[k] = cs[k].alloc
                              /\ Paid(ds)[k] = ds[k].paid /\ Allocated(ds)[k] = ds[k].alloc
      /\ \A k \in DOMAIN cs : /\ Paid(cs)[k] \in Int /\ Allocated(cs)[k] \in Int
                              /\ Paid(ds)[k] \in Int /\ Allocated(ds)[k] \in Int
  BY SumsOfChecks
<1>2. IsFiniteSet(DOMAIN cs)
  BY DEF IsChecks
<1>3. \A k \in DOMAIN cs \ {n} : Paid(ds)[k] = Paid(cs)[k] /\ Allocated(ds)[k] = Allocated(cs)[k]
  BY <1>1
<1>4. SumFunctionOnSet(Paid(ds), DOMAIN cs)
         = (SumFunctionOnSet(Paid(cs), DOMAIN cs) - Paid(cs)[n]) + Paid(ds)[n]
  BY <1>1, <1>2, <1>3, SumReplace
<1>5. SumFunctionOnSet(Allocated(ds), DOMAIN cs)
         = (SumFunctionOnSet(Allocated(cs), DOMAIN cs) - Allocated(cs)[n]) + Allocated(ds)[n]
  BY <1>1, <1>2, <1>3, SumReplace
<1> QED
  BY <1>1, <1>4, <1>5, PaidIsSum, AllocatedIsSum

(* New checks, all for the same amount.                                        *)
LEMMA MoreChecks ==
    ASSUME NEW cs, NEW ds, IsChecks(cs), IsChecks(ds),
           NEW T, IsFiniteSet(T), T \cap DOMAIN cs = {}, DOMAIN ds = DOMAIN cs \cup T,
           NEW v \in Nat, \A k \in DOMAIN cs : ds[k] = cs[k], \A k \in T : ds[k] = NewCheck(v)
    PROVE  /\ AllocatedOf(ds) = AllocatedOf(cs) + v * Cardinality(T)
           /\ PaidOf(ds) = PaidOf(cs)
<1>1. /\ \A k \in DOMAIN cs : /\ Paid(ds)[k] = Paid(cs)[k] /\ Paid(cs)[k] \in Int
                              /\ Allocated(ds)[k] = Allocated(cs)[k] /\ Allocated(cs)[k] \in Int
      /\ \A k \in T : Paid(ds)[k] = 0 /\ Allocated(ds)[k] = v
  BY SumsOfChecks DEF NewCheck
<1>2. IsFiniteSet(DOMAIN cs) /\ DOMAIN cs \cap T = {} /\ Cardinality(T) \in Nat
  BY FS_CardinalityType DEF IsChecks
<1>3. SumFunctionOnSet(Paid(ds), T) = 0 * Cardinality(T)
  BY <1>1, SumConstant
<1>4. SumFunctionOnSet(Allocated(ds), T) = v * Cardinality(T)
  BY <1>1, SumConstant
<1>5. \A k \in T : Paid(ds)[k] \in Int /\ Allocated(ds)[k] \in Int
  BY <1>1
<1>6. SumFunctionOnSet(Paid(ds), DOMAIN cs \cup T)
         = SumFunctionOnSet(Paid(cs), DOMAIN cs) + SumFunctionOnSet(Paid(ds), T)
  BY <1>1, <1>2, <1>5, SumExtend
<1>7. SumFunctionOnSet(Allocated(ds), DOMAIN cs \cup T)
         = SumFunctionOnSet(Allocated(cs), DOMAIN cs) + SumFunctionOnSet(Allocated(ds), T)
  BY <1>1, <1>2, <1>5, SumExtend
<1>8. PaidOf(cs) \in Nat /\ 0 * Cardinality(T) = 0
  BY <1>2, SumsOfChecks
<1> QED
  BY <1>3, <1>4, <1>6, <1>7, <1>8, PaidIsSum, AllocatedIsSum

(* The number of a new check is not in use.                                    *)
LEMMA NextIsNew ==
    ASSUME NEW cs, IsChecks(cs), DOMAIN cs # {}
    PROVE  NextNumber(cs) \in Nat /\ \A n \in DOMAIN cs : n < NextNumber(cs)
<1>1. \E m \in DOMAIN cs : \A n \in DOMAIN cs : m >= n
  <2> DEFINE Top(T) == \E m \in T : \A n \in T : m >= n
             Bad == {T \in SUBSET DOMAIN cs : T # {} /\ ~Top(T)}
  <2> SUFFICES ASSUME Bad # {} PROVE FALSE
    OBVIOUS
  <2>1. PICK T \in Bad : \A U \in SUBSET T : U # T => U \notin Bad
    <3> HIDE DEF Bad
    <3>1. Bad \in SUBSET (SUBSET DOMAIN cs)
      BY DEF Bad
    <3> QED
      BY <3>1, SmallestSet DEF IsChecks
  <2>2. PICK x \in T : TRUE
    BY <2>1
  <2>3. T \ {x} # {}
    <3>1. T \subseteq Nat
      BY DEF IsChecks
    <3> QED
      BY <2>1, <2>2, <3>1
  <2>4. Top(T \ {x})
    BY <2>1, <2>3
  <2>5. Top(T)
    <3>1. T \subseteq Nat
      BY DEF IsChecks
    <3>2. PICK m \in T \ {x} : \A n \in T \ {x} : m >= n
      BY <2>4
    <3>3. CASE x >= m
      BY <3>1, <3>2, <3>3
    <3>4. CASE m >= x
      BY <3>1, <3>2, <3>4
    <3> QED
      BY <3>1, <3>3, <3>4
  <2> QED
    BY <2>1, <2>5
<1>2. Max(DOMAIN cs) \in DOMAIN cs /\ \A n \in DOMAIN cs : Max(DOMAIN cs) >= n
  BY <1>1 DEF Max
<1> QED
  BY <1>2 DEF NextNumber, IsChecks

(* Checks on which nothing was paid hold no payment, and checks that hold none *)
(* have each none.                                                             *)
LEMMA UnpaidChecks ==
    ASSUME NEW cs, IsChecks(cs)
    PROVE  PaidOf(cs) = 0 <=> \A n \in DOMAIN cs : cs[n].paid = 0
<1>1. IsFiniteSet(DOMAIN cs) /\ Cardinality(DOMAIN cs) \in Nat
  BY FS_CardinalityType DEF IsChecks
<1>2. \A n \in DOMAIN cs : Paid(cs)[n] = cs[n].paid /\ Paid(cs)[n] \in Nat
  BY SumsOfChecks
<1>3. ASSUME \A n \in DOMAIN cs : cs[n].paid = 0 PROVE PaidOf(cs) = 0
  <2>1. PaidOf(cs) = 0 * Cardinality(DOMAIN cs)
    BY <1>1, <1>2, <1>3, SumConstant, PaidIsSum
  <2> QED
    BY <1>1, <2>1
<1>4. ASSUME PaidOf(cs) = 0, NEW n \in DOMAIN cs PROVE cs[n].paid = 0
  <2>1. Paid(cs)[n] <= PaidOf(cs)
    BY <1>1, <1>2, SumBounds, PaidIsSum
  <2> QED
    BY <1>2, <1>4, <2>1
<1> QED
  BY <1>3, <1>4

(* splitByAmount and splitItems: what check n gives away is less than it has   *)
(* left, so the shares remain shares.                                          *)
LEMMA Division ==
    ASSUME NEW cs, IsChecks(cs), NEW t, Shares(cs, t), NEW n \in DOMAIN cs,
           cs[n].status = "open", NEW v \in Nat \ {0}, v < cs[n].alloc - cs[n].paid
    PROVE  LET ds == Divided(cs, n, v)
           IN  IsChecks(ds) /\ Shares(ds, t) /\ PaidOf(ds) = PaidOf(cs)
<1> DEFINE ds == Divided(cs, n, v)
           new == NextNumber(cs)
           mid == [cs EXCEPT ![n].alloc = @ - v]
<1>1. new \in Nat /\ new \notin DOMAIN cs
  BY NextIsNew DEF IsChecks
<1>2. /\ DOMAIN mid = DOMAIN cs
      /\ \A k \in DOMAIN cs \ {n} : mid[k] = cs[k]
      /\ mid[n] = [alloc |-> cs[n].alloc - v, paid |-> cs[n].paid, status |-> "open"]
  BY DEF IsChecks, Check
<1>3. cs[n].alloc - v \in Nat /\ cs[n].alloc \in Nat /\ cs[n].paid \in Nat
  BY SumsOfChecks
<1>4. IsChecks(mid)
  <2>1. \A k \in DOMAIN cs : mid[k] \in Check
    BY <1>2, <1>3 DEF IsChecks, Check
  <2> QED
    BY <1>2, <2>1 DEF IsChecks
<1>5. /\ DOMAIN ds = DOMAIN cs \cup {new}
      /\ \A k \in DOMAIN cs : ds[k] = mid[k]
      /\ ds[new] = NewCheck(v)
  BY <1>1 DEF Divided, IsChecks
<1>6. IsChecks(ds)
  <2>1. IsFiniteSet(DOMAIN ds) /\ DOMAIN ds \subseteq Nat
    BY <1>1, <1>5, FS_AddElement DEF IsChecks
  <2>2. \A k \in DOMAIN ds : ds[k] \in Check
    BY <1>4, <1>5 DEF IsChecks, NewCheck, Check
  <2>3. ds = [k \in DOMAIN ds |-> ds[k]]
    BY DEF Divided
  <2> HIDE DEF ds
  <2> QED
    BY <2>1, <2>2, <2>3 DEF IsChecks
<1>7. AllocatedOf(mid) = AllocatedOf(cs) - v /\ PaidOf(mid) = PaidOf(cs)
  <2>1. /\ AllocatedOf(mid) = (AllocatedOf(cs) - cs[n].alloc) + mid[n].alloc
        /\ PaidOf(mid) = (PaidOf(cs) - cs[n].paid) + mid[n].paid
    <3> HIDE DEF mid
    <3> QED
      BY <1>2, <1>4, ChangedCheck
  <2>2. mid[n].alloc = cs[n].alloc - v /\ mid[n].paid = cs[n].paid
    BY <1>2
  <2>3. AllocatedOf(cs) \in Nat /\ PaidOf(cs) \in Nat
    BY SumsOfChecks
  <2> HIDE DEF mid
  <2> QED
    BY <1>3, <2>1, <2>2, <2>3
<1>8. AllocatedOf(ds) = AllocatedOf(mid) + v /\ PaidOf(ds) = PaidOf(mid)
  <2>0. v * 1 = v
    OBVIOUS
  <2>1. IsFiniteSet({new}) /\ Cardinality({new}) = 1
    BY FS_Singleton
  <2>2. {new} \cap DOMAIN mid = {} /\ DOMAIN ds = DOMAIN mid \cup {new}
    BY <1>1, <1>2, <1>5
  <2>3. \A k \in {new} : ds[k] = NewCheck(v)
    BY <1>5
  <2>4. \A k \in DOMAIN mid : ds[k] = mid[k]
    BY <1>2, <1>5
  <2> HIDE DEF mid, ds, new
  <2> QED
    BY <1>4, <1>6, <2>0, <2>1, <2>2, <2>3, <2>4, MoreChecks
<1>9. Shares(ds, t)
  <2>1. AllocatedOf(ds) = t
    BY <1>7, <1>8, SumsOfChecks DEF Shares
  <2>2. ASSUME NEW k \in DOMAIN ds
        PROVE  /\ ds[k].paid <= ds[k].alloc
               /\ ds[k].status = "paid" <=> ds[k].paid = ds[k].alloc
    BY <1>2, <1>3, <1>5 DEF Shares, NewCheck
  <2> QED
    BY <2>1, <2>2 DEF Shares
<1> QED
  BY <1>6, <1>7, <1>8, <1>9

\* What SplitEvenly makes of the checks.
Evenly(cs, n, parts) ==
    LET base == cs[n].alloc \div parts
        first == NextNumber(cs)
    IN  [k \in DOMAIN cs \cup first..(first + parts - 2) |->
            CASE k = n -> NewCheck(base + (cs[n].alloc % parts))
              [] k \in DOMAIN cs \ {n} -> cs[k]
              [] OTHER -> NewCheck(base)]

(* splitEvenly: equal parts and the remainder make up what the check was for.   *)
LEMMA EvenDivision ==
    ASSUME NEW cs, IsChecks(cs), NEW t, Shares(cs, t), NEW n \in DOMAIN cs, Untouched(cs[n]),
           NEW parts \in Nat \ {0, 1}, cs[n].alloc \div parts > 0
    PROVE  LET ds == Evenly(cs, n, parts)
           IN  IsChecks(ds) /\ Shares(ds, t) /\ PaidOf(ds) = PaidOf(cs)
<1> DEFINE ds == Evenly(cs, n, parts)
           base == cs[n].alloc \div parts
           T == NextNumber(cs)..(NextNumber(cs) + parts - 2)
           rest == cs[n].alloc % parts
           mid == [cs EXCEPT ![n] = NewCheck(base + rest)]
<1>0. cs[n].alloc \in Nat /\ cs[n].paid = 0 /\ cs[n].status = "open"
  BY SumsOfChecks DEF Untouched
<1>1. base \in Nat \ {0} /\ rest \in Nat
  BY <1>0
<1>12. cs[n].alloc = base + base * (parts - 1) + rest
  <2>1. ASSUME NEW x \in Nat PROVE x = parts * (x \div parts) + (x % parts)
    OBVIOUS
  <2>2. parts * base = base + base * (parts - 1)
    BY <1>1
  <2> QED
    BY <1>0, <2>1, <2>2
<1>2. /\ NextNumber(cs) \in Nat /\ \A k \in DOMAIN cs : k < NextNumber(cs)
      /\ T \subseteq Nat /\ T \cap DOMAIN cs = {}
      /\ IsFiniteSet(T) /\ Cardinality(T) = parts - 1
  <2>1. NextNumber(cs) \in Nat /\ \A k \in DOMAIN cs : k < NextNumber(cs)
    BY NextIsNew
  <2>2. T \subseteq Nat /\ T \cap DOMAIN cs = {}
    BY <2>1 DEF IsChecks
  <2>3. IsFiniteSet(T) /\ Cardinality(T) = parts - 1
    <3> DEFINE a == NextNumber(cs)
               b == NextNumber(cs) + parts - 2
    <3>1. a \in Int /\ b \in Int /\ ~(a > b) /\ (b - a) + 1 = parts - 1
      BY <2>1
    <3>2. IsFiniteSet(a..b) /\ Cardinality(a..b) = IF a > b THEN 0 ELSE (b - a) + 1
      <4> HIDE DEF a, b
      <4> QED
        BY <3>1, FS_Interval
    <3> QED
      BY <3>1, <3>2
  <2> QED
    BY <2>1, <2>2, <2>3
<1>3. /\ DOMAIN mid = DOMAIN cs
      /\ \A k \in DOMAIN cs \ {n} : mid[k] = cs[k]
      /\ mid[n] = NewCheck(base + rest)
  BY DEF IsChecks
<1>4. IsChecks(mid)
  <2>1. \A k \in DOMAIN cs : mid[k] \in Check
    BY <1>1, <1>3 DEF IsChecks, NewCheck, Check
  <2> QED
    BY <1>3, <2>1 DEF IsChecks
<1>5. /\ DOMAIN ds = DOMAIN mid \cup T
      /\ \A k \in DOMAIN mid : ds[k] = mid[k]
      /\ \A k \in T : ds[k] = NewCheck(base)
      /\ ds = [k \in DOMAIN ds |-> ds[k]]
  <2>1. ds = [k \in DOMAIN cs \cup T |->
                 CASE k = n -> NewCheck(base + rest)
                   [] k \in DOMAIN cs \ {n} -> cs[k]
                   [] OTHER -> NewCheck(base)]
    BY DEF Evenly
  <2>2. n \in DOMAIN cs /\ T \cap DOMAIN cs = {}
    BY <1>2
  <2> HIDE DEF ds, mid, T, base, rest
  <2>3. DOMAIN ds = DOMAIN cs \cup T /\ ds = [k \in DOMAIN ds |-> ds[k]]
    BY <2>1
  <2>4. ds[n] = NewCheck(base + rest)
    BY <2>1, <2>2
  <2>5. ASSUME NEW k \in DOMAIN cs \ {n} PROVE ds[k] = cs[k]
    BY <2>1, <2>5
  <2>6. ASSUME NEW k \in T PROVE ds[k] = NewCheck(base)
    BY <2>1, <2>2, <2>6
  <2> QED
    BY <1>3, <2>3, <2>4, <2>5, <2>6
<1>6. IsChecks(ds)
  <2>1. IsFiniteSet(DOMAIN ds) /\ DOMAIN ds \subseteq Nat
    <3>1. DOMAIN ds = DOMAIN cs \cup T /\ IsFiniteSet(T) /\ T \subseteq Nat
      BY <1>2, <1>3, <1>5
    <3> HIDE DEF ds, mid, T, base, rest
    <3> QED
      BY <3>1, FS_Union DEF IsChecks
  <2>2. \A k \in DOMAIN ds : ds[k] \in Check
    <3>1. NewCheck(base) \in Check
      BY <1>1 DEF NewCheck, Check
    <3> HIDE DEF ds, mid, T, base, rest
    <3> QED
      BY <1>4, <1>5, <3>1 DEF IsChecks
  <2> HIDE DEF ds
  <2> QED
    BY <1>5, <2>1, <2>2 DEF IsChecks
<1>7. /\ AllocatedOf(mid) = (AllocatedOf(cs) - cs[n].alloc) + (base + rest)
      /\ PaidOf(mid) = PaidOf(cs)
  <2>1. /\ AllocatedOf(mid) = (AllocatedOf(cs) - cs[n].alloc) + mid[n].alloc
        /\ PaidOf(mid) = (PaidOf(cs) - cs[n].paid) + mid[n].paid
    <3> HIDE DEF ds, mid, T, base, rest
    <3> QED
      BY <1>3, <1>4, ChangedCheck
  <2>2. mid[n].alloc = base + rest /\ mid[n].paid = 0
    BY <1>3 DEF NewCheck
  <2>3. PaidOf(cs) \in Nat
    BY SumsOfChecks
  <2> HIDE DEF ds, mid, T, base, rest
  <2> QED
    BY <1>0, <1>1, <2>1, <2>2, <2>3
<1>8. AllocatedOf(ds) = AllocatedOf(mid) + base * (parts - 1) /\ PaidOf(ds) = PaidOf(mid)
  <2>1. T \cap DOMAIN mid = {} /\ base \in Nat
    BY <1>1, <1>2, <1>3
  <2> HIDE DEF ds, mid, T, base, rest
  <2> QED
    BY <1>2, <1>4, <1>5, <1>6, <2>1, MoreChecks
<1>9. AllocatedOf(ds) = AllocatedOf(cs)
  <2> DEFINE more == base * (parts - 1)
  <2>1. more \in Nat /\ AllocatedOf(cs) \in Nat
    BY <1>1, SumsOfChecks
  <2>2. cs[n].alloc = base + more + rest /\ AllocatedOf(ds) = AllocatedOf(mid) + more
    BY <1>8, <1>12
  <2> HIDE DEF ds, mid, T, base, rest, more
  <2> QED
    BY <1>0, <1>1, <1>7, <2>1, <2>2
<1>10. ASSUME NEW k \in DOMAIN ds
       PROVE  /\ ds[k].paid <= ds[k].alloc
              /\ ds[k].status = "paid" <=> ds[k].paid = ds[k].alloc
  <2>1. DOMAIN ds = DOMAIN cs \cup T
    BY <1>3, <1>5
  <2>2. base + rest \in Nat \ {0}
    BY <1>1
  <2> HIDE DEF ds, mid, T, base, rest
  <2>3. CASE k \in T
    BY <1>1, <1>5, <2>3 DEF NewCheck
  <2>4. CASE k = n
    <3>1. ds[k] = NewCheck(base + rest)
      BY <1>3, <1>5, <2>4
    <3> QED
      BY <2>2, <3>1 DEF NewCheck
  <2>5. CASE k \in DOMAIN cs \ {n}
    <3>1. ds[k] = cs[k]
      BY <1>3, <1>5, <2>5
    <3> QED
      BY <2>5, <3>1 DEF Shares
  <2> QED
    BY <2>1, <2>3, <2>4, <2>5
<1>11. IsChecks(ds) /\ Shares(ds, t) /\ PaidOf(ds) = PaidOf(cs)
  <2> HIDE DEF ds, mid, T, base, rest
  <2> QED
    BY <1>6, <1>7, <1>8, <1>9, <1>10 DEF Shares
<1> QED
  BY <1>11

(* mergeChecks: the target takes what the source was for; neither held money.  *)
LEMMA Merging ==
    ASSUME NEW cs, IsChecks(cs), NEW t, Shares(cs, t),
           NEW target \in DOMAIN cs, NEW source \in DOMAIN cs \ {target},
           Untouched(cs[target]), Untouched(cs[source])
    PROVE  LET ds == Without([cs EXCEPT ![target].alloc = @ + cs[source].alloc], {source})
           IN  IsChecks(ds) /\ Shares(ds, t) /\ PaidOf(ds) = PaidOf(cs)
<1> DEFINE ds == Without([cs EXCEPT ![target].alloc = @ + cs[source].alloc], {source})
           moved == cs[source].alloc
           mid == [cs EXCEPT ![target].alloc = @ + moved]
<1>1. /\ cs[target].alloc \in Nat /\ moved \in Nat
      /\ cs[target].alloc # 0 /\ cs[target].paid = 0 /\ cs[target].status = "open"
      /\ cs[source] = NewCheck(moved)
  BY DEF IsChecks, Check, NewCheck, Shares, Untouched
<1>2. /\ DOMAIN mid = DOMAIN cs
      /\ \A k \in DOMAIN cs \ {target} : mid[k] = cs[k]
      /\ mid[target] = NewCheck(cs[target].alloc + moved)
  BY <1>1 DEF IsChecks, Check, NewCheck
<1>3. IsChecks(mid)
  <2>1. \A k \in DOMAIN cs : mid[k] \in Check
    BY <1>1, <1>2 DEF IsChecks, NewCheck, Check
  <2> QED
    BY <1>2, <2>1 DEF IsChecks
<1>4. /\ DOMAIN ds = DOMAIN cs \ {source}
      /\ ds = [k \in DOMAIN ds |-> ds[k]]
      /\ \A k \in DOMAIN ds : ds[k] = mid[k]
  BY DEF Without, IsChecks
<1>5. IsChecks(ds)
  <2>1. IsFiniteSet(DOMAIN ds) /\ DOMAIN ds \subseteq Nat
    BY <1>4, FS_RemoveElement DEF IsChecks
  <2>2. \A k \in DOMAIN ds : ds[k] \in Check
    <3> HIDE DEF ds, mid
    <3> QED
      BY <1>2, <1>3, <1>4 DEF IsChecks
  <2> HIDE DEF ds
  <2> QED
    BY <1>4, <2>1, <2>2 DEF IsChecks
<1>6. /\ AllocatedOf(mid) = (AllocatedOf(cs) - cs[target].alloc) + (cs[target].alloc + moved)
      /\ PaidOf(mid) = PaidOf(cs)
  <2>1. /\ AllocatedOf(mid) = (AllocatedOf(cs) - cs[target].alloc) + mid[target].alloc
        /\ PaidOf(mid) = (PaidOf(cs) - cs[target].paid) + mid[target].paid
    <3> HIDE DEF ds, mid
    <3> QED
      BY <1>2, <1>3, ChangedCheck
  <2>2. mid[target].alloc = cs[target].alloc + moved /\ mid[target].paid = 0
    BY <1>2 DEF NewCheck
  <2>3. PaidOf(cs) \in Nat
    BY SumsOfChecks
  <2> HIDE DEF ds, mid
  <2> QED
    BY <1>1, <2>1, <2>2, <2>3
<1>7. AllocatedOf(mid) = AllocatedOf(ds) + moved /\ PaidOf(mid) = PaidOf(ds)
  <2>1. IsFiniteSet({source}) /\ Cardinality({source}) = 1
    BY FS_Singleton
  <2>2. moved * 1 = moved
    BY <1>1
  <2>3. {source} \cap DOMAIN ds = {} /\ DOMAIN mid = DOMAIN ds \cup {source}
    BY <1>2, <1>4
  <2>4. \A k \in {source} : mid[k] = NewCheck(moved)
    BY <1>1, <1>2
  <2>5. \A k \in DOMAIN ds : mid[k] = ds[k]
    BY <1>4
  <2> HIDE DEF ds, mid, moved
  <2> QED
    BY <1>1, <1>3, <1>5, <2>1, <2>2, <2>3, <2>4, <2>5, MoreChecks
<1>8. AllocatedOf(ds) = t
  <2>1. AllocatedOf(cs) = t /\ AllocatedOf(cs) \in Nat /\ AllocatedOf(ds) \in Nat
    BY <1>5, SumsOfChecks DEF Shares
  <2> HIDE DEF ds, mid, moved
  <2> QED
    BY <1>1, <1>6, <1>7, <2>1
<1>9. ASSUME NEW k \in DOMAIN ds
      PROVE  /\ ds[k].paid <= ds[k].alloc
             /\ ds[k].status = "paid" <=> ds[k].paid = ds[k].alloc
  <2>1. ds[k] = mid[k] /\ k \in DOMAIN cs
    BY <1>4
  <2>2. cs[target].alloc + moved \in Nat \ {0}
    BY <1>1
  <2> HIDE DEF ds, mid, moved
  <2>3. CASE k = target
    <3>1. ds[k] = NewCheck(cs[target].alloc + moved)
      BY <1>2, <2>1, <2>3
    <3> QED
      BY <2>2, <3>1 DEF NewCheck
  <2>4. CASE k # target
    <3>1. ds[k] = cs[k]
      BY <1>2, <2>1, <2>4
    <3> QED
      BY <2>1, <3>1 DEF Shares
  <2> QED
    BY <2>3, <2>4
<1>10. IsChecks(ds) /\ Shares(ds, t) /\ PaidOf(ds) = PaidOf(cs)
  <2> HIDE DEF ds, mid, moved
  <2> QED
    BY <1>5, <1>6, <1>7, <1>8, <1>9 DEF Shares
<1> QED
  BY <1>10

(* acceptOrderAddition: the total grows by the addition, and so does the share *)
(* of the only check, or a new check is for it.                                *)
LEMMA AddingTo ==
    ASSUME NEW cs, IsChecks(cs), cs # NoChecks, NEW t, Shares(cs, t), NEW v \in Nat \ {0}
    PROVE  LET ds == WithAddition(cs, v)
           IN  IsChecks(ds) /\ Shares(ds, t + v) /\ PaidOf(ds) = PaidOf(cs)
<1> DEFINE ds == WithAddition(cs, v)
           new == NextNumber(cs)
<1>1. CASE \E n \in DOMAIN cs : DOMAIN cs = {n} /\ Untouched(cs[n])
  <2>1. PICK n \in DOMAIN cs : DOMAIN cs = {n} /\ Untouched(cs[n])
    BY <1>1
  <2>2. ds = [k \in DOMAIN cs |-> NewCheck(cs[k].alloc + v)]
    BY <1>1 DEF WithAddition
  <2> HIDE DEF ds
  <2>3. n \in Nat /\ cs[n] \in Check /\ cs = [k \in {n} |-> cs[k]]
    BY <2>1 DEF IsChecks
  <2>4. AllocatedOf(cs) = cs[n].alloc /\ PaidOf(cs) = cs[n].paid
    BY <2>1, <2>3, OnlyCheck
  <2>5. cs[n].alloc \in Nat /\ cs[n].paid = 0 /\ cs[n].alloc = t
    BY <2>1, <2>3, <2>4 DEF Shares, Check, Untouched
  <2>6. DOMAIN ds = {n} /\ ds = [k \in {n} |-> ds[k]] /\ ds[n] = NewCheck(t + v)
    BY <2>1, <2>2, <2>5
  <2>7. ds[n] \in Check
    BY <2>5, <2>6 DEF NewCheck, Check
  <2>8. IsChecks(ds) /\ AllocatedOf(ds) = ds[n].alloc /\ PaidOf(ds) = ds[n].paid
    BY <2>3, <2>6, <2>7, OnlyCheck
  <2>9. ds[n].alloc = t + v /\ ds[n].paid = 0 /\ ds[n].status = "open"
    BY <2>6 DEF NewCheck
  <2> QED
    BY <2>4, <2>5, <2>6, <2>8, <2>9 DEF Shares, ds
<1>2. CASE ~ \E n \in DOMAIN cs : DOMAIN cs = {n} /\ Untouched(cs[n])
  <2>1. ds = [k \in DOMAIN cs \cup {new} |-> IF k = new THEN NewCheck(v) ELSE cs[k]]
    BY <1>2 DEF WithAddition
  <2>2. DOMAIN cs # {}
    BY DEF IsChecks, NoChecks
  <2>3. new \in Nat /\ new \notin DOMAIN cs
    BY <2>2, NextIsNew DEF IsChecks
  <2> HIDE DEF ds, new
  <2>4. /\ DOMAIN ds = DOMAIN cs \cup {new}
        /\ \A k \in DOMAIN cs : ds[k] = cs[k]
        /\ \A k \in {new} : ds[k] = NewCheck(v)
    BY <2>1, <2>3
  <2>5. IsChecks(ds)
    <3>1. IsFiniteSet(DOMAIN ds) /\ DOMAIN ds \subseteq Nat
      BY <2>3, <2>4, FS_AddElement DEF IsChecks
    <3>2. \A k \in DOMAIN ds : ds[k] \in Check
      BY <2>4 DEF IsChecks, NewCheck, Check
    <3>3. ds = [k \in DOMAIN ds |-> ds[k]]
      BY <2>1
    <3> QED
      BY <3>1, <3>2, <3>3 DEF IsChecks
  <2>6. AllocatedOf(ds) = AllocatedOf(cs) + v /\ PaidOf(ds) = PaidOf(cs)
    <3>1. IsFiniteSet({new}) /\ Cardinality({new}) = 1
      BY FS_Singleton
    <3>2. {new} \cap DOMAIN cs = {}
      BY <2>3
    <3>3. v * 1 = v /\ v \in Nat
      OBVIOUS
    <3> QED
      BY <2>4, <2>5, <3>1, <3>2, <3>3, MoreChecks
  <2>7. ASSUME NEW k \in DOMAIN ds
        PROVE  /\ ds[k].paid <= ds[k].alloc
               /\ ds[k].status = "paid" <=> ds[k].paid = ds[k].alloc
    BY <2>4 DEF Shares, NewCheck
  <2> QED
    BY <2>5, <2>6, <2>7 DEF Shares, ds
<1> QED
  BY <1>1, <1>2

(* payCheck: money that a check still waits for is recorded on it, and closes  *)
(* it when nothing more is due.                                                *)
LEMMA Paying ==
    ASSUME NEW cs, IsChecks(cs), NEW t, Shares(cs, t), NEW n \in DOMAIN cs,
           NEW v \in Nat \ {0}, v <= cs[n].alloc - cs[n].paid, cs[n].status = "open",
           NEW ds, ds = [cs EXCEPT ![n] = PaidOn(cs[n], v)]
    PROVE  IsChecks(ds) /\ Shares(ds, t) /\ PaidOf(ds) = PaidOf(cs) + v
<1>1. cs[n] \in Check /\ cs[n].alloc \in Nat /\ cs[n].paid \in Nat
  BY DEF IsChecks, Check
<1>2. PaidOn(cs[n], v) = [alloc |-> cs[n].alloc, paid |-> cs[n].paid + v,
                          status |-> IF cs[n].paid + v >= cs[n].alloc THEN "paid" ELSE "open"]
  <2>1. ASSUME NEW c \in Check, c.status = "open"
        PROVE  PaidOn(c, v) = [alloc |-> c.alloc, paid |-> c.paid + v,
                               status |-> IF c.paid + v >= c.alloc THEN "paid" ELSE "open"]
    <3> DEFINE s == IF c.paid + v >= c.alloc THEN "paid" ELSE "open"
    <3>1. PaidOn(c, v) = [c EXCEPT !.paid = c.paid + v, !.status = s]
      BY <2>1 DEF PaidOn
    <3> HIDE DEF s
    <3>2. PaidOn(c, v) = [alloc |-> c.alloc, paid |-> c.paid + v, status |-> s]
      BY <3>1 DEF Check
    <3> QED
      BY <3>2 DEF s
  <2> QED
    BY <1>1, <2>1
<1>3. /\ DOMAIN ds = DOMAIN cs /\ ds = [k \in DOMAIN ds |-> ds[k]]
      /\ \A k \in DOMAIN cs \ {n} : ds[k] = cs[k]
      /\ ds[n] = PaidOn(cs[n], v)
  BY DEF IsChecks
<1>4. ds[n] \in Check /\ ds[n].paid = cs[n].paid + v /\ ds[n].alloc = cs[n].alloc
  BY <1>1, <1>2, <1>3 DEF Check
<1>5. IsChecks(ds)
  <2>1. \A k \in DOMAIN ds : ds[k] \in Check
    BY <1>3, <1>4 DEF IsChecks
  <2> QED
    BY <1>3, <2>1 DEF IsChecks
<1>6. /\ AllocatedOf(ds) = (AllocatedOf(cs) - cs[n].alloc) + ds[n].alloc
      /\ PaidOf(ds) = (PaidOf(cs) - cs[n].paid) + ds[n].paid
  BY <1>3, <1>5, ChangedCheck
<1>7. AllocatedOf(cs) \in Nat /\ PaidOf(cs) \in Nat
  BY SumsOfChecks
<1>8. AllocatedOf(ds) = t /\ PaidOf(ds) = PaidOf(cs) + v
  BY <1>1, <1>4, <1>6, <1>7 DEF Shares
<1>9. ASSUME NEW k \in DOMAIN ds
      PROVE  /\ ds[k].paid <= ds[k].alloc
             /\ ds[k].status = "paid" <=> ds[k].paid = ds[k].alloc
  <2>1. CASE k = n
    BY <1>1, <1>2, <1>3, <2>1
  <2>2. CASE k # n
    BY <1>3, <2>2 DEF Shares
  <2> QED
    BY <2>1, <2>2
<1> QED
  BY <1>5, <1>8, <1>9 DEF Shares

(* One untouched check for the whole amount: what getOrderChecks creates, what *)
(* an edit leaves and what a reset restores.                                   *)
LEMMA OneNewCheck ==
    ASSUME NEW n \in Nat, NEW t \in Nat \ {0}, NEW ds, ds = [k \in {n} |-> NewCheck(t)]
    PROVE  IsChecks(ds) /\ Shares(ds, t) /\ PaidOf(ds) = 0
<1>1. DOMAIN ds = {n} /\ ds = [k \in {n} |-> ds[k]] /\ ds[n] = NewCheck(t)
  OBVIOUS
<1>2. NewCheck(t) \in Check
  BY DEF NewCheck, Check
<1>3. IsChecks(ds) /\ AllocatedOf(ds) = ds[n].alloc /\ PaidOf(ds) = ds[n].paid
  BY <1>1, <1>2, OnlyCheck
<1>4. ds[n].alloc = t /\ ds[n].paid = 0 /\ ds[n].status = "open"
  BY <1>1 DEF NewCheck
<1> QED
  BY <1>1, <1>3, <1>4 DEF Shares

(* No checks hold no money.                                                    *)
LEMMA NoneYet == IsChecks(NoChecks) /\ PaidOf(NoChecks) = 0
<1>1. DOMAIN NoChecks = {} /\ NoChecks = [n \in DOMAIN NoChecks |-> NoChecks[n]]
  BY DEF NoChecks
<1>2. IsChecks(NoChecks)
  BY <1>1, FS_EmptySet DEF IsChecks
<1> QED
  BY <1>1, <1>2, UnpaidChecks

-----------------------------------------------------------------------------
(* Settlement, without regard to the checks. *)

\* The part of TypeOK that does not depend on the checks.
Money ==
    /\ total \in [Bills -> Nat]
    /\ payment \in [Bills -> [status : {"pending", "settlement"}, amount : Nat]]
    /\ addition \in [Bills -> Nat]
    /\ order \in [Bills -> {"none", "pending", "accepted", "completed", "dropped"}]
    /\ group \in [Bills -> {"no", "open", "settled"}]
    /\ torn \subseteq Bills

\* Nobody settles an order before the branch accepts it, so what may still be
\* edited is not settled.
EditableIsUnsettled ==
    \A b \in Bills : order[b] \in {"none", "pending"} => payment[b].status = "pending"

IInv == Money /\ EditableIsUnsettled /\ SettledWithinBill /\ GroupedIsSettled

BillsOnly == <<order, total, payment, addition, group, torn>>

(* A step that leaves order, total, payment, addition and group alone keeps  *)
(* the invariant: dividing a bill and a contribution that settles nothing.   *)
LEMMA UntouchedBills == IInv /\ UNCHANGED BillsOnly => IInv'
  BY DEF IInv, BillsOnly, Money, EditableIsUnsettled, SettledWithinBill, GroupedIsSettled, Prior

(* Settling accepted bills for exactly their totals keeps the invariant,     *)
(* whether or not the bills also become members of a settled group.          *)
LEMMA SettlingBills ==
  ASSUME IInv, NEW S \in SUBSET Bills,
         \A b \in S : ~SettlementRefused(b),
         payment' = [b \in Bills |-> IF b \in S THEN Settled(b) ELSE payment[b]],
         \/ group' = group
         \/ group' = [b \in Bills |-> IF b \in S THEN "settled" ELSE group[b]],
         UNCHANGED <<order, total, addition, torn>>
  PROVE  IInv'
<1>1. \A b \in S : order[b] = "accepted"
  BY DEF SettlementRefused
<1>2. \A b \in Bills : payment'[b] = IF b \in S THEN [status |-> "settlement", amount |-> total[b]]
                                               ELSE payment[b]
  BY DEF Settled
<1>3. Money'
  BY <1>2 DEF IInv, Money, Settled
<1>4. EditableIsUnsettled'
  BY <1>1, <1>2 DEF IInv, Money, EditableIsUnsettled
<1>5. SettledWithinBill'
  <2> SUFFICES ASSUME NEW b \in Bills PROVE Prior(b)' <= total'[b]
    BY DEF SettledWithinBill
  <2>1. total'[b] = total[b] /\ total[b] \in Nat
    BY DEF IInv, Money
  <2>2. CASE b \in S
    <3>1. payment'[b] = [status |-> "settlement", amount |-> total[b]]
      BY <1>2, <2>2
    <3> QED
      BY <2>1, <3>1 DEF Prior
  <2>3. CASE b \notin S
    BY <1>2, <2>1, <2>3 DEF IInv, SettledWithinBill, Prior
  <2> QED
    BY <2>2, <2>3
<1>6. GroupedIsSettled'
  <2> SUFFICES ASSUME NEW b \in Bills \ torn', group'[b] = "settled" PROVE payment'[b].status = "settlement"
    BY DEF GroupedIsSettled
  <2>1. CASE b \in S
    <3>1. payment'[b] = [status |-> "settlement", amount |-> total[b]]
      BY <1>2, <2>1
    <3> QED
      BY <3>1
  <2>2. CASE b \notin S
    <3>1. group[b] = "settled"
      BY <2>2 DEF IInv, Money
    <3> QED
      BY <1>2, <2>2, <3>1 DEF IInv, GroupedIsSettled
  <2> QED
    BY <2>1, <2>2
<1> QED
  BY <1>3, <1>4, <1>5, <1>6 DEF IInv

(* Additions and edits change a total, acceptance and its like a status: a   *)
(* settled bill only grows, and only an unsettled one is edited.             *)
LEMMA OrderSteps ==
  ASSUME IInv, NEW b \in Bills,
         \/ Accept(b) \/ Drop(b) \/ Complete(b) \/ AcceptAddition(b) \/ RejectAddition(b)
         \/ \E v \in Amounts(b) : Hold(b, v) \/ Edit(b, v) \/ SubmitAddition(b, v),
         Amounts(b) \subseteq Nat
  PROVE  IInv'
<1> USE DEF IInv, Money
<1>1. CASE Accept(b)
  BY <1>1 DEF Accept, EditableIsUnsettled, SettledWithinBill, GroupedIsSettled, Prior
<1>2. CASE Drop(b)
  BY <1>2 DEF Drop, EditableIsUnsettled, SettledWithinBill, GroupedIsSettled, Prior
<1>3. CASE Complete(b)
  BY <1>3 DEF Complete, EditableIsUnsettled, SettledWithinBill, GroupedIsSettled, Prior
<1>4. CASE AcceptAddition(b)
  BY <1>4 DEF AcceptAddition, EditableIsUnsettled, SettledWithinBill, GroupedIsSettled, Prior
<1>5. CASE RejectAddition(b)
  BY <1>5 DEF RejectAddition, EditableIsUnsettled, SettledWithinBill, GroupedIsSettled, Prior
<1>6. ASSUME NEW v \in Amounts(b), Hold(b, v) PROVE IInv'
  <2>1. payment'[b].status = payment[b].status /\ payment'[b].amount = v /\ v \in Nat
    BY <1>6 DEF Hold
  <2>2. \A c \in Bills \ {b} : payment'[c] = payment[c] /\ total'[c] = total[c] /\ order'[c] = order[c]
    BY <1>6 DEF Hold
  <2>3. payment[b].status = "pending"
    BY <1>6 DEF Hold, EditableIsUnsettled
  <2>4. Money'
    BY <1>6, <2>1 DEF Hold
  <2>5. EditableIsUnsettled' /\ SettledWithinBill'
    BY <1>6, <2>1, <2>2, <2>3 DEF Hold, EditableIsUnsettled, SettledWithinBill, Prior
  <2>6. GroupedIsSettled'
    BY <1>6, <2>1, <2>2 DEF Hold, GroupedIsSettled
  <2> QED
    BY <2>4, <2>5, <2>6
<1>7. ASSUME NEW v \in Amounts(b), Edit(b, v) PROVE IInv'
  BY <1>7 DEF Edit, EditableIsUnsettled, SettledWithinBill, GroupedIsSettled, Prior
<1>8. ASSUME NEW v \in Amounts(b), SubmitAddition(b, v) PROVE IInv'
  BY <1>8 DEF SubmitAddition, EditableIsUnsettled, SettledWithinBill, GroupedIsSettled, Prior
<1> QED
  BY <1>1, <1>2, <1>3, <1>4, <1>5, <1>6, <1>7, <1>8

(* The two ways that settle one bill: as a whole, and by its last check.     *)
LEMMA OneBillSettled ==
  ASSUME IInv, NEW b \in Bills, ~SettlementRefused(b),
         payment' = [payment EXCEPT ![b] = Settled(b)],
         UNCHANGED <<order, total, addition, group, torn>>
  PROVE  IInv'
<1>1. payment' = [c \in Bills |-> IF c \in {b} THEN Settled(c) ELSE payment[c]]
  BY DEF IInv, Money
<1> QED
  BY <1>1, SettlingBills

(* A group torn apart: members that are settled are accepted, and settled for *)
(* exactly their totals; that all members are is promised of them no more.    *)
LEMMA TearingGroups ==
  ASSUME IInv, NEW S \in SUBSET Bills, NEW T \in SUBSET S, NEW ends \in BOOLEAN,
         SettleGroupUnseated(S, T, ends)
  PROVE  IInv'
<1>1. \A b \in T : order[b] = "accepted"
  BY DEF SettleGroupUnseated, SettlementRefused
<1>2. /\ order' = order /\ total' = total /\ addition' = addition /\ torn' = torn \cup S
      /\ \A b \in Bills : payment'[b] = IF b \in T THEN [status |-> "settlement", amount |-> total[b]]
                                                   ELSE payment[b]
      /\ \A b \in Bills \ S : group'[b] = group[b]
  BY DEF SettleGroupUnseated, Settled
<1>3. group' \in [Bills -> {"no", "open", "settled"}]
  BY DEF SettleGroupUnseated, IInv, Money
<1>4. payment' \in [Bills -> [status : {"pending", "settlement"}, amount : Nat]]
  BY DEF SettleGroupUnseated, Settled, IInv, Money
<1>5. Money'
  BY <1>2, <1>3, <1>4 DEF IInv, Money
<1>6. EditableIsUnsettled'
  BY <1>1, <1>2 DEF IInv, Money, EditableIsUnsettled
<1>7. SettledWithinBill'
  <2> SUFFICES ASSUME NEW b \in Bills PROVE Prior(b)' <= total'[b]
    BY DEF SettledWithinBill
  <2>1. total'[b] = total[b] /\ total[b] \in Nat
    BY <1>2 DEF IInv, Money
  <2>2. CASE b \in T
    <3>1. payment'[b] = [status |-> "settlement", amount |-> total[b]]
      BY <1>2, <2>2
    <3> QED
      BY <2>1, <3>1 DEF Prior
  <2>3. CASE b \notin T
    BY <1>2, <2>1, <2>3 DEF IInv, SettledWithinBill, Prior
  <2> QED
    BY <2>2, <2>3
<1>8. GroupedIsSettled'
  BY <1>2 DEF IInv, GroupedIsSettled
<1> QED
  BY <1>5, <1>6, <1>7, <1>8 DEF IInv

(* No step of any handler breaks the invariant of settlement.                *)
LEMMA NextKeepsIInv == IInv /\ [Next]_vars => IInv'
<1> SUFFICES ASSUME IInv, [Next]_vars PROVE IInv'
  OBVIOUS
<1>1. \A b \in Bills : Amounts(b) \subseteq Nat
  BY BillsAssumption DEF Amounts
<1>2. ASSUME NEW b \in Bills, OpenChecks(b) \/ Reset(b) PROVE IInv'
  BY <1>2, UntouchedBills DEF OpenChecks, Reset, OnlyChecks, BillsOnly
<1>3. ASSUME NEW b \in Bills, NEW n \in Numbers, NEW v \in Amounts(b), SplitByAmount(b, n, v) \/ SplitItems(b, n, v)
      PROVE IInv'
  BY <1>3, UntouchedBills DEF SplitByAmount, SplitItems, OnlyChecks, BillsOnly
<1>4. ASSUME NEW b \in Bills, NEW n \in Numbers, NEW k \in Numbers \cup 2..MaxNumber, SplitEvenly(b, n, k) \/ Merge(b, n, k)
      PROVE IInv'
  BY <1>4, UntouchedBills DEF SplitEvenly, Merge, OnlyChecks, BillsOnly
<1>5. ASSUME NEW b \in Bills, SettleCash(b) PROVE IInv'
  BY <1>5, OneBillSettled DEF SettleCash
<1>6. ASSUME NEW b \in Bills, NEW n \in Numbers, NEW v \in Amounts(b), NEW cash \in BOOLEAN,
             PayCheck(b, n, v, cash) \/ PayCheckCrash(b, n, v, cash)
      PROVE IInv'
  <2>1. CASE UNCHANGED payment
    BY <1>6, <2>1, UntouchedBills DEF PayCheck, PayCheckCrash, BillsOnly
  <2>2. CASE ~UNCHANGED payment
    <3>1. PayCheck(b, n, v, cash)
      BY <1>6, <2>2 DEF PayCheckCrash
    <3>2. ~SettlementRefused(b) /\ payment' = [payment EXCEPT ![b] = Settled(b)]
      BY <3>1, <2>2 DEF PayCheck, Finalizes
    <3> QED
      BY <3>1, <3>2, OneBillSettled DEF PayCheck
  <2> QED
    BY <2>1, <2>2
<1>7. ASSUME NEW S \in SUBSET Bills, GroupLeftOpen(S) PROVE IInv'
  BY <1>7 DEF GroupLeftOpen, IInv, Money, EditableIsUnsettled, SettledWithinBill, GroupedIsSettled, Prior
<1>8. ASSUME NEW S \in SUBSET Bills, SettleGroup(S) PROVE IInv'
  <2>1. \A b \in S : ~SettlementRefused(b)
    BY <1>8 DEF SettleGroup
  <2>2. /\ payment' = [b \in Bills |-> IF b \in S THEN Settled(b) ELSE payment[b]]
        /\ group' = [b \in Bills |-> IF b \in S THEN "settled" ELSE group[b]]
        /\ UNCHANGED <<order, total, addition, torn>>
    BY <1>8 DEF SettleGroup
  <2> QED
    BY <2>1, <2>2, SettlingBills
<1>9. CASE UNCHANGED vars
  BY <1>9, UntouchedBills DEF vars, BillsOnly
<1>10. ASSUME NEW S \in SUBSET Bills, NEW T \in SUBSET S, NEW ends \in BOOLEAN,
              SettleGroupUnseated(S, T, ends)
       PROVE IInv'
  BY <1>10, TearingGroups
<1> QED
  BY <1>1, <1>2, <1>3, <1>4, <1>5, <1>6, <1>7, <1>8, <1>9, <1>10, OrderSteps DEF Next

(* Every state of the specification satisfies the invariant.                 *)
LEMMA BillsAreKept == Spec => []IInv
<1>1. Init => IInv
  BY DEF Init, IInv, Money, EditableIsUnsettled, SettledWithinBill, GroupedIsSettled, Prior
<1> QED
  BY <1>1, NextKeepsIInv, PTL DEF Spec

(* However bills are edited, added to, divided and paid, nothing that was    *)
(* settled is ever taken off a bill.                                         *)
THEOREM NothingSettledIsTakenOff == Spec => []SettledWithinBill
  BY BillsAreKept, PTL DEF IInv

(* A payment group settles all of its members or none, unless a refused       *)
(* seating tore it apart.                                                     *)
THEOREM GroupsSettleTogether == Spec => []GroupedIsSettled
  BY BillsAreKept, PTL DEF IInv

-----------------------------------------------------------------------------
(* The bill and its checks. *)

SettledPart(p) == IF p.status = "settlement" THEN p.amount ELSE 0

\* What holds of one bill: its order o, total t, payment p, checks cs, and the
\* money c and d taken for it.  A bill that was not held has no checks; what
\* was taken is on record; and unless a group of it was torn apart, what was
\* paid on checks was taken, and what was settled was taken in cash.
Sound(o, t, p, cs, c, d, unbroken) ==
    /\ IsChecks(cs) /\ DOMAIN cs \subseteq Numbers
    /\ o = "none" => cs = NoChecks
    /\ o # "none" => t > 0
    /\ cs # NoChecks => Shares(cs, t)
    /\ unbroken => PaidOf(cs) <= d + c
    /\ d + c <= PaidOf(cs) + SettledPart(p)
    /\ unbroken => SettledPart(p) <= d

BillSound(b) == Sound(order[b], total[b], payment[b], checks[b], card[b], drawer[b], b \notin torn)

Taken ==
    /\ card \in [Bills -> Nat]
    /\ drawer \in [Bills -> Nat]
    /\ DOMAIN checks = Bills

BillInv == IInv /\ Taken /\ \A b \in Bills : BillSound(b)

(* The types of a bill's parts.                                                *)
LEMMA BillTypes ==
  ASSUME BillInv, NEW b \in Bills
  PROVE  /\ total[b] \in Nat /\ card[b] \in Nat /\ drawer[b] \in Nat /\ addition[b] \in Nat
         /\ payment[b] \in [status : {"pending", "settlement"}, amount : Nat]
         /\ Prior(b) = SettledPart(payment[b]) /\ Prior(b) \in Nat /\ Prior(b) <= total[b]
         /\ IsChecks(checks[b]) /\ PaidOf(checks[b]) \in Nat
<1>1. /\ total[b] \in Nat /\ card[b] \in Nat /\ drawer[b] \in Nat /\ addition[b] \in Nat
      /\ payment[b] \in [status : {"pending", "settlement"}, amount : Nat]
  BY DEF BillInv, IInv, Money, Taken
<1>2. Prior(b) = SettledPart(payment[b]) /\ Prior(b) \in Nat
  BY <1>1 DEF Prior, SettledPart
<1>3. Prior(b) <= total[b]
  BY DEF BillInv, IInv, SettledWithinBill
<1>4. IsChecks(checks[b])
  BY DEF BillInv, BillSound, Sound
<1> QED
  BY <1>1, <1>2, <1>3, <1>4, SumsOfChecks

(* Reading the checks of a bill that is an order creates check 1 if there is   *)
(* none: in either case they share the bill and hold what was paid on it.      *)
LEMMA OpenedChecks ==
  ASSUME BillInv, NEW b \in Bills, order[b] # "none"
  PROVE  /\ IsChecks(Opened(b)) /\ Shares(Opened(b), total[b])
         /\ PaidOf(Opened(b)) = PaidOf(checks[b])
         /\ checks[b] = NoChecks => Opened(b) = [n \in {1} |-> NewCheck(total[b])]
         /\ DOMAIN Opened(b) \subseteq Numbers
<1>1. total[b] \in Nat \ {0}
  BY BillTypes DEF BillInv, BillSound, Sound
<1>2. CASE checks[b] = NoChecks
  <2>1. Opened(b) = [n \in {1} |-> NewCheck(total[b])]
    BY <1>2 DEF Opened, WholeBill
  <2>2. DOMAIN Opened(b) \subseteq Numbers
    BY <2>1, BillsAssumption DEF Numbers
  <2> QED
    BY <1>1, <1>2, <2>1, <2>2, OneNewCheck, NoneYet
<1>3. CASE checks[b] # NoChecks
  BY <1>3 DEF Opened, BillInv, BillSound, Sound
<1> QED
  BY <1>2, <1>3

(* A step that concerns one bill, and leaves that bill sound.                  *)
LEMMA OneBillChanges ==
  ASSUME BillInv, IInv', NEW b \in Bills,
         \A c \in Bills \ {b} :
            /\ order'[c] = order[c] /\ total'[c] = total[c] /\ payment'[c] = payment[c]
            /\ checks'[c] = checks[c] /\ card'[c] = card[c] /\ drawer'[c] = drawer[c],
         torn' = torn, Taken', BillSound(b)'
  PROVE  BillInv'
<1>1. ASSUME NEW c \in Bills PROVE BillSound(c)'
  <2>1. CASE c = b
    BY <2>1
  <2>2. CASE c # b
    <3>1. BillSound(c)
      BY DEF BillInv
    <3> QED
      BY <2>2, <3>1 DEF BillSound
  <2> QED
    BY <2>1, <2>2
<1> QED
  BY <1>1 DEF BillInv

(* A handler that only divides the bill anew.                                  *)
LEMMA DividingBills ==
  ASSUME BillInv, NEW b \in Bills, NEW cs, OnlyChecks(b, cs),
         IsChecks(cs), Shares(cs, total[b]), PaidOf(cs) = PaidOf(checks[b])
  PROVE  BillInv'
<1>1. IInv'
  BY UntouchedBills DEF BillInv, OnlyChecks, BillsOnly
<1>2. checks'[b] = cs /\ \A c \in Bills \ {b} : checks'[c] = checks[c]
  BY DEF OnlyChecks, BillInv, Taken
<1>3. Taken'
  BY DEF OnlyChecks, BillInv, Taken
<1>4. BillSound(b)'
  BY <1>2 DEF OnlyChecks, BillInv, BillSound, Sound
<1>5. \A c \in Bills : /\ order'[c] = order[c] /\ total'[c] = total[c] /\ payment'[c] = payment[c]
                       /\ card'[c] = card[c] /\ drawer'[c] = drawer[c] /\ torn' = torn
  BY DEF OnlyChecks
<1> QED
  BY <1>1, <1>2, <1>3, <1>4, <1>5, OneBillChanges

(* Opening, splitting, merging and resetting.                                  *)
LEMMA Dividing ==
  ASSUME BillInv, NEW b \in Bills,
         \/ OpenChecks(b) \/ Reset(b)
         \/ \E n \in Numbers, v \in Amounts(b) : SplitByAmount(b, n, v) \/ SplitItems(b, n, v)
         \/ \E n \in Numbers, parts \in 2..MaxNumber : SplitEvenly(b, n, parts)
         \/ \E target, source \in Numbers : Merge(b, target, source)
  PROVE  BillInv'
<1> DEFINE cs == Opened(b)
<1>1. order[b] # "none"
  BY DEF OpenChecks, Reset, SplitByAmount, SplitItems, SplitEvenly, Merge, OnlyChecks
<1>2. IsChecks(cs) /\ Shares(cs, total[b]) /\ PaidOf(cs) = PaidOf(checks[b])
  BY <1>1, OpenedChecks
<1>3. CASE OpenChecks(b)
  BY <1>2, <1>3, DividingBills DEF OpenChecks
<1>4. ASSUME NEW n \in Numbers, NEW v \in Amounts(b), SplitByAmount(b, n, v) \/ SplitItems(b, n, v)
      PROVE  BillInv'
  <2>1. /\ n \in DOMAIN cs /\ cs[n].status = "open" /\ v < cs[n].alloc - cs[n].paid
        /\ OnlyChecks(b, Divided(cs, n, v))
    <3>1. CASE SplitByAmount(b, n, v)
      BY <3>1 DEF SplitByAmount
    <3>2. CASE SplitItems(b, n, v)
      <4>1. n \in DOMAIN cs /\ Untouched(cs[n]) /\ v < cs[n].alloc /\ OnlyChecks(b, Divided(cs, n, v))
        BY <3>2 DEF SplitItems
      <4>2. cs[n].paid = 0 /\ cs[n].status = "open" /\ cs[n].alloc \in Nat
        BY <1>2, <4>1, SumsOfChecks DEF Untouched
      <4> QED
        BY <4>1, <4>2
    <3> QED
      BY <1>4, <3>1, <3>2
  <2>2. v \in Nat \ {0}
    BY BillsAssumption DEF Amounts
  <2> DEFINE ds == Divided(cs, n, v)
  <2>3. IsChecks(ds) /\ Shares(ds, total[b]) /\ PaidOf(ds) = PaidOf(cs)
    <3> HIDE DEF cs
    <3> QED
      BY <1>2, <2>1, <2>2, Division
  <2> HIDE DEF cs, ds
  <2> QED
    BY <1>2, <2>1, <2>3, DividingBills DEF ds
<1>5. ASSUME NEW n \in Numbers, NEW parts \in 2..MaxNumber, SplitEvenly(b, n, parts)
      PROVE  BillInv'
  <2> DEFINE ds == Evenly(cs, n, parts)
  <2>1. /\ n \in DOMAIN cs /\ Untouched(cs[n]) /\ cs[n].alloc \div parts > 0
        /\ OnlyChecks(b, ds)
    BY <1>5 DEF SplitEvenly, Evenly
  <2>2. parts \in Nat \ {0, 1}
    BY BillsAssumption
  <2>3. IsChecks(ds) /\ Shares(ds, total[b]) /\ PaidOf(ds) = PaidOf(cs)
    <3> HIDE DEF cs
    <3> QED
      BY <1>2, <2>1, <2>2, EvenDivision
  <2> HIDE DEF cs, ds
  <2> QED
    BY <1>2, <2>1, <2>3, DividingBills
<1>6. ASSUME NEW target \in Numbers, NEW source \in Numbers, Merge(b, target, source)
      PROVE  BillInv'
  <2> DEFINE ds == Without([cs EXCEPT ![target].alloc = @ + cs[source].alloc], {source})
  <2>1. /\ target \in DOMAIN cs /\ source \in DOMAIN cs \ {target}
        /\ Untouched(cs[target]) /\ Untouched(cs[source])
        /\ OnlyChecks(b, ds)
    BY <1>6 DEF Merge
  <2>2. IsChecks(ds) /\ Shares(ds, total[b]) /\ PaidOf(ds) = PaidOf(cs)
    <3> HIDE DEF cs
    <3> QED
      BY <1>2, <2>1, Merging
  <2> HIDE DEF cs, ds
  <2> QED
    BY <1>2, <2>1, <2>2, DividingBills
<1>7. CASE Reset(b)
  <2> DEFINE ds == [n \in {1} |-> NewCheck(AllocatedOf(cs))]
  <2>1. (\A n \in DOMAIN cs : Untouched(cs[n])) /\ OnlyChecks(b, ds)
    BY <1>7 DEF Reset
  <2>2. AllocatedOf(cs) = total[b] /\ total[b] \in Nat \ {0}
    BY <1>1, <1>2, BillTypes DEF Shares, BillInv, BillSound, Sound
  <2>3. IsChecks(ds) /\ Shares(ds, total[b]) /\ PaidOf(ds) = 0
    BY <2>2, OneNewCheck
  <2>4. PaidOf(cs) = 0
    <3> HIDE DEF cs
    <3> QED
      BY <1>2, <2>1, UnpaidChecks DEF Untouched
  <2> HIDE DEF cs, ds
  <2> QED
    BY <1>2, <2>1, <2>3, <2>4, DividingBills
<1> QED
  BY <1>3, <1>4, <1>5, <1>6, <1>7

(* The order's own steps: acceptance and its like, and requests for additions, *)
(* touch neither the checks nor the money.                                     *)
LEMMA StatusChanges ==
  ASSUME BillInv, NEW b \in Bills,
         \/ Accept(b) \/ Drop(b) \/ Complete(b) \/ RejectAddition(b)
         \/ \E v \in Amounts(b) : SubmitAddition(b, v)
  PROVE  BillInv'
<1>1. Amounts(b) \subseteq Nat
  BY BillsAssumption DEF Amounts
<1>2. IInv'
  BY <1>1, OrderSteps DEF BillInv
<1>3. UNCHANGED <<total, payment, checks, card, drawer, torn>>
  BY DEF Accept, Drop, Complete, RejectAddition, SubmitAddition
<1>4. Taken'
  BY <1>3 DEF BillInv, Taken
<1>5. \A c \in Bills : order'[c] = order[c] \/ (order[c] # "none" /\ order'[c] # "none")
  BY DEF Accept, Drop, Complete, RejectAddition, SubmitAddition, BillInv, IInv, Money
<1>6. ASSUME NEW c \in Bills PROVE BillSound(c)'
  BY <1>3, <1>5 DEF BillInv, BillSound, Sound
<1> QED
  BY <1>2, <1>4, <1>6 DEF BillInv

(* A bill is held before anything was paid for it, and edited only while its   *)
(* one check, if there is one, is untouched.                                   *)
LEMMA HoldingAndEditing ==
  ASSUME BillInv, NEW b \in Bills, NEW v \in Amounts(b), Hold(b, v) \/ Edit(b, v)
  PROVE  BillInv'
<1>1. v \in Nat \ {0} /\ Amounts(b) \subseteq Nat
  BY BillsAssumption DEF Amounts
<1>2. IInv'
  BY <1>1, OrderSteps DEF BillInv
<1>3. /\ total'[b] = v /\ order'[b] \in {"pending"}
      /\ card' = card /\ drawer' = drawer /\ torn' = torn
      /\ payment'[b].status = payment[b].status /\ payment[b].status = "pending"
  BY DEF Hold, Edit, BillInv, IInv, Money, EditableIsUnsettled
<1>4. \A c \in Bills \ {b} :
            /\ order'[c] = order[c] /\ total'[c] = total[c] /\ payment'[c] = payment[c]
            /\ checks'[c] = checks[c] /\ card'[c] = card[c] /\ drawer'[c] = drawer[c]
  BY DEF Hold, Edit, BillInv, IInv, Money, Taken
<1>5. Taken'
  BY DEF Hold, Edit, BillInv, Taken
<1>6. SettledPart(payment'[b]) = 0 /\ SettledPart(payment[b]) = 0
  BY <1>3 DEF SettledPart
<1>7. CASE Hold(b, v)
  <2>1. checks'[b] = NoChecks /\ checks[b] = NoChecks
    BY <1>7 DEF Hold, BillInv, BillSound, Sound
  <2>2. BillSound(b)'
    BY <1>1, <1>3, <1>6, <2>1 DEF BillInv, BillSound, Sound
  <2> QED
    BY <1>2, <1>3, <1>4, <1>5, <2>2, OneBillChanges
<1>8. CASE Edit(b, v)
  <2>1. /\ Cardinality(Used(b)) <= 1 /\ \A n \in Used(b) : Untouched(checks[b][n])
        /\ checks'[b] = [n \in Used(b) |-> NewCheck(v)]
    BY <1>8 DEF Edit, BillInv, Taken
  <2>2. IsChecks(checks[b]) /\ DOMAIN checks[b] \subseteq Numbers
    BY DEF BillInv, BillSound, Sound
  <2>3. PaidOf(checks[b]) = 0
    BY <2>1, <2>2, UnpaidChecks DEF Untouched, Used
  <2>4. /\ IsChecks(checks'[b]) /\ DOMAIN checks'[b] \subseteq Numbers
        /\ checks'[b] # NoChecks => Shares(checks'[b], v)
        /\ PaidOf(checks'[b]) = 0
    <3>1. Cardinality(Used(b)) \in Nat /\ IsFiniteSet(Used(b))
      BY <2>2, FS_CardinalityType DEF IsChecks, Used
    <3>2. CASE Used(b) = {}
      <4>1. checks'[b] = NoChecks
        BY <2>1, <3>2 DEF NoChecks
      <4> QED
        BY <4>1, NoneYet DEF NoChecks
    <3>3. CASE Used(b) # {}
      <4>1. PICK n : Used(b) = {n}
        BY <2>1, <3>1, <3>3, FS_EmptySet, FS_Singleton
      <4>2. n \in Numbers /\ n \in Nat
        BY <2>2, <4>1 DEF IsChecks, Used
      <4>3. checks'[b] = [k \in {n} |-> NewCheck(v)]
        BY <2>1, <4>1
      <4>4. IsChecks(checks'[b]) /\ Shares(checks'[b], v) /\ PaidOf(checks'[b]) = 0
        BY <1>1, <4>2, <4>3, OneNewCheck
      <4> QED
        BY <4>2, <4>3, <4>4
    <3> QED
      BY <3>2, <3>3
  <2>5. BillSound(b)'
    <3>1. Sound(order'[b], v, payment'[b], checks'[b], card[b], drawer[b], b \notin torn)
      BY <1>1, <1>3, <1>6, <2>3, <2>4 DEF BillInv, BillSound, Sound
    <3> QED
      BY <1>3, <3>1 DEF BillSound
  <2> QED
    BY <1>2, <1>3, <1>4, <1>5, <2>5, OneBillChanges
<1> QED
  BY <1>7, <1>8

(* The branch accepts an addition: total and shares grow by it.                *)
LEMMA Adding ==
  ASSUME BillInv, NEW b \in Bills, AcceptAddition(b)
  PROVE  BillInv'
<1> DEFINE cs == checks[b]
           ds == WithAddition(checks[b], addition[b])
<1>1. IInv'
  <2>1. Amounts(b) \subseteq Nat
    BY BillsAssumption DEF Amounts
  <2> QED
    BY <2>1, OrderSteps DEF BillInv
<1>2. /\ addition[b] \in Nat \ {0} /\ total[b] \in Nat /\ order[b] # "none" /\ total[b] > 0
      /\ total'[b] = total[b] + addition[b] /\ checks'[b] = ds /\ DOMAIN ds \subseteq Numbers
      /\ order' = order /\ payment' = payment /\ card' = card /\ drawer' = drawer /\ torn' = torn
  BY DEF AcceptAddition, TakesAdditions, BillInv, IInv, Money, Taken, BillSound, Sound
<1>3. \A c \in Bills \ {b} : total'[c] = total[c] /\ checks'[c] = checks[c]
  BY DEF AcceptAddition
<1>4. Taken'
  BY DEF AcceptAddition, BillInv, Taken
<1>5. BillSound(b)'
  <2>1. Sound(order[b], total[b], payment[b], cs, card[b], drawer[b], b \notin torn)
    BY DEF BillInv, BillSound
  <2>2. IsChecks(cs) /\ (cs # NoChecks => Shares(cs, total[b]))
    <3> HIDE DEF cs
    <3> QED
      BY <2>1 DEF Sound
  <2>3. CASE cs = NoChecks
    <3>1. ds = cs
      BY <2>3 DEF WithAddition, NoChecks
    <3> QED
      BY <1>2, <2>1, <2>3, <3>1 DEF BillSound, Sound
  <2>4. CASE cs # NoChecks
    <3>1. IsChecks(ds) /\ Shares(ds, total[b] + addition[b]) /\ PaidOf(ds) = PaidOf(cs)
      <4> HIDE DEF cs
      <4> QED
        BY <1>2, <2>2, <2>4, AddingTo DEF cs
    <3> HIDE DEF cs, ds
    <3> QED
      BY <1>2, <2>1, <2>4, <3>1 DEF BillSound, Sound
  <2> QED
    BY <2>3, <2>4
<1> QED
  BY <1>1, <1>2, <1>3, <1>4, <1>5, OneBillChanges

(* Settling a bill as a whole counts into the shift what its payment does not  *)
(* cover: afterwards the payment covers it all, and so does the cash.          *)
LEMMA SettlingTheWhole ==
  ASSUME BillInv, NEW b \in Bills, SettleCash(b)
  PROVE  BillInv'
<1>1. IInv'
  BY OneBillSettled DEF SettleCash, BillInv
<1>2. /\ drawer'[b] = drawer[b] + (total[b] - Prior(b))
      /\ payment'[b] = Settled(b)
      /\ order' = order /\ total' = total /\ checks' = checks /\ card' = card /\ torn' = torn
      /\ \A c \in Bills \ {b} : drawer'[c] = drawer[c] /\ payment'[c] = payment[c]
  BY DEF SettleCash, BillInv, IInv, Money, Taken
<1>3. /\ total[b] \in Nat /\ card[b] \in Nat /\ drawer[b] \in Nat
      /\ Prior(b) = SettledPart(payment[b]) /\ Prior(b) \in Nat /\ Prior(b) <= total[b]
      /\ PaidOf(checks[b]) \in Nat
  BY BillTypes
<1>4. Taken'
  <2>1. drawer'[b] \in Nat
    BY <1>2, <1>3
  <2>2. drawer' \in [Bills -> Nat]
    BY <2>1 DEF SettleCash, BillInv, Taken
  <2> QED
    BY <1>2, <2>2 DEF BillInv, Taken
<1>5. SettledPart(payment'[b]) = total[b]
  BY <1>2 DEF Settled, SettledPart
<1>6. BillSound(b)'
  <2>1. Sound(order[b], total[b], payment'[b], checks[b], card[b], drawer'[b], b \notin torn)
    BY <1>2, <1>3, <1>5 DEF BillInv, BillSound, Sound
  <2> QED
    BY <1>2, <2>1 DEF BillSound
<1> QED
  BY <1>1, <1>2, <1>4, <1>6, OneBillChanges

(* A contribution is recorded on its check and, if it is cash, in the shift;   *)
(* only when all of the bill was cash does it settle the order as well.        *)
LEMMA Contributing ==
  ASSUME BillInv, NEW b \in Bills, NEW n \in Numbers, NEW v \in Amounts(b), NEW cash \in BOOLEAN,
         PayCheck(b, n, v, cash) \/ PayCheckCrash(b, n, v, cash)
  PROVE  BillInv'
<1> DEFINE ds == [checks[b] EXCEPT ![n] = PaidOn(checks[b][n], v)]
<1>1. v \in Nat \ {0}
  BY BillsAssumption DEF Amounts
<1>2. /\ n \in DOMAIN checks[b] /\ checks[b][n].status = "open"
      /\ v <= checks[b][n].alloc - checks[b][n].paid
      /\ checks'[b] = ds /\ DOMAIN checks' = Bills
      /\ drawer'[b] = (IF cash THEN drawer[b] + v ELSE drawer[b])
      /\ card'[b] = (IF cash THEN card[b] ELSE card[b] + v)
      /\ drawer' = [drawer EXCEPT ![b] = drawer'[b]] /\ card' = [card EXCEPT ![b] = card'[b]]
      /\ \A c \in Bills \ {b} : checks'[c] = checks[c]
      /\ order' = order /\ total' = total /\ torn' = torn
  BY DEF PayCheck, PayCheckCrash, Contribute, Payable, Used, BillInv, Taken
<1>3. /\ total[b] \in Nat /\ card[b] \in Nat /\ drawer[b] \in Nat
      /\ Prior(b) = SettledPart(payment[b]) /\ Prior(b) \in Nat /\ Prior(b) <= total[b]
      /\ IsChecks(checks[b]) /\ PaidOf(checks[b]) \in Nat
  BY BillTypes
<1>4. Sound(order[b], total[b], payment[b], checks[b], card[b], drawer[b], b \notin torn)
  BY DEF BillInv, BillSound
<1>5. checks[b] # NoChecks /\ Shares(checks[b], total[b])
  BY <1>2, <1>4 DEF Sound, NoChecks
<1>6. IsChecks(ds) /\ Shares(ds, total[b]) /\ PaidOf(ds) = PaidOf(checks[b]) + v
  BY <1>1, <1>2, <1>3, <1>5, Paying
<1>7. Taken'
  <2>1. drawer'[b] \in Nat /\ card'[b] \in Nat
    BY <1>1, <1>2, <1>3
  <2>2. drawer' \in [Bills -> Nat] /\ card' \in [Bills -> Nat]
    BY <1>2, <2>1 DEF BillInv, Taken
  <2> QED
    BY <1>2, <2>2 DEF Taken
<1>8. drawer'[b] + card'[b] = (drawer[b] + card[b]) + v /\ drawer'[b] >= drawer[b]
  BY <1>1, <1>2, <1>3
<1>9. drawer'[b] \in Nat /\ card'[b] \in Nat
  BY <1>7 DEF Taken
<1>10. DOMAIN ds \subseteq Numbers
  BY <1>4 DEF Sound
<1>11. \/ payment' = payment /\ IInv'
       \/ /\ payment' = [payment EXCEPT ![b] = Settled(b)] /\ IInv'
          /\ PaidOf(checks'[b]) >= total[b] /\ card'[b] = 0
  <2>1. CASE payment' = payment
    BY <2>1, UntouchedBills DEF PayCheck, PayCheckCrash, BillsOnly, BillInv
  <2>2. CASE payment' # payment
    <3>1. PayCheck(b, n, v, cash) /\ Finalizes(b)
      BY <2>2 DEF PayCheckCrash, PayCheck
    <3>2. /\ payment' = [payment EXCEPT ![b] = Settled(b)]
          /\ UNCHANGED <<order, total, addition, group, torn>>
      BY <3>1 DEF PayCheck
    <3>3. IInv'
      BY <3>1, <3>2, OneBillSettled DEF Finalizes, BillInv
    <3> QED
      BY <3>1, <3>2, <3>3 DEF Finalizes
  <2> QED
    BY <2>1, <2>2
<1>12. payment'[b] = payment[b] \/ (payment'[b] = Settled(b) /\ PaidOf(ds) >= total[b] /\ card'[b] = 0)
  <2>1. b \in DOMAIN payment
    BY DEF BillInv, IInv, Money
  <2>2. checks'[b] = ds
    BY <1>2
  <2> HIDE DEF ds
  <2>3. CASE payment' = payment
    BY <2>3
  <2>4. CASE payment' = [payment EXCEPT ![b] = Settled(b)] /\ PaidOf(checks'[b]) >= total[b] /\ card'[b] = 0
    BY <2>1, <2>2, <2>4
  <2> QED
    BY <1>11, <2>3, <2>4
<1>13. \A c \in Bills \ {b} : payment'[c] = payment[c] /\ drawer'[c] = drawer[c] /\ card'[c] = card[c]
  BY <1>2, <1>11 DEF BillInv, IInv, Money, Taken
<1>14. BillSound(b)'
  <2>1. /\ order[b] # "none" /\ total[b] > 0
        /\ drawer[b] + card[b] <= PaidOf(checks[b]) + SettledPart(payment[b])
    BY <1>4, <1>5 DEF Sound
  <2>2. ASSUME b \notin torn
        PROVE  PaidOf(checks[b]) <= drawer[b] + card[b] /\ SettledPart(payment[b]) <= drawer[b]
    BY <1>4, <2>2 DEF Sound
  <2> DEFINE paid == PaidOf(ds)
             part == SettledPart(payment'[b])
  <2>3. paid = PaidOf(checks[b]) + v /\ paid \in Nat
    BY <1>1, <1>3, <1>6
  <2>4. ASSUME b \notin torn PROVE paid <= drawer'[b] + card'[b]
    BY <1>1, <1>3, <1>8, <1>9, <2>2, <2>3, <2>4
  <2>5. /\ part \in Nat /\ drawer'[b] + card'[b] <= paid + part
        /\ b \notin torn => part <= drawer'[b]
    <3>1. CASE payment'[b] = payment[b]
      <4> HIDE DEF paid
      <4> QED
        BY <1>1, <1>3, <1>8, <1>9, <2>1, <2>2, <2>3, <3>1
    <3>2. CASE payment'[b] = Settled(b) /\ paid >= total[b] /\ card'[b] = 0
      <4>1. part = total[b]
        BY <3>2 DEF Settled, SettledPart
      <4>2. ASSUME b \notin torn PROVE drawer'[b] >= total[b]
        <5>1. paid <= drawer'[b] + card'[b]
          BY <2>4, <4>2
        <5> HIDE DEF paid
        <5> QED
          BY <1>3, <1>9, <2>3, <3>2, <5>1
      <4> HIDE DEF part, paid
      <4> QED
        BY <1>1, <1>3, <1>8, <1>9, <2>1, <2>3, <4>1, <4>2
    <3> QED
      BY <1>12, <3>1, <3>2
  <2>6. Sound(order[b], total[b], payment'[b], ds, card'[b], drawer'[b], b \notin torn)
    <3> HIDE DEF ds
    <3> QED
      BY <1>6, <1>10, <2>1, <2>4, <2>5 DEF Sound
  <2> HIDE DEF ds
  <2> QED
    BY <1>2, <2>6 DEF BillSound
<1> QED
  BY <1>2, <1>7, <1>11, <1>13, <1>14, OneBillChanges

(* A bill that can be grouped has one check once it is read, and nothing was   *)
(* paid on it.                                                                 *)
LEMMA GroupableChecks ==
  ASSUME BillInv, NEW b \in Bills, Groupable(b)
  PROVE  /\ order[b] # "none" /\ total[b] \in Nat \ {0}
         /\ SettledPart(payment[b]) = 0 /\ PaidOf(checks[b]) = 0
         /\ IsChecks(Opened(b)) /\ Shares(Opened(b), total[b]) /\ PaidOf(Opened(b)) = 0
         /\ DOMAIN Opened(b) \subseteq Numbers
         /\ \E n \in Nat : /\ DOMAIN Opened(b) = {n} /\ Opened(b)[n].alloc = total[b]
                           /\ Opened(b)[n].paid = 0 /\ Opened(b)[n].status = "open"
<1>1. order[b] # "none" /\ PaidOf(checks[b]) = 0 /\ Cardinality(Used(b)) <= 1 /\ SettledPart(payment[b]) = 0
  BY DEF Groupable, SettledPart
<1>2. total[b] \in Nat \ {0}
  BY <1>1, BillTypes DEF BillInv, BillSound, Sound
<1>3. /\ IsChecks(Opened(b)) /\ Shares(Opened(b), total[b]) /\ PaidOf(Opened(b)) = 0
      /\ checks[b] = NoChecks => Opened(b) = [n \in {1} |-> NewCheck(total[b])]
      /\ DOMAIN Opened(b) \subseteq Numbers
  BY <1>1, OpenedChecks
<1>4. \E n \in Nat : DOMAIN Opened(b) = {n}
  <2>1. CASE checks[b] = NoChecks
    <3>1. DOMAIN Opened(b) = {1} /\ 1 \in Nat
      BY <1>3, <2>1
    <3> QED
      BY <3>1
  <2>2. CASE checks[b] # NoChecks
    <3>1. Opened(b) = checks[b] /\ IsChecks(checks[b])
      BY <1>3, <2>2 DEF Opened
    <3>2. DOMAIN checks[b] # {}
      BY <2>2, <3>1 DEF IsChecks, NoChecks
    <3>3. IsFiniteSet(Used(b)) /\ Cardinality(Used(b)) \in Nat /\ Used(b) # {}
      BY <3>1, <3>2, FS_CardinalityType DEF IsChecks, Used
    <3>4. PICK n : Used(b) = {n}
      BY <1>1, <3>3, FS_EmptySet, FS_Singleton
    <3> QED
      BY <3>1, <3>4 DEF IsChecks, Used
  <2> QED
    BY <2>1, <2>2
<1>5. PICK n \in Nat : DOMAIN Opened(b) = {n}
  BY <1>4
<1>6. Opened(b) = [k \in {n} |-> Opened(b)[k]] /\ Opened(b)[n] \in Check
  BY <1>3, <1>5 DEF IsChecks
<1>7. Opened(b)[n].alloc = total[b] /\ Opened(b)[n].paid = 0
  BY <1>3, <1>5, <1>6, OnlyCheck DEF Shares
<1>8. Opened(b)[n].status = "open"
  BY <1>2, <1>3, <1>5, <1>6, <1>7 DEF Shares, Check
<1> QED
  BY <1>1, <1>2, <1>3, <1>5, <1>7, <1>8

(* A group that is created and not settled has only opened its members' checks.*)
LEMMA OpeningGroups ==
  ASSUME BillInv, NEW S \in SUBSET Bills, GroupLeftOpen(S)
  PROVE  BillInv'
<1>1. IInv'
  BY DEF GroupLeftOpen, BillInv, IInv, Money, EditableIsUnsettled, SettledWithinBill, GroupedIsSettled, Prior
<1>2. Taken'
  BY DEF GroupLeftOpen, BillInv, Taken
<1>3. ASSUME NEW b \in Bills PROVE BillSound(b)'
  <2>1. Sound(order[b], total[b], payment[b], checks[b], card[b], drawer[b], b \notin torn)
    BY DEF BillInv, BillSound
  <2>2. CASE b \in S
    <3>1. Groupable(b) /\ checks'[b] = Opened(b)
      BY <2>2 DEF GroupLeftOpen
    <3>2. /\ order[b] # "none" /\ PaidOf(checks[b]) = 0
          /\ IsChecks(Opened(b)) /\ Shares(Opened(b), total[b]) /\ PaidOf(Opened(b)) = 0
          /\ DOMAIN Opened(b) \subseteq Numbers
      BY <3>1, GroupableChecks
    <3>3. Sound(order[b], total[b], payment[b], checks'[b], card[b], drawer[b], b \notin torn)
      BY <2>1, <3>1, <3>2 DEF Sound
    <3> QED
      BY <3>3 DEF BillSound, GroupLeftOpen
  <2>3. CASE b \notin S
    BY <2>1, <2>3 DEF BillSound, GroupLeftOpen
  <2> QED
    BY <2>2, <2>3
<1> QED
  BY <1>1, <1>2, <1>3 DEF BillInv

(* Its one check, paid in full, holds the whole bill.                          *)
LEMMA PaidInFull ==
  ASSUME BillInv, NEW b \in Bills, Groupable(b),
         NEW ds, ds = [n \in DOMAIN Opened(b) |-> PaidOn(Opened(b)[n], total[b])]
  PROVE  /\ IsChecks(ds) /\ Shares(ds, total[b]) /\ PaidOf(ds) = total[b]
         /\ DOMAIN ds \subseteq Numbers
<1> DEFINE cs == Opened(b)
           due == total[b]
<1>1. /\ due \in Nat \ {0} /\ IsChecks(cs) /\ Shares(cs, due) /\ PaidOf(cs) = 0
      /\ DOMAIN cs \subseteq Numbers
  BY GroupableChecks
<1>2. PICK n \in Nat : /\ DOMAIN cs = {n} /\ cs[n].alloc = due
                       /\ cs[n].paid = 0 /\ cs[n].status = "open"
  BY GroupableChecks
<1>3. ds = [cs EXCEPT ![n] = PaidOn(cs[n], due)]
  BY <1>2
<1>4. n \in DOMAIN cs /\ due <= cs[n].alloc - cs[n].paid /\ DOMAIN ds = DOMAIN cs
  BY <1>1, <1>2
<1> HIDE DEF cs, due
<1>5. IsChecks(ds) /\ Shares(ds, due) /\ PaidOf(ds) = PaidOf(cs) + due
  BY <1>1, <1>2, <1>3, <1>4, Paying
<1> QED
  BY <1>1, <1>4, <1>5 DEF due

(* A settled group pays the one check of each member in full, in cash that is  *)
(* counted into the shift.                                                     *)
LEMMA SettlingGroups ==
  ASSUME BillInv, NEW S \in SUBSET Bills, SettleGroup(S)
  PROVE  BillInv'
<1>1. IInv'
  <2>1. \A b \in S : ~SettlementRefused(b)
    BY DEF SettleGroup
  <2>2. /\ payment' = [b \in Bills |-> IF b \in S THEN Settled(b) ELSE payment[b]]
        /\ group' = [b \in Bills |-> IF b \in S THEN "settled" ELSE group[b]]
        /\ UNCHANGED <<order, total, addition, torn>>
    BY DEF SettleGroup
  <2> QED
    BY <2>1, <2>2, SettlingBills DEF BillInv
<1>2. \A b \in Bills : total[b] \in Nat /\ drawer[b] \in Nat /\ card[b] \in Nat
  BY BillTypes
<1>3. Taken'
  BY <1>2 DEF SettleGroup, BillInv, Taken
<1>4. ASSUME NEW b \in Bills PROVE BillSound(b)'
  <2>1. Sound(order[b], total[b], payment[b], checks[b], card[b], drawer[b], b \notin torn)
    BY DEF BillInv, BillSound
  <2>2. CASE b \in S
    <3> DEFINE cs == Opened(b)
               ds == [n \in DOMAIN cs |-> PaidOn(cs[n], total[b])]
    <3>1. /\ Groupable(b) /\ checks'[b] = ds /\ payment'[b] = Settled(b)
          /\ drawer'[b] = drawer[b] + total[b]
          /\ order' = order /\ total' = total /\ card' = card /\ torn' = torn
      BY <2>2 DEF SettleGroup
    <3>2. /\ order[b] # "none" /\ PaidOf(checks[b]) = 0 /\ total[b] \in Nat \ {0}
          /\ IsChecks(cs) /\ Shares(cs, total[b]) /\ PaidOf(cs) = 0
          /\ SettledPart(payment[b]) = 0 /\ DOMAIN cs \subseteq Numbers
      BY <3>1, GroupableChecks
    <3>6. IsChecks(ds) /\ Shares(ds, total[b]) /\ PaidOf(ds) = total[b] /\ DOMAIN ds \subseteq Numbers
      BY <3>1, PaidInFull
    <3>8. SettledPart(payment'[b]) = total[b]
      BY <3>1, <3>2 DEF Settled, SettledPart
    <3>9. drawer[b] \in Nat /\ card[b] \in Nat /\ drawer[b] + card[b] = 0
      <4>1. drawer[b] \in Nat /\ card[b] \in Nat
        BY BillTypes
      <4> QED
        BY <2>1, <3>2, <4>1 DEF Sound
    <3>10. Sound(order[b], total[b], payment'[b], ds, card[b], drawer'[b], b \notin torn)
      <4> HIDE DEF cs, ds
      <4> QED
        BY <2>1, <3>1, <3>2, <3>6, <3>8, <3>9 DEF Sound
    <3> QED
      BY <3>1, <3>10 DEF BillSound
  <2>3. CASE b \notin S
    BY <2>1, <2>3 DEF BillSound, SettleGroup
  <2> QED
    BY <2>2, <2>3
<1> QED
  BY <1>1, <1>3, <1>4 DEF BillInv

(* A group torn apart pays the checks of the members after the refusal, and    *)
(* counts nothing: the shift holds less than these records say, and no more.   *)
LEMMA TearingSoundGroups ==
  ASSUME BillInv, NEW S \in SUBSET Bills, NEW T \in SUBSET S, NEW ends \in BOOLEAN,
         SettleGroupUnseated(S, T, ends)
  PROVE  BillInv'
<1>1. IInv'
  BY TearingGroups DEF BillInv
<1>2. Taken'
  BY DEF SettleGroupUnseated, BillInv, Taken
<1>3. /\ order' = order /\ total' = total /\ card' = card /\ drawer' = drawer
      /\ torn' = torn \cup S
  BY DEF SettleGroupUnseated
<1>4. ASSUME NEW b \in Bills PROVE BillSound(b)'
  <2>1. Sound(order[b], total[b], payment[b], checks[b], card[b], drawer[b], b \notin torn)
    BY DEF BillInv, BillSound
  <2>2. ASSUME b \in S
        PROVE  /\ order[b] # "none" /\ PaidOf(checks[b]) = 0 /\ total[b] \in Nat \ {0}
               /\ IsChecks(Opened(b)) /\ Shares(Opened(b), total[b]) /\ PaidOf(Opened(b)) = 0
               /\ SettledPart(payment[b]) = 0 /\ DOMAIN Opened(b) \subseteq Numbers
               /\ drawer[b] + card[b] <= 0 /\ b \in torn'
    <3>1. Groupable(b)
      BY <2>2 DEF SettleGroupUnseated
    <3>2. /\ order[b] # "none" /\ PaidOf(checks[b]) = 0 /\ total[b] \in Nat \ {0}
          /\ IsChecks(Opened(b)) /\ Shares(Opened(b), total[b]) /\ PaidOf(Opened(b)) = 0
          /\ SettledPart(payment[b]) = 0 /\ DOMAIN Opened(b) \subseteq Numbers
      BY <3>1, GroupableChecks
    <3>3. drawer[b] + card[b] <= PaidOf(checks[b]) + SettledPart(payment[b])
      BY <2>1 DEF Sound
    <3> QED
      BY <1>3, <2>2, <3>2, <3>3
  <2>3. CASE b \in T
    <3> DEFINE ds == [n \in DOMAIN Opened(b) |-> PaidOn(Opened(b)[n], total[b])]
    <3>1. /\ b \in S /\ Groupable(b) /\ checks'[b] = ds /\ payment'[b] = Settled(b)
      BY <2>3 DEF SettleGroupUnseated
    <3>2. IsChecks(ds) /\ Shares(ds, total[b]) /\ PaidOf(ds) = total[b] /\ DOMAIN ds \subseteq Numbers
      BY <3>1, PaidInFull
    <3>3. SettledPart(payment'[b]) = total[b]
      BY <3>1 DEF Settled, SettledPart
    <3>4. drawer[b] \in Nat /\ card[b] \in Nat
      BY BillTypes
    <3>5. Sound(order[b], total[b], payment'[b], ds, card[b], drawer[b], FALSE)
      <4> HIDE DEF ds
      <4> QED
        BY <2>1, <2>2, <3>1, <3>2, <3>3, <3>4 DEF Sound
    <3> HIDE DEF ds
    <3> QED
      BY <1>3, <2>2, <3>1, <3>5 DEF BillSound, Sound
  <2>4. CASE b \in S \ T
    <3>1. checks'[b] = Opened(b) /\ payment'[b] = payment[b]
      BY <2>4 DEF SettleGroupUnseated
    <3>2. Sound(order[b], total[b], payment[b], Opened(b), card[b], drawer[b], FALSE)
      BY <2>1, <2>2, <2>4 DEF Sound
    <3> QED
      BY <1>3, <2>2, <2>4, <3>1, <3>2 DEF BillSound, Sound
  <2>5. CASE b \notin S
    <3>1. checks'[b] = checks[b] /\ payment'[b] = payment[b] /\ (b \in torn' <=> b \in torn)
      BY <1>3, <2>5 DEF SettleGroupUnseated
    <3> QED
      BY <1>3, <2>1, <3>1 DEF BillSound, Sound
  <2> QED
    BY <2>3, <2>4, <2>5
<1> QED
  BY <1>1, <1>2, <1>4 DEF BillInv

(* No step of any handler breaks the bill's invariant.                        *)
LEMMA NextKeepsBillInv == BillInv /\ [Next]_vars => BillInv'
<1> SUFFICES ASSUME BillInv, [Next]_vars PROVE BillInv'
  OBVIOUS
<1>1. ASSUME NEW S \in SUBSET Bills, GroupLeftOpen(S) \/ SettleGroup(S) PROVE BillInv'
  BY <1>1, OpeningGroups, SettlingGroups
<1>2. ASSUME NEW b \in Bills, NEW n \in Numbers, NEW v \in Amounts(b), NEW cash \in BOOLEAN,
             PayCheck(b, n, v, cash) \/ PayCheckCrash(b, n, v, cash)
      PROVE  BillInv'
  BY <1>2, Contributing
<1>3. CASE UNCHANGED vars
  <2>1. IInv'
    BY <1>3, UntouchedBills DEF vars, BillsOnly, BillInv
  <2> QED
    BY <1>3, <2>1 DEF vars, BillInv, BillSound, Taken
<1>4. ASSUME NEW S \in SUBSET Bills, NEW T \in SUBSET S, NEW ends \in BOOLEAN,
             SettleGroupUnseated(S, T, ends)
      PROVE  BillInv'
  BY <1>4, TearingSoundGroups
<1> QED
  BY <1>1, <1>2, <1>3, <1>4, StatusChanges, HoldingAndEditing, Adding, Dividing, SettlingTheWhole DEF Next

(* Every state of the specification satisfies the bill's invariant.            *)
LEMMA BillsAreSound == Spec => []BillInv
<1>1. Init => BillInv
  <2> SUFFICES ASSUME Init PROVE BillInv
    OBVIOUS
  <2>1. IInv
    BY DEF Init, IInv, Money, EditableIsUnsettled, SettledWithinBill, GroupedIsSettled, Prior
  <2>2. Taken
    BY DEF Init, Taken
  <2>3. ASSUME NEW b \in Bills PROVE BillSound(b)
    <3>1. /\ order[b] = "none" /\ checks[b] = NoChecks /\ card[b] = 0 /\ drawer[b] = 0
          /\ SettledPart(payment[b]) = 0
      BY DEF Init, SettledPart
    <3>2. DOMAIN NoChecks \subseteq Numbers
      BY DEF NoChecks
    <3> QED
      BY <3>1, <3>2, NoneYet DEF BillSound, Sound
  <2> QED
    BY <2>1, <2>2, <2>3 DEF BillInv
<1> QED
  BY <1>1, NextKeepsBillInv, PTL DEF Spec

(* What the tables hold is of the types the code gives them: the numbers of    *)
(* checks stay in their range and amounts never become negative.               *)
THEOREM TypesAreCorrect == Spec => []TypeOK
<1>1. BillInv => TypeOK
  BY DEF BillInv, BillSound, Sound, IsChecks, IInv, Money, Taken, TypeOK
<1> QED
  BY <1>1, BillsAreSound, PTL

(* However a bill is edited, added to, divided, merged and paid, its checks    *)
(* share exactly its total, and each is closed when all of its share is paid.  *)
THEOREM ChecksAreShares == Spec => []ChecksShareTheBill
<1>1. BillInv => ChecksShareTheBill
  BY DEF BillInv, BillSound, Sound, Shares, ChecksShareTheBill, Used
<1> QED
  BY <1>1, BillsAreSound, PTL

(* No merge or reset loses money that was taken for a bill.                    *)
THEOREM MoneyIsOnRecord == Spec => []TakenIsRecorded
<1>1. BillInv => TakenIsRecorded
  BY DEF BillInv, BillSound, Sound, TakenIsRecorded, Prior, SettledPart
<1> QED
  BY <1>1, BillsAreSound, PTL

(* An order is settled in cash only for cash that was counted into a shift,    *)
(* unless it belonged to a group that a refused seating tore apart.            *)
THEOREM SettlementsAreCovered == Spec => []CashCoversSettlement
<1>1. BillInv => CashCoversSettlement
  BY DEF BillInv, BillSound, Sound, CashCoversSettlement, Prior, SettledPart
<1> QED
  BY <1>1, BillsAreSound, PTL
=============================================================================
