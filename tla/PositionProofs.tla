--------------------------- MODULE PositionProofs ---------------------------
(***************************************************************************)
(* What is booked was executed: theorems about PositionBook together with  *)
(* the other writers of its rows (PositionMarks), for every number of      *)
(* sessions and jobs, all fills, prices and holdings, and about the        *)
(* schedules of PaperAlgo, for every plan.  Both are about a sum that      *)
(* changes with every step, so the module begins with what a sum over a    *)
(* finite set is: the folds of the libraries choose an element at a time,  *)
(* and the order they choose does not matter (SumsTakeAny).  The book is   *)
(* exact because a session nets into a row it has locked, and the row is   *)
(* still the one it has read (LockInv); a schedule because one slice is    *)
(* recorded per transaction, under the lock it was sent under (AlgoInv).   *)
(***************************************************************************)
EXTENDS PositionMarks, PaperAlgo, FiniteSetTheorems, WellFoundedInduction, TLAPS

-----------------------------------------------------------------------------
(* Sums.                                                                   *)

Pick(s) == CHOOSE x \in s : TRUE

IntOn(f, S) == \A x \in S : f[x] \in Int

\* What SumFunctionOnSet computes, for every subset of its indices.
Sums(h, f, S) ==
  h = [s \in SUBSET S |-> IF s = {} THEN 0 ELSE f[Pick(s)] + h[s \ {Pick(s)}]]

\* A family of finite sets that is not empty has a set of least size.
LEMMA SmallestSet ==
  ASSUME NEW S, IsFiniteSet(S), NEW T, T \subseteq SUBSET S, T # {}
  PROVE  \E s \in T : \A x \in s : s \ {x} \notin T
<1> DEFINE R == StrictSubsetOrdering(S)
<1>1. IsWellFoundedOn(R, SUBSET S)
  BY FS_FiniteSubsetsOfFinite, FS_StrictSubsetOrderingWellFounded
<1>2. \A s \in SUBSET S : \A x \in s : <<s \ {x}, s>> \in R
  BY DEF StrictSubsetOrdering
<1> HIDE DEF R
<1>3. PICK s \in T : \A t \in T : <<t, s>> \notin R
  BY <1>1, WFMin
<1> QED
  BY <1>2, <1>3

LEMMA PickIn == ASSUME NEW s, s # {} PROVE Pick(s) \in s
BY DEF Pick

LEMMA SumsAt ==
  ASSUME NEW S, NEW f, NEW h, Sums(h, f, S)
  PROVE  /\ h[{}] = 0
         /\ \A s \in SUBSET S : s # {} => h[s] = f[Pick(s)] + h[s \ {Pick(s)}]
BY DEF Sums

\* Sums over a common part of their indices agree where the functions do.
LEMMA SumsAgree ==
  ASSUME NEW S, IsFiniteSet(S), NEW f, NEW h, Sums(h, f, S),
         NEW T \in SUBSET S, NEW g, NEW k, Sums(k, g, T),
         \A x \in T : f[x] = g[x]
  PROVE  \A t \in SUBSET T : h[t] = k[t]
<1> DEFINE Bad == {t \in SUBSET T : h[t] # k[t]}
<1> SUFFICES ASSUME Bad # {} PROVE FALSE
  OBVIOUS
<1>1. IsFiniteSet(T)
  BY FS_Subset
<1>2. PICK t \in Bad : \A x \in t : t \ {x} \notin Bad
  BY <1>1, SmallestSet
<1>3. t \in SUBSET T /\ t \in SUBSET S /\ h[t] # k[t]
  OBVIOUS
<1>4. t # {}
  BY <1>3, SumsAt
<1>5. Pick(t) \in t
  BY <1>4, PickIn
<1>6. h[t \ {Pick(t)}] = k[t \ {Pick(t)}]
  BY <1>2, <1>5
<1>7. h[t] = f[Pick(t)] + h[t \ {Pick(t)}]
  BY <1>3, <1>4, SumsAt
<1>8. k[t] = g[Pick(t)] + k[t \ {Pick(t)}]
  BY <1>3, <1>4, SumsAt
<1> QED
  BY <1>3, <1>5, <1>6, <1>7, <1>8

LEMMA SumsInt ==
  ASSUME NEW S, IsFiniteSet(S), NEW f, IntOn(f, S), NEW h, Sums(h, f, S)
  PROVE  \A s \in SUBSET S : h[s] \in Int
<1>0. h[{}] = 0 /\ \A s \in SUBSET S : s # {} => h[s] = f[Pick(s)] + h[s \ {Pick(s)}]
  BY SumsAt
<1> DEFINE Bad == {s \in SUBSET S : h[s] \notin Int}
<1> SUFFICES ASSUME Bad # {} PROVE FALSE
  OBVIOUS
<1>2. PICK s \in Bad : \A x \in s : s \ {x} \notin Bad
  BY SmallestSet
<1>3. s \in SUBSET S /\ h[s] \notin Int
  OBVIOUS
<1>5. h[{}] \in Int
  BY <1>0
<1>6. s # {}
  BY <1>3, <1>5
<1>7. h[s] = f[Pick(s)] + h[s \ {Pick(s)}]
  BY <1>0, <1>3, <1>6
<1>4. Pick(s) \in s
  BY <1>6, PickIn
<1>8. h[s \ {Pick(s)}] \in Int /\ f[Pick(s)] \in Int
  BY <1>2, <1>4 DEF IntOn
<1> QED
  BY <1>3, <1>7, <1>8

LEMMA Exchange ==
  ASSUME NEW a \in Int, NEW b \in Int, NEW c \in Int
  PROVE  a + (b + c) = b + (a + c)
OBVIOUS

\* The order in which the indices are taken does not matter.
LEMMA SumsTakeAny ==
  ASSUME NEW S, IsFiniteSet(S), NEW f, IntOn(f, S), NEW h, Sums(h, f, S)
  PROVE  \A s \in SUBSET S : \A x \in s : h[s] = f[x] + h[s \ {x}]
<1>0. h[{}] = 0 /\ \A s \in SUBSET S : s # {} => h[s] = f[Pick(s)] + h[s \ {Pick(s)}]
  BY SumsAt
<1> DEFINE Bad == {s \in SUBSET S : ~ \A x \in s : h[s] = f[x] + h[s \ {x}]}
<1> SUFFICES ASSUME Bad # {} PROVE FALSE
  OBVIOUS
<1>1. \A s \in SUBSET S : h[s] \in Int
  BY SumsInt
<1>2. PICK s \in Bad : \A x \in s : s \ {x} \notin Bad
  BY SmallestSet
<1>3. PICK x \in s : h[s] # f[x] + h[s \ {x}]
  OBVIOUS
<1> DEFINE y == Pick(s)
<1>4. y \in s
  BY <1>3, PickIn
<1>5. h[s] = f[y] + h[s \ {y}]
  <2>1. s \in SUBSET S /\ s # {}
    BY <1>3
  <2> QED
    BY <1>0, <2>1
<1> HIDE DEF y
<1>6. x # y
  BY <1>3, <1>5
<1>7. h[s \ {y}] = f[x] + h[(s \ {y}) \ {x}]
  BY <1>2, <1>4, <1>6
<1>8. h[s \ {x}] = f[y] + h[(s \ {x}) \ {y}]
  BY <1>2, <1>4, <1>6
<1>9. (s \ {x}) \ {y} = (s \ {y}) \ {x}
  OBVIOUS
<1>10. f[x] \in Int /\ f[y] \in Int /\ h[(s \ {x}) \ {y}] \in Int
  BY <1>1, <1>4 DEF IntOn
<1>11. f[y] + (f[x] + h[(s \ {x}) \ {y}]) = f[x] + (f[y] + h[(s \ {x}) \ {y}])
  BY <1>10, Exchange
<1> QED
  BY <1>3, <1>5, <1>7, <1>8, <1>9, <1>11, Zenon

\* Partial sums, for the sets of n elements at most.
Upto(n, S) == {s \in SUBSET S : Cardinality(s) <= n}

LEMMA SumsExist ==
  ASSUME NEW S, IsFiniteSet(S), NEW f
  PROVE  \E h : Sums(h, f, S)
<1> DEFINE Value(h, s) == IF s = {} THEN 0 ELSE f[Pick(s)] + h[s \ {Pick(s)}]
           Good(n) == \E h : h = [s \in Upto(n, S) |-> Value(h, s)]
           R == OpToRel(<, Nat)
           Bad == {n \in Nat : ~ Good(n)}
<1>1. \A s \in SUBSET S : IsFiniteSet(s) /\ Cardinality(s) \in Nat
  BY FS_Subset, FS_CardinalityType
<1>2. Good(0)
  <2>1. \A s \in Upto(0, S) : s = {}
    BY <1>1, FS_EmptySet DEF Upto
  <2> DEFINE h == [s \in Upto(0, S) |-> 0]
  <2>2. h = [s \in Upto(0, S) |-> Value(h, s)]
    BY <2>1
  <2> QED
    BY <2>2
<1>3. ASSUME NEW n \in Nat, Good(n) PROVE Good(n + 1)
  <2>1. PICK h : h = [s \in Upto(n, S) |-> Value(h, s)]
    BY <1>3
  <2> DEFINE g == [s \in Upto(n + 1, S) |-> Value(h, s)]
  <2>2. ASSUME NEW s \in Upto(n + 1, S), s # {}
        PROVE  s \ {Pick(s)} \in Upto(n, S)
    BY <1>1, <2>2, PickIn, FS_RemoveElement DEF Upto
  <2>3. Upto(n, S) \subseteq Upto(n + 1, S)
    BY <1>1 DEF Upto
  <2>4. ASSUME NEW s \in Upto(n, S) PROVE g[s] = h[s]
    BY <2>1, <2>3
  <2>5. ASSUME NEW s \in Upto(n + 1, S) PROVE Value(h, s) = Value(g, s)
    BY <2>2, <2>4
  <2>6. g = [s \in Upto(n + 1, S) |-> Value(g, s)]
    <3> HIDE DEF Value
    <3> QED
      BY <2>5
  <2> QED
    BY <2>6
<1>4. Bad = {}
  <2> SUFFICES ASSUME Bad # {} PROVE FALSE
    OBVIOUS
  <2>1. IsWellFoundedOn(R, Nat) /\ Bad \subseteq Nat
    BY NatLessThanWellFounded
  <2>2. \A n \in Nat \ {0} : n - 1 \in Nat /\ <<n - 1, n>> \in R /\ (n - 1) + 1 = n
    BY DEF OpToRel
  <2> HIDE DEF R, Good
  <2>3. PICK n \in Bad : \A m \in Bad : <<m, n>> \notin R
    BY <2>1, WFMin
  <2>4. n \in Nat \ {0}
    BY <1>2
  <2>5. Good(n - 1)
    BY <2>2, <2>3, <2>4
  <2>6. Good((n - 1) + 1)
    BY <1>3, <2>2, <2>4, <2>5
  <2> QED
    BY <2>2, <2>4, <2>6
<1>5. Cardinality(S) \in Nat /\ Upto(Cardinality(S), S) = SUBSET S
  BY FS_Subset, FS_CardinalityType DEF Upto
<1>6. Good(Cardinality(S))
  <2> HIDE DEF Good
  <2> QED
    BY <1>4, <1>5
<1> QED
  BY <1>5, <1>6 DEF Sums

LEMMA SumIsSums ==
  ASSUME NEW S, IsFiniteSet(S), NEW f
  PROVE  \E h : Sums(h, f, S) /\ SumFunctionOnSet(f, S) = h[S]
<1> DEFINE h == CHOOSE h : Sums(h, f, S)
<1>1. Sums(h, f, S)
  BY SumsExist
<1>2. SumFunctionOnSet(f, S) = h[S]
  BY DEF SumFunctionOnSet, FoldFunctionOnSet, MapThenFoldSet, Sums, Pick
<1> QED
  BY <1>1, <1>2

LEMMA SumInt ==
  ASSUME NEW S, IsFiniteSet(S), NEW f, IntOn(f, S)
  PROVE  SumFunctionOnSet(f, S) \in Int
<1>1. PICK h : Sums(h, f, S) /\ SumFunctionOnSet(f, S) = h[S]
  BY SumIsSums
<1> QED
  BY <1>1, SumsInt

\* Two functions that agree on the indices have the same sum.
LEMMA SumSame ==
  ASSUME NEW S, IsFiniteSet(S), NEW f, NEW g, \A x \in S : f[x] = g[x]
  PROVE  SumFunctionOnSet(f, S) = SumFunctionOnSet(g, S)
<1>1. PICK h : Sums(h, f, S) /\ SumFunctionOnSet(f, S) = h[S]
  BY SumIsSums
<1>2. PICK k : Sums(k, g, S) /\ SumFunctionOnSet(g, S) = k[S]
  BY SumIsSums
<1>3. h[S] = k[S]
  BY <1>1, <1>2, SumsAgree
<1> QED
  BY <1>1, <1>2, <1>3

\* Any index may be taken first.
LEMMA SumSplit ==
  ASSUME NEW S, IsFiniteSet(S), NEW f, IntOn(f, S), NEW x \in S
  PROVE  SumFunctionOnSet(f, S) = f[x] + SumFunctionOnSet(f, S \ {x})
<1>1. PICK h : Sums(h, f, S) /\ SumFunctionOnSet(f, S) = h[S]
  BY SumIsSums
<1>2. IsFiniteSet(S \ {x})
  BY FS_RemoveElement
<1>3. PICK k : Sums(k, f, S \ {x}) /\ SumFunctionOnSet(f, S \ {x}) = k[S \ {x}]
  BY <1>2, SumIsSums
<1>4. h[S \ {x}] = k[S \ {x}]
  BY <1>1, <1>3, SumsAgree
<1>5. h[S] = f[x] + h[S \ {x}]
  BY <1>1, SumsTakeAny
<1> QED
  BY <1>1, <1>3, <1>4, <1>5

LEMMA SumEmpty ==
  ASSUME NEW f
  PROVE  SumFunctionOnSet(f, {}) = 0
<1>1. PICK h : Sums(h, f, {}) /\ SumFunctionOnSet(f, {}) = h[{}]
  BY SumIsSums, FS_EmptySet
<1> QED
  BY <1>1, SumsAt

\* A sum moves with the one summand that changes.
LEMMA SumChange ==
  ASSUME NEW S, IsFiniteSet(S), NEW f, IntOn(f, S), NEW g, IntOn(g, S), NEW x \in S,
         \A y \in S \ {x} : f[y] = g[y]
  PROVE  SumFunctionOnSet(g, S) = SumFunctionOnSet(f, S) + g[x] - f[x]
<1> DEFINE T == S \ {x}
<1>1. SumFunctionOnSet(f, S) = f[x] + SumFunctionOnSet(f, T)
  BY SumSplit
<1>2. SumFunctionOnSet(g, S) = g[x] + SumFunctionOnSet(g, T)
  BY SumSplit
<1>3. IsFiniteSet(T) /\ IntOn(f, T)
  BY FS_RemoveElement DEF IntOn
<1>4. SumFunctionOnSet(f, T) = SumFunctionOnSet(g, T)
  BY <1>3, SumSame
<1>5. SumFunctionOnSet(f, T) \in Int
  BY <1>3, SumInt
<1>6. f[x] \in Int /\ g[x] \in Int
  BY DEF IntOn
<1> HIDE DEF T
<1> QED
  BY <1>1, <1>2, <1>4, <1>5, <1>6

\* A sum grows by the summand that is added.
LEMMA SumExtend ==
  ASSUME NEW S, IsFiniteSet(S), NEW f, IntOn(f, S), NEW x, x \notin S,
         NEW T, T = S \cup {x}, NEW g, IntOn(g, T), \A y \in S : f[y] = g[y]
  PROVE  SumFunctionOnSet(g, T) = SumFunctionOnSet(f, S) + g[x]
<1>1. IsFiniteSet(T) /\ T \ {x} = S /\ x \in T
  BY FS_AddElement
<1>2. SumFunctionOnSet(g, T) = g[x] + SumFunctionOnSet(g, S)
  BY <1>1, SumSplit
<1>3. SumFunctionOnSet(f, S) = SumFunctionOnSet(g, S) /\ SumFunctionOnSet(f, S) \in Int
  BY SumSame, SumInt
<1>4. g[x] \in Int
  BY <1>1 DEF IntOn
<1> QED
  BY <1>2, <1>3, <1>4

\* A sum of zeros is zero.
LEMMA SumZeros ==
  ASSUME NEW S, IsFiniteSet(S), NEW f, \A x \in S : f[x] = 0
  PROVE  SumFunctionOnSet(f, S) = 0
<1> DEFINE Bad == {s \in SUBSET S : SumFunctionOnSet(f, s) # 0}
<1> SUFFICES ASSUME Bad # {} PROVE FALSE
  OBVIOUS
<1>1. PICK s \in Bad : \A x \in s : s \ {x} \notin Bad
  BY SmallestSet
<1>2. IsFiniteSet(s) /\ IntOn(f, s) /\ s \subseteq S
  BY FS_Subset DEF IntOn
<1>3. PICK x \in s : TRUE
  BY <1>1, SumEmpty
<1>4. SumFunctionOnSet(f, s) = f[x] + SumFunctionOnSet(f, s \ {x})
  BY <1>2, SumSplit
<1>5. SumFunctionOnSet(f, s \ {x}) = 0
  BY <1>1, <1>2
<1> QED
  BY <1>1, <1>2, <1>4, <1>5

-----------------------------------------------------------------------------
(* The sum of a column over a table of rows.  A column is a function of    *)
(* the row.                                                                *)

Of(v, rs)    == [i \in DOMAIN rs |-> v[rs[i]]]
Total(v, rs) == SumFunction(Of(v, rs))

Units  == [p \in Row |-> p.qty]
Cost   == [p \in Row |-> p.avg_cost * p.qty]
Profit == [p \in Row |-> p.realized]

LEMMA TotalIs ==
  ASSUME NEW v \in [Row -> Int], NEW rs \in Seq(Row)
  PROVE  /\ IsFiniteSet(DOMAIN rs) /\ IntOn(Of(v, rs), DOMAIN rs)
         /\ Total(v, rs) = SumFunctionOnSet(Of(v, rs), DOMAIN rs)
         /\ Total(v, rs) \in Int
<1>1. Len(rs) \in Nat /\ DOMAIN rs = 1..Len(rs) /\ \A i \in DOMAIN rs : rs[i] \in Row
  OBVIOUS
<1>2. IsFiniteSet(DOMAIN rs)
  BY <1>1, FS_Interval
<1>3. IntOn(Of(v, rs), DOMAIN rs)
  BY <1>1 DEF IntOn, Of
<1>4. Total(v, rs) = SumFunctionOnSet(Of(v, rs), DOMAIN rs)
  BY DEF Total, Of, SumFunction
<1> QED
  BY <1>2, <1>3, <1>4, SumInt

LEMMA AppendRow ==
  ASSUME NEW v \in [Row -> Int], NEW rs \in Seq(Row), NEW p \in Row
  PROVE  Total(v, Append(rs, p)) = Total(v, rs) + v[p]
<1> DEFINE n == Len(rs) + 1
           ts == Append(rs, p)
<1>1. /\ ts \in Seq(Row) /\ n \notin DOMAIN rs /\ DOMAIN ts = DOMAIN rs \cup {n}
      /\ ts[n] = p /\ \A i \in DOMAIN rs : ts[i] = rs[i]
  OBVIOUS
<1> HIDE DEF ts, n
<1>2. \A i \in DOMAIN rs : Of(v, rs)[i] = Of(v, ts)[i]
  BY <1>1 DEF Of
<1>3. Of(v, ts)[n] = v[p]
  BY <1>1 DEF Of
<1>4. IntOn(Of(v, ts), DOMAIN ts)
  BY <1>1, TotalIs
<1>5. SumFunctionOnSet(Of(v, ts), DOMAIN ts)
        = SumFunctionOnSet(Of(v, rs), DOMAIN rs) + Of(v, ts)[n]
  <2>1. IntOn(Of(v, rs), DOMAIN rs) /\ IsFiniteSet(DOMAIN rs)
    BY TotalIs
  <2> QED
    BY <1>1, <1>2, <1>4, <2>1, SumExtend
<1>6. Total(v, ts) = Total(v, rs) + v[p]
  BY <1>1, <1>3, <1>5, TotalIs
<1> QED
  BY <1>6 DEF ts

\* One row is written.
LEMMA WriteRow ==
  ASSUME NEW v \in [Row -> Int], NEW rs \in Seq(Row), NEW i \in DOMAIN rs, NEW p \in Row
  PROVE  /\ [rs EXCEPT ![i] = p] \in Seq(Row)
         /\ Total(v, [rs EXCEPT ![i] = p]) = Total(v, rs) + v[p] - v[rs[i]]
<1> DEFINE ts == [rs EXCEPT ![i] = p]
<1>1. /\ ts \in Seq(Row) /\ DOMAIN ts = DOMAIN rs
      /\ ts[i] = p /\ \A j \in DOMAIN rs \ {i} : ts[j] = rs[j]
  OBVIOUS
<1> HIDE DEF ts
<1>2. \A j \in DOMAIN rs \ {i} : Of(v, rs)[j] = Of(v, ts)[j]
  BY <1>1 DEF Of
<1>3. Of(v, ts)[i] = v[p] /\ Of(v, rs)[i] = v[rs[i]]
  BY <1>1 DEF Of
<1>4. SumFunctionOnSet(Of(v, ts), DOMAIN rs)
        = SumFunctionOnSet(Of(v, rs), DOMAIN rs) + Of(v, ts)[i] - Of(v, rs)[i]
  <2>1. IntOn(Of(v, ts), DOMAIN rs) /\ IntOn(Of(v, rs), DOMAIN rs) /\ IsFiniteSet(DOMAIN rs)
    BY <1>1, TotalIs
  <2> QED
    BY <1>2, <2>1, SumChange
<1>5. Total(v, ts) = Total(v, rs) + v[p] - v[rs[i]]
  BY <1>1, <1>3, <1>4, TotalIs
<1> QED
  BY <1>1, <1>5 DEF ts

LEMMA ClosedRow ==
  ASSUME NEW p \in Row
  PROVE  [p EXCEPT !.open = FALSE] \in Row /\ [p EXCEPT !.open = FALSE].qty = p.qty
BY DEF Row

LEMMA Times == ASSUME NEW a \in Int, NEW b \in Int PROVE a * b \in Int
OBVIOUS

\* Closing rows changes none of the sums.
LEMMA CloseRows ==
  ASSUME NEW v \in [Row -> Int], \A p \in Row : v[[p EXCEPT !.open = FALSE]] = v[p],
         NEW rs \in Seq(Row), NEW D
  PROVE  LET ts == [i \in DOMAIN rs |-> IF i \in D THEN [rs[i] EXCEPT !.open = FALSE] ELSE rs[i]]
         IN  ts \in Seq(Row) /\ Total(v, ts) = Total(v, rs)
<1> DEFINE ts == [i \in DOMAIN rs |-> IF i \in D THEN [rs[i] EXCEPT !.open = FALSE] ELSE rs[i]]
<1>1. \A i \in DOMAIN rs : ts[i] \in Row /\ v[ts[i]] = v[rs[i]]
  <2> SUFFICES ASSUME NEW i \in DOMAIN rs PROVE ts[i] \in Row /\ v[ts[i]] = v[rs[i]]
    OBVIOUS
  <2>1. rs[i] \in Row
    OBVIOUS
  <2>2. [rs[i] EXCEPT !.open = FALSE] \in Row
    BY <2>1, ClosedRow
  <2> QED
    BY <2>1, <2>2
<1>2. DOMAIN ts = DOMAIN rs /\ DOMAIN rs = 1..Len(rs) /\ Len(rs) \in Nat
  OBVIOUS
<1>3. ts \in Seq(Row)
  BY <1>1, <1>2
<1> HIDE DEF ts
<1>4. Of(v, ts) = Of(v, rs)
  BY <1>1, <1>2 DEF Of
<1>5. Total(v, ts) = Total(v, rs)
  BY <1>4 DEF Total
<1> QED
  BY <1>3, <1>5 DEF ts

\* The three sums of the book.
LEMMA ColumnTypes ==
  /\ Units \in [Row -> Int] /\ Cost \in [Row -> Int] /\ Profit \in [Row -> Int]
  /\ \A p \in Row : /\ Units[[p EXCEPT !.open = FALSE]] = Units[p]
                    /\ Cost[[p EXCEPT !.open = FALSE]] = Cost[p]
                    /\ Profit[[p EXCEPT !.open = FALSE]] = Profit[p]
<1>1. \A p \in Row : p.avg_cost * p.qty \in Int
  <2>1. \A p \in Row : p.avg_cost \in Int /\ p.qty \in Int
    BY DEF Row
  <2> QED
    BY <2>1, Times
<1>2. Cost \in [Row -> Int]
  BY <1>1 DEF Cost
<1>3. Units \in [Row -> Int] /\ Profit \in [Row -> Int]
  BY DEF Row, Units, Profit
<1>4. ASSUME NEW p \in Row
      PROVE  LET q == [p EXCEPT !.open = FALSE]
             IN  q \in Row /\ q.qty = p.qty /\ q.avg_cost = p.avg_cost /\ q.realized = p.realized
  BY DEF Row
<1>5. ASSUME NEW p \in Row, NEW q \in Row,
             q.qty = p.qty, q.avg_cost = p.avg_cost, q.realized = p.realized
      PROVE  Units[q] = Units[p] /\ Cost[q] = Cost[p] /\ Profit[q] = Profit[p]
  BY <1>5 DEF Units, Cost, Profit
<1> QED
  BY <1>2, <1>3, <1>4, <1>5

LEMMA Columns ==
  ASSUME NEW rs \in Seq(Row)
  PROVE  /\ Quantities(rs) = Total(Units, rs) /\ Quantities(rs) \in Int
         /\ Costs(rs) = Total(Cost, rs) /\ Costs(rs) \in Int
         /\ Profits(rs) = Total(Profit, rs) /\ Profits(rs) \in Int
<1>1. \A i \in DOMAIN rs : rs[i] \in Row
  OBVIOUS
<1>2. [i \in DOMAIN rs |-> rs[i].qty] = Of(Units, rs)
  BY <1>1 DEF Of, Units
<1>3. [i \in DOMAIN rs |-> rs[i].avg_cost * rs[i].qty] = Of(Cost, rs)
  BY <1>1 DEF Of, Cost
<1>4. [i \in DOMAIN rs |-> rs[i].realized] = Of(Profit, rs)
  BY <1>1 DEF Of, Profit
<1>5. Quantities(rs) = Total(Units, rs) /\ Costs(rs) = Total(Cost, rs) /\ Profits(rs) = Total(Profit, rs)
  BY <1>2, <1>3, <1>4 DEF Total, Quantities, Costs, Profits
<1> QED
  BY <1>5, ColumnTypes, TotalIs

-----------------------------------------------------------------------------
(* The arithmetic of a fill.                                               *)

LEMMA SizeIsNat ==
  ASSUME NEW q \in Int
  PROVE  Size(q) \in Nat /\ (q # 0 => Size(q) > 0)
BY DEF Size

LEMMA Product == ASSUME NEW a \in Nat, NEW b \in Nat PROVE a * b \in Nat
OBVIOUS

LEMMA Quotient == ASSUME NEW a \in Nat, NEW b \in Nat \ {0} PROVE a \div b \in Nat
OBVIOUS

LEMMA ExtendedRow ==
  ASSUME NEW p \in Row, NEW f \in [qty : Int \ {0}, price : Nat]
  PROVE  Extended(p, f) \in Row /\ Extended(p, f).qty = p.qty + f.qty
<1> DEFINE total == Size(p.qty) + Size(f.qty)
           worth == p.avg_cost * Size(p.qty) + f.price * Size(f.qty)
<1>1. p.qty \in Int /\ p.avg_cost \in Nat /\ f.qty \in Int /\ f.qty # 0 /\ f.price \in Nat
  BY DEF Row
<1>2. total \in Nat \ {0}
  BY <1>1, SizeIsNat
<1>3. worth \in Nat
  <2>1. p.avg_cost * Size(p.qty) \in Nat /\ f.price * Size(f.qty) \in Nat
    BY <1>1, SizeIsNat, Product
  <2> QED
    BY <2>1
<1>4. worth \div total \in Nat
  <2> HIDE DEF worth, total
  <2> QED
    BY <1>2, <1>3, Quotient
<1>5. Extended(p, f) = [p EXCEPT !.qty = p.qty + f.qty, !.avg_cost = worth \div total]
  BY DEF Extended
<1> HIDE DEF worth, total
<1>6. p.qty + f.qty \in Int
  BY <1>1
<1> QED
  BY <1>4, <1>5, <1>6 DEF Row

LEMMA ReducedRow ==
  ASSUME NEW p \in Row, NEW f \in [qty : Int \ {0}, price : Nat]
  PROVE  Reduced(p, f) \in Row /\ Reduced(p, f).qty = p.qty + f.qty
<1> DEFINE new  == p.qty + f.qty
           gain == Gain(p, f)
           q    == [p EXCEPT !.qty = new, !.realized = @ + gain]
<1>1. p.qty \in Int /\ p.avg_cost \in Nat /\ p.realized \in Int /\ f.qty \in Int /\ f.price \in Nat
  BY DEF Row
<1>2. gain \in Int
  <2>1. Least(Size(p.qty), Size(f.qty)) \in Int
    BY <1>1, SizeIsNat DEF Least
  <2>2. (f.price - p.avg_cost) * Least(Size(p.qty), Size(f.qty)) \in Int
    BY <1>1, <2>1, Times
  <2>3. (IF p.qty > 0 THEN 1 ELSE -1) \in Int
    OBVIOUS
  <2> QED
    BY <2>2, <2>3, Times DEF Gain
<1>3. new \in Int /\ p.realized + gain \in Int
  BY <1>1, <1>2
<1>4. Reduced(p, f) = IF new = 0 THEN [q EXCEPT !.open = FALSE]
                      ELSE IF new * p.qty > 0 THEN q ELSE [q EXCEPT !.avg_cost = f.price]
  BY DEF Reduced
<1> HIDE DEF new, gain
<1>5. q \in Row /\ q.qty = new
  BY <1>3 DEF Row
<1> HIDE DEF q
<1>6. [q EXCEPT !.open = FALSE] \in Row /\ [q EXCEPT !.open = FALSE].qty = new
  BY <1>5, ClosedRow
<1>7. [q EXCEPT !.avg_cost = f.price] \in Row /\ [q EXCEPT !.avg_cost = f.price].qty = new
  BY <1>1, <1>5 DEF Row
<1>8. Reduced(p, f) \in Row /\ Reduced(p, f).qty = new
  BY <1>4, <1>5, <1>6, <1>7
<1> QED
  BY <1>8 DEF new

LEMMA NettedRow ==
  ASSUME NEW p \in Row, NEW f \in [qty : Int \ {0}, price : Nat]
  PROVE  Netted(p, f) \in Row /\ Netted(p, f).qty = p.qty + f.qty
BY ExtendedRow, ReducedRow DEF Netted

LEMMA OpenedRow ==
  ASSUME NEW f \in [qty : Int \ {0}, price : Nat]
  PROVE  Opened(f) \in Row /\ Opened(f).qty = f.qty
BY DEF Opened, Row

\* An adoption writes some columns of the holding over the row.
LEMMA OverwrittenRow ==
  ASSUME NEW p \in Row, NEW was \in Row, NEW h \in [qty : Int \ {0}, price : Nat]
  PROVE  Overwritten(p, was, h) \in Row
<1>1. /\ p.qty \in Int /\ was.qty \in Int /\ h.qty \in Int
      /\ p.avg_cost \in Nat /\ was.avg_cost \in Nat /\ h.price \in Nat
  BY DEF Row
<1> DEFINE s == Column(Sign(h.qty), Sign(was.qty), Sign(p.qty))
           z == Column(Size(h.qty), Size(was.qty), Size(p.qty))
           c == Column(h.price, was.avg_cost, p.avg_cost)
<1>2. s \in Int /\ z \in Int
  BY <1>1, SizeIsNat DEF Column, Sign
<1>3. c \in Nat
  BY <1>1 DEF Column
<1>4. s * z \in Int
  <2> HIDE DEF s, z
  <2> QED
    BY <1>2, Times
<1>5. Overwritten(p, was, h) = [p EXCEPT !.qty = s * z, !.avg_cost = c]
  BY DEF Overwritten
<1> HIDE DEF s, z, c
<1> QED
  BY <1>3, <1>4, <1>5 DEF Row

-----------------------------------------------------------------------------
(* The invariant.                                                          *)

\* A session that nets has locked the row it nets into, which is open and as it has read
\* it; no other session has that lock.
LockInv ==
  \A w \in Workers : pc[w] = "netting" =>
    /\ \A i \in found[w] : rows[i].open
    /\ read[w].id # 0 => read[w].id \in found[w] /\ rows[read[w].id] = read[w].row
    /\ \A x \in Workers \ {w} : pc[x] = "netting" => found[x] \cap found[w] = {}

FillInv == \A w \in Workers : pc[w] # "idle" => fill[w] \in Fills

AdoptInv ==
  adopting.at = "writing" =>
    /\ adopting.read.id \in 0..Len(rows) /\ adopting.read.row \in Row
    /\ adopting.holding \in Holdings

IInv == TypeOK /\ LockInv /\ FillInv /\ AdoptInv /\ FillsConserved
-----------------------------------------------------------------------------
(* Sessions.                                                               *)

LEMMA NoRowIs == NoRow \in [id : {0}, row : Row]
BY DEF NoRow, Row

LEMMA InitInv == MarksInit => IInv
<1> SUFFICES ASSUME MarksInit PROVE IInv
  OBVIOUS
<1> USE FillAssumption, MarkAssumption DEF MarksInit, Init
<1>1. TypeOK
  <2>1. read \in [Workers -> [id : 0..Len(rows), row : Row]]
    BY NoRowIs
  <2> QED
    BY <2>1 DEF TypeOK
<1>2. FillsConserved
  <2>1. DOMAIN rows = {}
    OBVIOUS
  <2> QED
    BY <2>1, SumEmpty DEF FillsConserved, Quantities, SumFunction
<1> QED
  BY <1>1, <1>2 DEF IInv, LockInv, FillInv, AdoptInv, NoHolding

\* Steps that leave the rows alone leave the sum alone.
LEMMA SameRows ==
  ASSUME FillsConserved, rows' = rows, net' = net
  PROVE  FillsConserved'
BY DEF FillsConserved

LEMMA FillSelectInv ==
  ASSUME IInv, NEW w \in Workers, FillSelect(w), UNCHANGED markVars
  PROVE  IInv'
<1> USE FillAssumption, MarkAssumption DEF IInv, markVars, FillSelect
<1>1. TypeOK'
  BY DEF TypeOK, Open
<1>2. LockInv'
  BY DEF TypeOK, LockInv
<1>3. FillInv'
  BY DEF TypeOK, FillInv
<1>4. AdoptInv'
  BY DEF AdoptInv
<1>5. FillsConserved'
  BY SameRows
<1> QED
  BY <1>1, <1>2, <1>3, <1>4, <1>5

LEMMA FillLockInv ==
  ASSUME IInv, NEW w \in Workers, FillLock(w), UNCHANGED markVars
  PROVE  IInv'
<1>1. /\ pc[w] = "waiting" /\ LocksFree(w, found[w]) /\ pc' = [pc EXCEPT ![w] = "netting"]
      /\ found' = [found EXCEPT ![w] = StillOpen(w)]
      /\ UNCHANGED <<rows, begun, net, cash, fill, doomed, adopting>>
  BY DEF FillLock, markVars
<1>2. StillOpen(w) \subseteq found[w] /\ \A i \in StillOpen(w) : rows[i].open
  BY DEF StillOpen, Open
<1>3. PICK r \in [id : 0..Len(rows), row : Row] :
               /\ read' = [read EXCEPT ![w] = r]
               /\ r.id # 0 => r.id \in StillOpen(w) /\ rows[r.id] = r.row
  <2>1. CASE StillOpen(w) = {}
    BY <2>1, NoRowIs DEF FillLock, IInv, TypeOK
  <2>2. CASE StillOpen(w) # {}
    <3>1. PICK i \in StillOpen(w) : read' = [read EXCEPT ![w] = [id |-> i, row |-> rows[i]]]
      BY <2>2 DEF FillLock
    <3>2. i \in 0..Len(rows) /\ rows[i] \in Row
      BY DEF StillOpen, Open, IInv, TypeOK
    <3> DEFINE r == [id |-> i, row |-> rows[i]]
    <3>3. r \in [id : 0..Len(rows), row : Row] /\ r.id = i /\ r.row = rows[i]
      BY <3>2
    <3> QED
      BY <3>1, <3>2, <3>3
  <2> QED
    BY <2>1, <2>2
<1>4. TypeOK'
  <2>1. read' \in [Workers -> [id : 0..Len(rows'), row : Row]]
    BY <1>1, <1>3 DEF IInv, TypeOK
  <2>2. found' \in [Workers -> SUBSET DOMAIN rows']
    BY <1>1, <1>2 DEF IInv, TypeOK
  <2> QED
    BY <1>1, <2>1, <2>2 DEF IInv, TypeOK
<1>5. LockInv'
  <2> SUFFICES ASSUME NEW x \in Workers, pc'[x] = "netting"
               PROVE  /\ \A i \in found'[x] : rows'[i].open
                      /\ read'[x].id # 0 => read'[x].id \in found'[x]
                                            /\ rows'[read'[x].id] = read'[x].row
                      /\ \A y \in Workers \ {x} : pc'[y] = "netting" => found'[y] \cap found'[x] = {}
    BY DEF LockInv
  <2>1. found'[w] = StillOpen(w) /\ \A y \in Workers \ {w} :
          found'[y] = found[y] /\ (pc'[y] = "netting" => pc[y] = "netting" /\ found[y] \cap found[w] = {})
    BY <1>1 DEF IInv, TypeOK, LocksFree
  <2>2. CASE x = w
    <3>1. read'[x] = r
      BY <1>3, <2>2 DEF IInv, TypeOK
    <3> QED
      BY <1>1, <1>2, <1>3, <2>1, <2>2, <3>1
  <2>3. CASE x # w
    <3>1. read'[x] = read[x] /\ pc[x] = "netting" /\ found'[x] = found[x]
      BY <1>1, <1>3, <2>1, <2>3
    <3> QED
      BY <1>1, <1>2, <2>1, <2>3, <3>1 DEF IInv, LockInv
  <2> QED
    BY <2>2, <2>3
<1>6. FillInv'
  BY <1>1 DEF IInv, TypeOK, FillInv
<1>7. AdoptInv'
  BY <1>1 DEF IInv, AdoptInv
<1>8. FillsConserved'
  BY <1>1, SameRows DEF IInv
<1> QED
  BY <1>4, <1>5, <1>6, <1>7, <1>8 DEF IInv

LEMMA FillAbortInv ==
  ASSUME IInv, NEW w \in Workers, FillAbort(w), UNCHANGED markVars
  PROVE  IInv'
<1> USE FillAssumption, MarkAssumption DEF IInv, markVars, FillAbort, FillEnds
<1>1. TypeOK'
  BY DEF TypeOK, NoRow, NoFill, Row
<1>2. LockInv'
  BY DEF TypeOK, LockInv
<1>3. FillInv'
  BY DEF TypeOK, FillInv
<1>4. AdoptInv'
  BY DEF AdoptInv
<1>5. FillsConserved'
  BY SameRows
<1> QED
  BY <1>1, <1>2, <1>3, <1>4, <1>5

\* What a commit writes: a row of its own, or the row it holds with its fill netted in.
LEMMA FillWrites ==
  ASSUME IInv, NEW w \in Workers, FillCommit(w)
  PROVE  /\ fill[w] \in [qty : Int \ {0}, price : Nat] /\ rows \in Seq(Row)
         /\ \/ read[w].id = 0 /\ rows' = Append(rows, Opened(fill[w]))
            \/ /\ read[w].id \in DOMAIN rows /\ read[w].id \in found[w]
               /\ rows[read[w].id].open /\ rows[read[w].id] = read[w].row
               /\ rows' = [rows EXCEPT ![read[w].id] = Netted(rows[read[w].id], fill[w])]
<1>1. fill[w] \in [qty : Int \ {0}, price : Nat] /\ rows \in Seq(Row) /\ read[w].id \in 0..Len(rows)
  BY FillAssumption DEF IInv, TypeOK, FillInv, FillCommit
<1>2. CASE read[w].id = 0
  BY <1>1, <1>2 DEF FillCommit
<1>3. CASE read[w].id # 0
  <2>1. /\ read[w].id \in DOMAIN rows /\ read[w].id \in found[w]
        /\ rows[read[w].id].open /\ rows[read[w].id] = read[w].row
    BY <1>1, <1>3 DEF IInv, LockInv, FillCommit
  <2>2. rows' = [rows EXCEPT ![read[w].id] = Netted(read[w].row, fill[w])]
    BY <1>3 DEF FillCommit
  <2> HIDE DEF Row
  <2> QED
    BY <1>1, <2>1, <2>2
<1> QED
  BY <1>2, <1>3

LEMMA FillMoves ==
  ASSUME IInv, NEW w \in Workers, FillCommit(w)
  PROVE  /\ rows' \in Seq(Row) /\ DOMAIN rows \subseteq DOMAIN rows' /\ Len(rows) <= Len(rows')
         /\ \A i \in DOMAIN rows : i # read[w].id => rows'[i] = rows[i]
         /\ read[w].id # 0 => read[w].id \in found[w] /\ rows[read[w].id].open
         /\ Quantities(rows') = Quantities(rows) + fill[w].qty
<1>1. fill[w] \in [qty : Int \ {0}, price : Nat] /\ rows \in Seq(Row)
  BY FillWrites
<1>2. CASE read[w].id = 0 /\ rows' = Append(rows, Opened(fill[w]))
  <2>1. Opened(fill[w]) \in Row /\ Opened(fill[w]).qty = fill[w].qty
    BY <1>1, OpenedRow
  <2>2. rows' \in Seq(Row)
    BY <1>1, <1>2, <2>1
  <2>3. Total(Units, rows') = Total(Units, rows) + Units[Opened(fill[w])]
    BY <1>1, <1>2, <2>1, AppendRow, ColumnTypes
  <2>4. Quantities(rows') = Quantities(rows) + fill[w].qty
    BY <1>1, <2>1, <2>2, <2>3, Columns DEF Units
  <2> HIDE DEF Row, Opened
  <2> QED
    BY <1>1, <1>2, <2>1, <2>2, <2>4
<1>3. CASE /\ read[w].id \in DOMAIN rows /\ read[w].id \in found[w]
           /\ rows[read[w].id].open /\ rows[read[w].id] = read[w].row
           /\ rows' = [rows EXCEPT ![read[w].id] = Netted(rows[read[w].id], fill[w])]
  <2> DEFINE i == read[w].id
             p == Netted(rows[i], fill[w])
  <2>1. rows[i] \in Row
    BY <1>1, <1>3
  <2>2. p \in Row /\ p.qty = rows[i].qty + fill[w].qty /\ rows[i].qty \in Int /\ fill[w].qty \in Int
    BY <1>1, <2>1, NettedRow DEF Row
  <2> HIDE DEF p
  <2>3. rows' \in Seq(Row) /\ Total(Units, rows') = Total(Units, rows) + Units[p] - Units[rows[i]]
    <3>1. Units \in [Row -> Int] /\ i \in DOMAIN rows /\ rows' = [rows EXCEPT ![i] = p]
      BY <1>3, ColumnTypes DEF p
    <3> QED
      BY <1>1, <2>2, <3>1, WriteRow
  <2>4. Units[p] = p.qty /\ Units[rows[i]] = rows[i].qty
    BY <2>1, <2>2 DEF Units
  <2>5. Quantities(rows') = Quantities(rows) + fill[w].qty
    <3>1. Quantities(rows') = Total(Units, rows') /\ Quantities(rows) = Total(Units, rows)
          /\ Quantities(rows) \in Int
      BY <1>1, <2>3, Columns
    <3> QED
      BY <2>2, <2>3, <2>4, <3>1
  <2>6. DOMAIN rows' = DOMAIN rows /\ Len(rows') = Len(rows)
        /\ \A j \in DOMAIN rows : j # i => rows'[j] = rows[j]
    BY <1>1, <1>3
  <2> QED
    BY <1>1, <1>3, <2>3, <2>5, <2>6
<1> QED
  BY <1>2, <1>3, FillWrites

LEMMA FillMarksInv ==
  ASSUME IInv, NEW w \in Workers, FillMarks(w)
  PROVE  IInv'
<1>0. FillCommit(w)
  BY DEF FillMarks
<1>1. /\ pc[w] = "netting" /\ pc' = [pc EXCEPT ![w] = "idle"]
      /\ fill' = [fill EXCEPT ![w] = NoFill] /\ found' = [found EXCEPT ![w] = {}]
      /\ read' = [read EXCEPT ![w] = NoRow] /\ begun' = begun /\ doomed' = doomed
      /\ adopting' = adopting
      /\ net' = net + fill[w].qty /\ cash' = cash - fill[w].qty * fill[w].price
  BY DEF FillMarks, FillCommit, FillEnds
<1>2. /\ rows' \in Seq(Row) /\ DOMAIN rows \subseteq DOMAIN rows' /\ Len(rows) <= Len(rows')
      /\ \A i \in DOMAIN rows : i # read[w].id => rows'[i] = rows[i]
      /\ read[w].id # 0 => read[w].id \in found[w] /\ rows[read[w].id].open
      /\ Quantities(rows') = Quantities(rows) + fill[w].qty
  BY <1>0, FillMoves
<1>3. TypeOK'
  <2>1. fill[w].qty \in Int /\ fill[w].price \in Nat /\ net \in Int /\ cash \in Int
    BY FillAssumption, <1>1 DEF IInv, TypeOK, FillInv
  <2>2. fill[w].qty * fill[w].price \in Int
    BY <2>1, Times
  <2>3. net' \in Int /\ cash' \in Int
    BY <1>1, <2>1, <2>2
  <2>4. read' \in [Workers -> [id : 0..Len(rows'), row : Row]]
    <3>1. Len(rows) \in Nat /\ Len(rows') \in Nat
      BY <1>2 DEF IInv, TypeOK
    <3>2. \A x : x \in [id : 0..Len(rows), row : Row] \/ x = NoRow
                   => x \in [id : 0..Len(rows'), row : Row]
      BY <1>2, <3>1, NoRowIs
    <3> HIDE DEF Row
    <3> QED
      BY <1>1, <3>2 DEF IInv, TypeOK
  <2>5. found' \in [Workers -> SUBSET DOMAIN rows'] /\ doomed' \subseteq DOMAIN rows'
    BY <1>1, <1>2 DEF IInv, TypeOK
  <2>6. /\ pc' \in [Workers -> {"idle", "waiting", "netting"}] /\ begun' \in 0..MaxFills
        /\ fill' \in [Workers -> Fills \cup {NoFill}]
    BY <1>1 DEF IInv, TypeOK
  <2> QED
    BY <1>2, <2>3, <2>4, <2>5, <2>6 DEF TypeOK
<1>4. LockInv'
  <2> SUFFICES ASSUME NEW x \in Workers, pc'[x] = "netting"
               PROVE  /\ \A i \in found'[x] : rows'[i].open
                      /\ read'[x].id # 0 => read'[x].id \in found'[x]
                                            /\ rows'[read'[x].id] = read'[x].row
                      /\ \A y \in Workers \ {x} : pc'[y] = "netting" => found'[y] \cap found'[x] = {}
    BY DEF LockInv
  <2>1. x # w /\ pc[x] = "netting" /\ found'[x] = found[x] /\ read'[x] = read[x]
    BY <1>1 DEF IInv, TypeOK
  <2>2. found[w] \cap found[x] = {} /\ found[x] \subseteq DOMAIN rows
    BY <1>1, <2>1 DEF IInv, LockInv, TypeOK
  <2>3. 0 \notin DOMAIN rows
    BY DEF IInv, TypeOK
  <2>4. \A i \in found[x] : rows'[i] = rows[i]
    BY <1>2, <2>2, <2>3
  <2>5. \A y \in Workers : pc'[y] = "netting" => pc[y] = "netting" /\ found'[y] = found[y]
    BY <1>1 DEF IInv, TypeOK
  <2> QED
    BY <2>1, <2>4, <2>5 DEF IInv, LockInv
<1>5. FillInv'
  BY <1>1 DEF IInv, TypeOK, FillInv
<1>6. AdoptInv'
  BY <1>1, <1>2 DEF IInv, TypeOK, AdoptInv
<1>7. FillsConserved'
  BY <1>1, <1>2 DEF IInv, FillsConserved
<1> QED
  BY <1>3, <1>4, <1>5, <1>6, <1>7 DEF IInv

LEMMA KillSelectInv ==
  ASSUME IInv, KillSelect, UNCHANGED markVars
  PROVE  IInv'
<1> USE DEF IInv, markVars, KillSelect
<1>1. TypeOK'
  BY DEF TypeOK, Open
<1>2. LockInv'
  BY DEF LockInv
<1>3. FillInv'
  BY DEF FillInv
<1>4. AdoptInv'
  BY DEF AdoptInv
<1>5. FillsConserved'
  BY SameRows
<1> QED
  BY <1>1, <1>2, <1>3, <1>4, <1>5

LEMMA KillCommitInv ==
  ASSUME IInv, KillCommit, UNCHANGED markVars
  PROVE  IInv'
<1>1. /\ doomed' = {} /\ begun' = begun /\ net' = net /\ cash' = cash /\ pc' = pc
      /\ fill' = fill /\ found' = found /\ read' = read /\ adopting' = adopting
      /\ \A w \in Workers : pc[w] = "netting" => found[w] \cap doomed = {}
  BY DEF KillCommit, markVars
<1>2. rows' \in Seq(Row) /\ Quantities(rows') = Quantities(rows)
  <2>1. rows \in Seq(Row)
    BY DEF IInv, TypeOK
  <2>2. rows' \in Seq(Row) /\ Total(Units, rows') = Total(Units, rows)
    BY <2>1, CloseRows, ColumnTypes DEF KillCommit
  <2> QED
    BY <2>1, <2>2, Columns
<1>3. /\ DOMAIN rows' = DOMAIN rows /\ Len(rows') = Len(rows)
      /\ \A i \in DOMAIN rows : i \notin doomed => rows'[i] = rows[i]
  BY <1>2 DEF KillCommit, IInv, TypeOK
<1>4. TypeOK'
  BY <1>1, <1>2, <1>3 DEF IInv, TypeOK
<1>5. LockInv'
  BY <1>1, <1>3 DEF IInv, TypeOK, LockInv
<1>6. FillInv'
  BY <1>1 DEF IInv, FillInv
<1>7. AdoptInv'
  BY <1>1, <1>3 DEF IInv, AdoptInv
<1>8. FillsConserved'
  BY <1>1, <1>2 DEF IInv, FillsConserved
<1> QED
  BY <1>4, <1>5, <1>6, <1>7, <1>8 DEF IInv

-----------------------------------------------------------------------------
(* Jobs and adoptions.                                                     *)

LEMMA JobStepInv ==
  ASSUME IInv, NEW j \in Jobs, JobReads(j) \/ JobWrites(j) \/ JobFails(j)
  PROVE  IInv'
<1>1. UNCHANGED <<vars, adopting>>
  BY DEF JobReads, JobWrites, JobFails
<1>2. TypeOK' /\ LockInv' /\ FillInv' /\ AdoptInv'
  BY <1>1 DEF vars, IInv, TypeOK, LockInv, FillInv, AdoptInv
<1>3. FillsConserved'
  BY <1>1, SameRows DEF IInv, vars
<1> QED
  BY <1>2, <1>3 DEF IInv

LEMMA AdoptReadsInv ==
  ASSUME IInv, AdoptReads
  PROVE  IInv'
<1>1. UNCHANGED vars
  BY DEF AdoptReads
<1>2. TypeOK' /\ LockInv' /\ FillInv'
  BY <1>1 DEF vars, IInv, TypeOK, LockInv, FillInv
<1>3. AdoptInv'
  <2>1. rows' = rows /\ rows \in Seq(Row)
    BY <1>1 DEF vars, IInv, TypeOK
  <2>2. PICK h \in Holdings :
          \/ adopting' = [at |-> "writing", read |-> NoRow, holding |-> h]
          \/ \E i \in Open :
               adopting' = [at |-> "writing", read |-> [id |-> i, row |-> rows[i]], holding |-> h]
    BY DEF AdoptReads
  <2>3. CASE adopting' = [at |-> "writing", read |-> NoRow, holding |-> h]
    BY <2>1, <2>3, NoRowIs DEF AdoptInv
  <2>4. CASE \E i \in Open :
               adopting' = [at |-> "writing", read |-> [id |-> i, row |-> rows[i]], holding |-> h]
    <3>1. \A i \in Open : i \in 0..Len(rows) /\ rows[i] \in Row
      BY <2>1 DEF Open
    <3> QED
      BY <2>1, <2>4, <3>1 DEF AdoptInv
  <2> QED
    BY <2>2, <2>3, <2>4
<1>4. FillsConserved'
  BY <1>1, SameRows DEF IInv, vars
<1> QED
  BY <1>2, <1>3, <1>4 DEF IInv

LEMMA AdoptFailsInv ==
  ASSUME IInv, AdoptFails
  PROVE  IInv'
<1>1. UNCHANGED vars /\ adopting' = NoHolding
  BY DEF AdoptFails
<1>2. TypeOK' /\ LockInv' /\ FillInv'
  BY <1>1 DEF vars, IInv, TypeOK, LockInv, FillInv
<1>3. AdoptInv'
  BY <1>1 DEF AdoptInv, NoHolding
<1>4. FillsConserved'
  BY <1>1, SameRows DEF IInv, vars
<1> QED
  BY <1>2, <1>3, <1>4 DEF IInv

LEMMA AdoptWritesInv ==
  ASSUME IInv, AdoptWrites
  PROVE  IInv'
<1> DEFINE i == adopting.read.id
           p == Overwritten(rows[i], adopting.read.row, adopting.holding)
<1>1. /\ begun' = begun /\ pc' = pc /\ fill' = fill /\ found' = found /\ read' = read
      /\ doomed' = doomed /\ adopting' = NoHolding /\ i \in Unlocked \cup {0}
      /\ net' = net + Quantities(rows') - Quantities(rows)
      /\ cash' = cash - Costs(rows') + Costs(rows)
  BY DEF AdoptWrites
<1>2. /\ rows \in Seq(Row) /\ i \in 0..Len(rows) /\ adopting.read.row \in Row
      /\ adopting.holding \in [qty : Int \ {0}, price : Nat]
  BY MarkAssumption DEF AdoptWrites, IInv, TypeOK, AdoptInv
<1>3. /\ rows' \in Seq(Row) /\ DOMAIN rows \subseteq DOMAIN rows' /\ Len(rows) <= Len(rows')
      /\ \A j \in DOMAIN rows : j # i => rows'[j] = rows[j]
  <2>1. CASE i = 0
    <3>1. rows' = Append(rows, Opened(adopting.holding))
      BY <2>1 DEF AdoptWrites
    <3>2. Opened(adopting.holding) \in Row
      BY <1>2, OpenedRow
    <3> QED
      BY <1>2, <3>1, <3>2
  <2>2. CASE i # 0
    <3>1. rows' = [rows EXCEPT ![i] = p]
      BY <2>2 DEF AdoptWrites
    <3>2. rows[i] \in Row
      BY <1>2, <2>2
    <3>3. p \in Row
      BY <1>2, <3>2, OverwrittenRow
    <3> HIDE DEF p
    <3> QED
      BY <1>2, <2>2, <3>1, <3>3
  <2> QED
    BY <2>1, <2>2
<1> HIDE DEF i, p
<1>4. /\ Quantities(rows) \in Int /\ Quantities(rows') \in Int
      /\ Costs(rows) \in Int /\ Costs(rows') \in Int
  BY <1>2, <1>3, Columns
<1>5. TypeOK'
  <2>1. net' \in Int /\ cash' \in Int
    BY <1>1, <1>4 DEF IInv, TypeOK
  <2> QED
    BY <1>1, <1>3, <2>1 DEF IInv, TypeOK
<1>6. LockInv'
  <2>1. \A w \in Workers : pc[w] = "netting" => i \notin found[w]
    BY <1>1, <1>2 DEF Unlocked, IInv, TypeOK
  <2>2. \A w \in Workers : pc[w] = "netting" => \A j \in found[w] : rows'[j] = rows[j]
    BY <1>3, <2>1 DEF IInv, TypeOK
  <2> QED
    BY <1>1, <2>2 DEF IInv, LockInv
<1>7. FillInv'
  BY <1>1 DEF IInv, FillInv
<1>8. AdoptInv'
  BY <1>1 DEF AdoptInv, NoHolding
<1>9. FillsConserved'
  BY <1>1, <1>4 DEF IInv, FillsConserved
<1> QED
  BY <1>5, <1>6, <1>7, <1>8, <1>9 DEF IInv

LEMMA StutterInv ==
  ASSUME IInv, UNCHANGED bookVars
  PROVE  IInv'
<1>1. TypeOK' /\ LockInv' /\ FillInv' /\ AdoptInv'
  BY DEF bookVars, markVars, vars, IInv, TypeOK, LockInv, FillInv, AdoptInv
<1>2. FillsConserved'
  BY SameRows DEF IInv, bookVars, vars
<1> QED
  BY <1>1, <1>2 DEF IInv

LEMMA StepInv ==
  ASSUME IInv, [MarksNext]_bookVars
  PROVE  IInv'
<1>1. ASSUME NEW w \in Workers, FillMarks(w) PROVE IInv'
  BY <1>1, FillMarksInv
<1>2. ASSUME NEW w \in Workers, FillSelect(w), UNCHANGED markVars PROVE IInv'
  BY <1>2, FillSelectInv
<1>3. ASSUME NEW w \in Workers, FillLock(w), UNCHANGED markVars PROVE IInv'
  BY <1>3, FillLockInv
<1>4. ASSUME NEW w \in Workers, FillAbort(w), UNCHANGED markVars PROVE IInv'
  BY <1>4, FillAbortInv
<1>5. CASE KillSelect /\ UNCHANGED markVars
  BY <1>5, KillSelectInv
<1>6. CASE KillCommit /\ UNCHANGED markVars
  BY <1>6, KillCommitInv
<1>7. ASSUME NEW j \in Jobs, JobReads(j) \/ JobWrites(j) \/ JobFails(j) PROVE IInv'
  BY <1>7, JobStepInv
<1>8. CASE AdoptReads
  BY <1>8, AdoptReadsInv
<1>9. CASE AdoptWrites
  BY <1>9, AdoptWritesInv
<1>10. CASE AdoptFails
  BY <1>10, AdoptFailsInv
<1>11. CASE UNCHANGED bookVars
  BY <1>11, StutterInv
<1> QED
  BY <1>1, <1>2, <1>3, <1>4, <1>5, <1>6, <1>7, <1>8, <1>9, <1>10, <1>11 DEF MarksNext, Sessions

LEMMA InductiveInv == MarksSpec => []IInv
<1>1. MarksInit => IInv
  BY InitInv
<1>2. IInv /\ [MarksNext]_bookVars => IInv'
  BY StepInv
<1> QED
  BY <1>1, <1>2, PTL DEF MarksSpec

-----------------------------------------------------------------------------
(* Money.  The model's average is a natural number; the code's is a        *)
(* Decimal.  What follows is about fills whose average is not rounded.     *)

\* The average a session is about to store is worth what was paid.
ExactAverages ==
  \A w \in Workers :
    LET p == read[w].row
        f == fill[w]
    IN  pc[w] = "netting" /\ read[w].id # 0 /\ p.qty * f.qty >= 0 =>
          Extended(p, f).avg_cost * (Size(p.qty) + Size(f.qty))
            = p.avg_cost * Size(p.qty) + f.price * Size(f.qty)

LEMMA SameSign ==
  ASSUME NEW q \in Int, NEW f \in Int \ {0}, q * f >= 0
  PROVE  (q >= 0 /\ f > 0) \/ (q <= 0 /\ f < 0)
OBVIOUS

LEMMA OtherSign ==
  ASSUME NEW q \in Int, NEW f \in Int, q * f < 0
  PROVE  (q > 0 /\ f < 0) \/ (q < 0 /\ f > 0)
OBVIOUS

LEMMA ExtendMoney ==
  ASSUME NEW a \in Int, NEW b \in Int, NEW c \in Int, NEW q \in Int, NEW f \in Int \ {0},
         q * f >= 0, b * (Size(q) + Size(f)) = a * Size(q) + c * Size(f)
  PROVE  b * (q + f) = a * q + c * f
<1>1. CASE q >= 0 /\ f > 0
  BY <1>1 DEF Size
<1>2. CASE q <= 0 /\ f < 0
  <2>1. Size(q) = -q /\ Size(f) = -f
    BY <1>2 DEF Size
  <2>2. b * (Size(q) + Size(f)) = -(b * (q + f))
    BY <2>1
  <2> QED
    BY <2>1, <2>2
<1> QED
  BY <1>1, <1>2, SameSign

\* The gain and the new average of a fill that reduces, closes or flips a position.
GainAt(a, c, q, f)  == (c - a) * Least(Size(q), Size(f)) * (IF q > 0 THEN 1 ELSE -1)
BasisAt(a, c, q, f) == IF q + f = 0 \/ (q + f) * q > 0 THEN a ELSE c

Balanced(a, c, q, f) ==
  GainAt(a, c, q, f) = BasisAt(a, c, q, f) * (q + f) - a * q - f * c

LEMMA ReduceMoney ==
  ASSUME NEW a \in Int, NEW c \in Int, NEW q \in Int, NEW f \in Int, q * f < 0
  PROVE  Balanced(a, c, q, f)
<1> DEFINE new == q + f
<1>1. CASE q > 0 /\ f < 0
  <2>1. Size(q) = q /\ Size(f) = -f
    BY <1>1 DEF Size
  <2>2. new * q > 0 <=> new > 0
    BY <1>1
  <2>3. Least(q, -f) = IF new > 0 THEN -f ELSE q
    BY <1>1 DEF Least
  <2>4. CASE new >= 0
    BY <1>1, <2>1, <2>2, <2>3, <2>4 DEF GainAt, BasisAt, Balanced
  <2>5. CASE new < 0
    BY <1>1, <2>1, <2>2, <2>3, <2>5 DEF GainAt, BasisAt, Balanced
  <2> QED
    BY <2>4, <2>5
<1>2. CASE q < 0 /\ f > 0
  <2>1. Size(q) = -q /\ Size(f) = f
    BY <1>2 DEF Size
  <2>2. new * q > 0 <=> new < 0
    BY <1>2
  <2>3. Least(-q, f) = IF new < 0 THEN f ELSE -q
    BY <1>2 DEF Least
  <2>4. CASE new < 0
    BY <1>2, <2>1, <2>2, <2>3, <2>4 DEF GainAt, BasisAt, Balanced
  <2>5. CASE new = 0
    BY <1>2, <2>1, <2>2, <2>3, <2>5 DEF GainAt, BasisAt, Balanced
  <2>6. CASE new > 0
    BY <1>2, <2>1, <2>2, <2>3, <2>6 DEF GainAt, BasisAt, Balanced
  <2> QED
    BY <2>4, <2>5, <2>6
<1> QED
  BY <1>1, <1>2, OtherSign

\* What a fill brings in is realized or stays in the cost basis.
LEMMA NettedMoney ==
  ASSUME NEW p \in Row, NEW f \in [qty : Int \ {0}, price : Nat],
         p.qty * f.qty >= 0 =>
           Extended(p, f).avg_cost * (Size(p.qty) + Size(f.qty))
             = p.avg_cost * Size(p.qty) + f.price * Size(f.qty)
  PROVE  Netted(p, f).realized
           = p.realized - f.qty * f.price
               + Netted(p, f).avg_cost * Netted(p, f).qty - p.avg_cost * p.qty
<1> DEFINE a == p.avg_cost
           q == p.qty
           r == p.realized
           c == f.price
           d == f.qty
<1>1. a \in Int /\ q \in Int /\ r \in Int /\ c \in Int /\ d \in Int \ {0}
  BY DEF Row
<1>2. CASE q * d >= 0
  <2> DEFINE b == Extended(p, f).avg_cost
  <2>1. Netted(p, f) = Extended(p, f) /\ Extended(p, f).qty = q + d /\ b \in Int
    BY <1>2, ExtendedRow DEF Netted, Row
  <2>2. Extended(p, f).realized = r
    BY DEF Extended, Row
  <2>3. b * (Size(q) + Size(d)) = a * Size(q) + c * Size(d)
    BY <1>2
  <2> HIDE DEF a, q, r, c, d, b
  <2>4. b * (q + d) = a * q + c * d
    BY <1>1, <1>2, <2>1, <2>3, ExtendMoney
  <2>5. r = r - d * c + b * (q + d) - a * q
    BY <1>1, <2>4
  <2> QED
    BY <2>1, <2>2, <2>5 DEF a, q, r, c, d, b
<1>3. CASE ~ (q * d >= 0)
  <2> DEFINE gain == (c - a) * Least(Size(q), Size(d)) * (IF q > 0 THEN 1 ELSE -1)
             n    == Reduced(p, f)
  <2>1. Netted(p, f) = n /\ n.qty = q + d
    BY <1>3, ReducedRow DEF Netted
  <2>2. /\ n.realized = r + gain
        /\ n.avg_cost = IF q + d = 0 \/ (q + d) * q > 0 THEN a ELSE c
    BY DEF Reduced, Gain, Row
  <2>3. gain \in Int
    <3>1. Least(Size(q), Size(d)) \in Int
      BY <1>1, SizeIsNat DEF Least
    <3>2. (c - a) * Least(Size(q), Size(d)) \in Int
      BY <1>1, <3>1, Times
    <3> QED
      BY <3>2, Times
  <2>4. q * d < 0
    <3>1. q * d \in Int
      BY <1>1, Times
    <3> QED
      BY <1>3, <3>1
  <2>5. gain = n.avg_cost * (q + d) - a * q - d * c
    <3> HIDE DEF a, q, r, c, d, n
    <3>1. GainAt(a, c, q, d) = BasisAt(a, c, q, d) * (q + d) - a * q - d * c
      <4>1. Balanced(a, c, q, d)
        BY <1>1, <2>4, ReduceMoney
      <4> QED
        BY <4>1 DEF Balanced
    <3>2. gain = GainAt(a, c, q, d)
      BY DEF GainAt
    <3>3. n.avg_cost = BasisAt(a, c, q, d)
      BY <2>2 DEF BasisAt
    <3> HIDE DEF gain
    <3> QED
      BY <3>1, <3>2, <3>3
  <2>6. n.avg_cost \in Int
    BY <1>1, <2>2
  <2> HIDE DEF gain
  <2>7. r + gain = r - d * c + n.avg_cost * (q + d) - a * q
    <3>1. /\ n.avg_cost * (q + d) \in Int /\ a * q \in Int /\ d * c \in Int
      BY <1>1, <2>6, Times
    <3> HIDE DEF a, q, r, c, d, n
    <3> QED
      BY <1>1, <2>3, <2>5, <3>1
  <2> QED
    BY <2>1, <2>2, <2>7
<1> QED
  BY <1>2, <1>3

LEMMA FillPays ==
  ASSUME IInv, ExactAverages, NEW w \in Workers, FillCommit(w)
  PROVE  Profits(rows') = Profits(rows) - fill[w].qty * fill[w].price + Costs(rows') - Costs(rows)
<1> DEFINE f == fill[w]
           m == f.qty * f.price
<1>1. f \in [qty : Int \ {0}, price : Nat] /\ rows \in Seq(Row) /\ m \in Int
  BY FillWrites, Times
<1>2. rows' \in Seq(Row)
  BY FillMoves
<1>3. /\ Profits(rows) = Total(Profit, rows) /\ Profits(rows') = Total(Profit, rows')
      /\ Costs(rows) = Total(Cost, rows) /\ Costs(rows') = Total(Cost, rows')
      /\ Profits(rows) \in Int /\ Costs(rows) \in Int
  BY <1>1, <1>2, Columns
<1>4. CASE read[w].id = 0 /\ rows' = Append(rows, Opened(f))
  <2>1. Opened(f) \in Row
    BY <1>1, OpenedRow
  <2>2. Profit[Opened(f)] = 0 /\ Cost[Opened(f)] = f.price * f.qty
    BY <2>1 DEF Profit, Cost, Opened
  <2>3. f.price * f.qty = m
    BY <1>1
  <2>4. /\ Total(Profit, rows') = Total(Profit, rows) + Profit[Opened(f)]
        /\ Total(Cost, rows') = Total(Cost, rows) + Cost[Opened(f)]
    BY <1>1, <1>4, <2>1, AppendRow, ColumnTypes
  <2> HIDE DEF m
  <2>5. Profits(rows') = Profits(rows) - m + Costs(rows') - Costs(rows)
    BY <1>1, <1>3, <2>2, <2>3, <2>4
  <2> QED
    BY <2>5 DEF m
<1>5. CASE /\ read[w].id \in DOMAIN rows /\ read[w].id \in found[w]
           /\ rows[read[w].id].open /\ rows[read[w].id] = read[w].row
           /\ rows' = [rows EXCEPT ![read[w].id] = Netted(rows[read[w].id], f)]
  <2> DEFINE i == read[w].id
             o == rows[i]
             p == Netted(rows[i], f)
  <2>1. o \in Row /\ p \in Row
    BY <1>1, <1>5, NettedRow
  <2>2. p.realized = o.realized - m + p.avg_cost * p.qty - o.avg_cost * o.qty
    <3>1. pc[w] = "netting" /\ i # 0 /\ o = read[w].row
      BY <1>1, <1>5 DEF FillCommit
    <3>2. o.qty * f.qty >= 0 =>
            Extended(o, f).avg_cost * (Size(o.qty) + Size(f.qty))
              = o.avg_cost * Size(o.qty) + f.price * Size(f.qty)
      BY <3>1 DEF ExactAverages
    <3> HIDE DEF o, f
    <3> QED
      BY <1>1, <2>1, <3>2, NettedMoney DEF p, o
  <2>3. /\ Profit[p] = p.realized /\ Profit[o] = o.realized
        /\ Cost[p] = p.avg_cost * p.qty /\ Cost[o] = o.avg_cost * o.qty
    BY <2>1 DEF Profit, Cost
  <2>4. Profit[o] \in Int /\ Cost[p] \in Int /\ Cost[o] \in Int
    BY <2>1, ColumnTypes
  <2> HIDE DEF p
  <2>5. /\ Total(Profit, rows') = Total(Profit, rows) + Profit[p] - Profit[o]
        /\ Total(Cost, rows') = Total(Cost, rows) + Cost[p] - Cost[o]
    <3>1. /\ Profit \in [Row -> Int] /\ Cost \in [Row -> Int] /\ i \in DOMAIN rows
          /\ rows' = [rows EXCEPT ![i] = p] /\ rows \in Seq(Row)
      BY <1>1, <1>5, ColumnTypes DEF p
    <3>2. Total(Profit, rows') = Total(Profit, rows) + Profit[p] - Profit[rows[i]]
      BY ONLY <2>1, <3>1, WriteRow
    <3>3. Total(Cost, rows') = Total(Cost, rows) + Cost[p] - Cost[rows[i]]
      BY ONLY <2>1, <3>1, WriteRow
    <3> QED
      BY <3>2, <3>3
  <2> HIDE DEF m, o
  <2>6. Profit[p] = Profit[o] - m + Cost[p] - Cost[o]
    BY <2>2, <2>3
  <2>7. Profits(rows') = Profits(rows) - m + Costs(rows') - Costs(rows)
    BY <1>1, <1>3, <2>4, <2>5, <2>6
  <2> QED
    BY <2>7 DEF m
<1> QED
  BY <1>4, <1>5, FillWrites

LEMMA MoneyStep ==
  ASSUME IInv, ExactAverages, PnLConserved, [MarksNext]_bookVars
  PROVE  PnLConserved'
<1>1. ASSUME NEW w \in Workers, FillMarks(w) PROVE PnLConserved'
  <2>1. FillCommit(w)
    BY <1>1 DEF FillMarks
  <2>2. cash' = cash - fill[w].qty * fill[w].price
    BY <2>1 DEF FillCommit
  <2>3. Profits(rows') = Profits(rows) - fill[w].qty * fill[w].price + Costs(rows') - Costs(rows)
    BY <2>1, FillPays
  <2>4. fill[w].qty * fill[w].price \in Int
    BY <2>1, FillWrites, Times
  <2>5. rows' \in Seq(Row) /\ rows \in Seq(Row) /\ cash \in Int
    BY <2>1, FillMoves DEF IInv, TypeOK
  <2>6. Costs(rows) \in Int /\ Costs(rows') \in Int
    BY <2>5, Columns
  <2> QED
    BY <2>2, <2>3, <2>4, <2>5, <2>6 DEF PnLConserved
<1>2. CASE KillCommit /\ UNCHANGED markVars
  <2>1. rows \in Seq(Row) /\ cash' = cash
    BY <1>2 DEF IInv, TypeOK, KillCommit
  <2>2. /\ rows' \in Seq(Row) /\ Total(Profit, rows') = Total(Profit, rows)
        /\ Total(Cost, rows') = Total(Cost, rows)
    BY <1>2, <2>1, CloseRows, ColumnTypes DEF KillCommit
  <2> QED
    BY <2>1, <2>2, Columns DEF PnLConserved
<1>3. CASE AdoptWrites
  <2> DEFINE i == adopting.read.id
             p == Overwritten(rows[i], adopting.read.row, adopting.holding)
  <2>1. /\ rows \in Seq(Row) /\ i \in 0..Len(rows) /\ adopting.read.row \in Row /\ cash \in Int
        /\ adopting.holding \in [qty : Int \ {0}, price : Nat]
        /\ cash' = cash - Costs(rows') + Costs(rows)
    BY <1>3, MarkAssumption DEF AdoptWrites, IInv, TypeOK, AdoptInv
  <2>2. rows' \in Seq(Row) /\ Total(Profit, rows') = Total(Profit, rows)
    <3>1. CASE i = 0
      <4>1. rows' = Append(rows, Opened(adopting.holding))
        BY <1>3, <3>1 DEF AdoptWrites
      <4>2. Opened(adopting.holding) \in Row
        BY <2>1, OpenedRow
      <4>3. Profit[Opened(adopting.holding)] = 0
        BY <4>2 DEF Profit, Opened
      <4>4. Total(Profit, rows') = Total(Profit, rows) + 0
        BY <2>1, <4>1, <4>2, <4>3, AppendRow, ColumnTypes
      <4>5. Total(Profit, rows) \in Int
        BY <2>1, ColumnTypes, TotalIs
      <4> HIDE DEF Opened
      <4> QED
        BY <2>1, <4>1, <4>2, <4>4, <4>5
    <3>2. CASE i # 0
      <4>1. rows' = [rows EXCEPT ![i] = p] /\ i \in DOMAIN rows
        BY <1>3, <2>1, <3>2 DEF AdoptWrites
      <4>2. rows[i] \in Row
        BY <2>1, <4>1
      <4>3. p \in Row /\ p.realized = rows[i].realized
        BY <2>1, <4>2, OverwrittenRow DEF Overwritten, Row
      <4>4. Profit[p] = Profit[rows[i]] /\ Profit[rows[i]] \in Int
        BY <4>2, <4>3, ColumnTypes DEF Profit
      <4> HIDE DEF p
      <4>5. rows' \in Seq(Row) /\ Total(Profit, rows') = Total(Profit, rows) + Profit[p] - Profit[rows[i]]
        <5>1. Profit \in [Row -> Int]
          BY ColumnTypes
        <5> QED
          BY <2>1, <4>1, <4>3, <5>1, WriteRow
      <4>6. Total(Profit, rows) \in Int
        BY <2>1, ColumnTypes, TotalIs
      <4> QED
        BY <4>4, <4>5, <4>6
    <3> QED
      BY <3>1, <3>2
  <2>3. Profits(rows') = Profits(rows) /\ Costs(rows) \in Int /\ Costs(rows') \in Int
    BY <2>1, <2>2, Columns
  <2> QED
    BY <2>1, <2>3 DEF PnLConserved
<1>4. CASE rows' = rows /\ cash' = cash
  BY <1>4 DEF PnLConserved
<1> QED
  BY <1>1, <1>2, <1>3, <1>4
     DEF MarksNext, Sessions, FillSelect, FillLock, FillAbort, KillSelect, JobReads, JobWrites,
         JobFails, AdoptReads, AdoptFails, bookVars, vars

LEMMA MoneyInit == MarksInit => PnLConserved
<1> SUFFICES ASSUME MarksInit PROVE PnLConserved
  OBVIOUS
<1>1. rows = <<>> /\ cash = 0
  BY DEF MarksInit, Init
<1>2. DOMAIN rows = {}
  BY <1>1
<1>3. Profits(rows) = 0 /\ Costs(rows) = 0
  BY <1>2, SumEmpty DEF Profits, Costs, SumFunction
<1> QED
  BY <1>1, <1>3 DEF PnLConserved

-----------------------------------------------------------------------------
(* Theorems.                                                               *)

\* Every variable of the book stays in its domain, and a session only names rows that
\* exist: sizes stay numbers and averages natural ones through every extension,
\* reduction, flip and adoption.
THEOREM BookTypes == MarksSpec => []TypeOK
  BY InductiveInv, PTL DEF IInv

\* For any sessions, fills, kill switches and adoptions, the quantities of all rows add
\* up to the fills committed: no fill is lost and none is netted twice
\* (positions_service.apply_fill_to_position).
THEOREM QuantityConserved == MarksSpec => []FillsConserved
  BY InductiveInv, PTL DEF IInv

\* Where averages are not rounded, no money appears or disappears, whatever sessions,
\* kill switches and adoptions do to the rows: what was realized is what the fills
\* brought in plus the cost basis of what is held.
THEOREM MoneyConserved == MarksSpec /\ []ExactAverages => []PnLConserved
<1>1. IInv /\ ExactAverages /\ PnLConserved /\ [MarksNext]_bookVars => PnLConserved'
  BY MoneyStep
<1> QED
  BY <1>1, MoneyInit, InductiveInv, PTL DEF MarksSpec

\* No fill changes a closed row and no kill switch reopens one: the query's is_open is
\* re-checked under the row lock.
LEMMA ClosedStays ==
  ASSUME IInv, [MarksNext]_bookVars, adopting.at = "idle" \/ adopting' = adopting,
         NEW i \in DOMAIN rows, ~ rows[i].open
  PROVE  rows'[i] = rows[i]
<1>1. ASSUME NEW w \in Workers, FillMarks(w) PROVE rows'[i] = rows[i]
  <2>1. FillCommit(w)
    BY <1>1 DEF FillMarks
  <2> QED
    BY <2>1, FillMoves
<1>2. CASE KillCommit
  <2>1. rows[i] \in Row
    BY DEF IInv, TypeOK
  <2>2. [rows[i] EXCEPT !.open = FALSE] = rows[i]
    BY <2>1 DEF Row
  <2> QED
    BY <1>2, <2>2 DEF KillCommit
<1>3. CASE AdoptWrites
  BY <1>3 DEF AdoptWrites, NoHolding
<1>4. CASE rows' = rows
  BY <1>4
<1> QED
  BY <1>1, <1>2, <1>3, <1>4
     DEF MarksNext, Sessions, FillSelect, FillLock, FillAbort, KillSelect, JobReads, JobWrites,
         JobFails, AdoptReads, AdoptFails, bookVars, vars

THEOREM ClosedIsHistory == MarksSpec => ClosedForGood
<1>1. IInv /\ [MarksNext]_bookVars =>
        [adopting.at = "idle" \/ adopting' = adopting
           => \A i \in DOMAIN rows : ~ rows[i].open => rows'[i] = rows[i]]_rows
  BY ClosedStays
<1> QED
  BY <1>1, InductiveInv, PTL DEF MarksSpec, ClosedForGood

-----------------------------------------------------------------------------
(* The plan of a schedule.                                                 *)

\* What the first k slices come to.
Prefix(k) == IF k = N THEN Qty ELSE k * Display

LEMMA QuotientIs ==
  ASSUME NEW a \in Nat, NEW b \in Nat \ {0}
  PROVE  /\ a \div b \in Nat
         /\ b * (a \div b) <= a
         /\ a < b * (a \div b) + b
OBVIOUS

\* All slices but the last are full, and the last is not empty.
LEMMA PlanIs ==
  /\ Qty \in Nat \ {0} /\ Display \in Nat \ {0} /\ N \in Nat \ {0}
  /\ Display * N < Qty + Display
  /\ Qty <= Display * N
<1> DEFINE a == Qty + Display - 1
<1>1. Qty \in Nat \ {0} /\ Display \in Nat \ {0} /\ a \in Nat
  BY PlanAssumption
<1>2. N = a \div Display
  BY DEF N
<1>3. N \in Nat /\ Display * N <= a /\ a < Display * N + Display
  BY <1>1, <1>2, QuotientIs
<1>4. Display * N \in Nat
  BY <1>1, <1>3
<1>5. Display * N < Qty + Display /\ Qty <= Display * N
  BY <1>1, <1>3, <1>4
<1>6. N # 0
  BY <1>1, <1>5
<1> QED
  BY <1>1, <1>3, <1>5, <1>6

Multiple(a, b) == a * b

LEMMA MultipleIs ==
  ASSUME NEW d \in Nat, NEW k \in Nat
  PROVE  Multiple(k, d) \in Nat /\ Multiple(k + 1, d) = Multiple(k, d) + d /\ Multiple(0, d) = 0
BY DEF Multiple

LEMMA MultiplesGrow ==
  ASSUME NEW d \in Nat, NEW k \in Nat, NEW n \in Nat, k <= n
  PROVE  Multiple(k, d) <= Multiple(n, d)
<1>1. n = k + (n - k) /\ (n - k) \in Nat
  OBVIOUS
<1>2. n * d = k * d + (n - k) * d
  BY <1>1
<1>3. (n - k) * d \in Nat /\ k * d \in Nat
  BY <1>1
<1> QED
  BY <1>2, <1>3 DEF Multiple

LEMMA PrefixIs ==
  /\ Slices = 1..N /\ N \in Nat \ {0} /\ Qty \in Nat \ {0} /\ Display \in Nat \ {0}
  /\ Prefix(0) = 0 /\ Prefix(N) = Qty
  /\ \A k \in 0..N : Prefix(k) \in 0..Qty /\ (k < N => Prefix(k) < Qty)
  /\ \A i \in Slices : /\ SliceQty(i) \in 1..Display
                       /\ Prefix(i) = Prefix(i - 1) + SliceQty(i)
<1>1. /\ N \in Nat \ {0} /\ Qty \in Nat \ {0} /\ Display \in Nat \ {0}
      /\ Multiple(N, Display) < Qty + Display /\ Qty <= Multiple(N, Display)
  BY PlanIs DEF Multiple
<1>2. N - 1 \in Nat /\ (N - 1) + 1 = N
  BY <1>1
<1>3. Multiple(N - 1, Display) \in Nat /\ Multiple(N, Display) = Multiple(N - 1, Display) + Display
  BY <1>1, <1>2, MultipleIs
<1>4. \A k \in 0..N : k < N => Prefix(k) = Multiple(k, Display)
  BY <1>1 DEF Prefix, Multiple
<1>5. Prefix(N) = Qty
  BY DEF Prefix
<1>6. Prefix(0) = 0
  BY <1>1, <1>4, MultipleIs
<1>7. ASSUME NEW k \in 0..N, k < N PROVE Prefix(k) \in 0..Qty /\ Prefix(k) < Qty
  <2>1. k \in Nat /\ k <= N - 1
    BY <1>1, <1>7
  <2>2. Multiple(k, Display) <= Multiple(N - 1, Display) /\ Multiple(k, Display) \in Nat
    BY <1>1, <1>2, <2>1, MultiplesGrow, MultipleIs
  <2> QED
    BY <1>1, <1>3, <1>4, <1>7, <2>2
<1>8. ASSUME NEW i \in Slices
      PROVE  SliceQty(i) \in 1..Display /\ Prefix(i) = Prefix(i - 1) + SliceQty(i)
  <2>1. i \in 1..N /\ i - 1 \in 0..N /\ i - 1 < N /\ (i - 1) + 1 = i /\ i - 1 \in Nat
    BY <1>1 DEF Slices
  <2>2. Prefix(i - 1) = Multiple(i - 1, Display)
    BY <1>4, <2>1
  <2>3. CASE i < N
    <3>1. SliceQty(i) = Display
      BY <2>3 DEF SliceQty
    <3>2. Prefix(i) = Multiple(i, Display)
      BY <1>4, <2>1, <2>3
    <3>3. Multiple(i, Display) = Multiple(i - 1, Display) + Display
      BY <1>1, <2>1, MultipleIs
    <3> QED
      BY <1>1, <2>2, <3>1, <3>2, <3>3
  <2>4. CASE i = N
    <3>1. SliceQty(i) = Qty - Multiple(N - 1, Display)
      BY <2>4, <1>1 DEF SliceQty, Multiple
    <3> QED
      BY <1>1, <1>3, <1>5, <2>2, <2>4, <3>1
  <2> QED
    BY <1>1, <2>1, <2>3, <2>4
<1> QED
  BY <1>1, <1>5, <1>6, <1>7, <1>8 DEF Slices
-----------------------------------------------------------------------------
(* The inductive invariant of a schedule.                                  *)

\* The task holds the row while a slice is under way, and whoever holds the row found
\* the order live.
LockOf ==
  /\ (lock = "task") <=> (task \in {"locked", "answered"})
  /\ lock # "free" => status \in LiveStatuses

\* The row counts the slices up to the ticket it carries; the task works on the next one.
Progress ==
  /\ filled_qty = Prefix(ticket)
  /\ IF ticket = N THEN slice = N /\ task = "over" ELSE slice = ticket + 1
  /\ (status = "NONE") <=> (task = "unborn")
  /\ status = "NONE" => ticket = 0

\* The venue executed nothing beyond that slice.
Ahead == \A i \in Slices : i > ticket + 1 => traded[i] = 0

\* A broker that fills in full executed the slices that are recorded, and the next one
\* before its answer came.
InFull ==
  /\ \A i \in Slices : traded[i] \in {0, SliceQty(i)}
  /\ \A i \in Slices : i <= ticket => traded[i] = SliceQty(i)
  /\ task = "answered" => traded[slice] = SliceQty(slice)
  /\ Executed = filled_qty + (IF ticket < N THEN traded[ticket + 1] ELSE 0)

AlgoTypes ==
  /\ broker \in Brokers
  /\ status \in RowStatuses
  /\ ticket \in 0..N
  /\ task \in {"unborn", "waiting", "locked", "answered", "over"}
  /\ slice \in Slices
  /\ lock \in {"free", "task", "cancel"}
  /\ traded \in [Slices -> 0..Display]
  /\ \A i \in Slices : traded[i] <= SliceQty(i)
  /\ events \subseteq Slices

AlgoInv ==
  /\ AlgoTypes /\ LockOf /\ Progress /\ Ahead
  /\ broker.in_full => InFull

-----------------------------------------------------------------------------
(* One step of a schedule.                                                 *)

\* What the steps need of the plan: between two slices there is a prefix.
LEMMA SliceIs ==
  ASSUME AlgoTypes, Progress
  PROVE  /\ slice \in 1..N /\ N \in Nat \ {0} /\ Slices = 1..N /\ Display \in Nat \ {0}
         /\ \A i \in Slices : SliceQty(i) \in 1..Display
         /\ filled_qty \in 0..Qty
         /\ ticket < N => /\ slice = ticket + 1
                          /\ filled_qty + SliceQty(slice) = Prefix(slice)
                          /\ filled_qty < Qty
<1>1. /\ Slices = 1..N /\ N \in Nat \ {0} /\ Display \in Nat \ {0}
      /\ \A k \in 0..N : Prefix(k) \in 0..Qty /\ (k < N => Prefix(k) < Qty)
      /\ \A i \in Slices : SliceQty(i) \in 1..Display /\ Prefix(i) = Prefix(i - 1) + SliceQty(i)
  BY PrefixIs
<1>2. ticket \in 0..N /\ slice \in 1..N /\ filled_qty = Prefix(ticket)
  BY <1>1 DEF AlgoTypes, Progress
<1>3. ASSUME ticket < N
      PROVE  slice = ticket + 1 /\ filled_qty + SliceQty(slice) = Prefix(slice) /\ filled_qty < Qty
  <2>1. slice = ticket + 1
    BY <1>1, <1>2, <1>3 DEF Progress
  <2>2. slice - 1 = ticket
    BY <1>1, <1>2, <2>1
  <2> QED
    BY <1>1, <1>2, <1>3, <2>1, <2>2
<1> QED
  BY <1>1, <1>2, <1>3

\* The columns of one slice at the venue.
LEMMA SliceSet ==
  ASSUME AlgoTypes, Progress
  PROVE  IsFiniteSet(Slices) /\ DOMAIN traded = Slices /\ IntOn(traded, Slices)
<1>1. Slices = 1..N /\ N \in Nat \ {0} /\ Display \in Nat \ {0}
  BY SliceIs
<1>2. IsFiniteSet(Slices)
  BY <1>1, FS_Interval
<1> QED
  BY <1>1, <1>2 DEF AlgoTypes, IntOn

LEMMA ExecutedIs ==
  ASSUME AlgoTypes, Progress
  PROVE  Executed = SumFunctionOnSet(traded, Slices) /\ Executed \in Int
BY SliceSet, SumInt DEF Executed, SumFunction

\* An execution of the slice the task works on, or of one before it.
LEMMA Executes ==
  ASSUME AlgoInv, NEW i \in Slices, i <= ticket + 1, NEW q \in 0..SliceQty(i), Execute(i, q),
         UNCHANGED <<broker, row>>
  PROVE  /\ traded' \in [Slices -> 0..Display]
         /\ \A j \in Slices : traded[j]' <= SliceQty(j)
         /\ traded' = [traded EXCEPT ![i] = q]
         /\ events' \subseteq Slices
         /\ Ahead'
         /\ Executed' = Executed + q - traded[i]
<1>1. AlgoTypes /\ Progress /\ Ahead
  BY DEF AlgoInv
<1>2. /\ Slices = 1..N /\ N \in Nat \ {0} /\ Display \in Nat \ {0}
      /\ \A j \in Slices : SliceQty(j) \in 1..Display
  BY <1>1, SliceIs
<1>3. traded' = [traded EXCEPT ![i] = q]
  BY DEF Execute
<1>4. traded' \in [Slices -> 0..Display] /\ traded \in [Slices -> 0..Display]
  BY <1>1, <1>2, <1>3 DEF AlgoTypes
<1>5. \A j \in Slices : traded[j]' = IF j = i THEN q ELSE traded[j]
  BY <1>3, <1>4
<1>6. \A j \in Slices : traded[j]' <= SliceQty(j)
  BY <1>1, <1>2, <1>5 DEF AlgoTypes
<1>7. events' \subseteq Slices
  BY <1>1 DEF Execute, AlgoTypes
<1>8. Ahead'
  <2>1. ticket' = ticket /\ ticket \in Nat
    BY <1>1, <1>2 DEF row, AlgoTypes
  <2> QED
    BY <1>1, <1>2, <1>5, <2>1 DEF Ahead
<1>9. Executed' = Executed + q - traded[i]
  <2>1. IsFiniteSet(Slices) /\ IntOn(traded, Slices) /\ IntOn(traded', Slices)
    BY <1>1, <1>2, <1>4, SliceSet DEF IntOn
  <2>2. \A j \in Slices \ {i} : traded[j] = traded[j]'
    BY <1>5
  <2> DEFINE g == traded'
  <2>3. Executed' = SumFunctionOnSet(g, Slices)
    BY <1>4 DEF Executed, SumFunction
  <2>4. Executed = SumFunctionOnSet(traded, Slices)
    BY <1>1, ExecutedIs
  <2>5. g[i] = q
    BY <1>5
  <2>6. IntOn(g, Slices) /\ \A j \in Slices \ {i} : traded[j] = g[j]
    BY <2>1, <2>2
  <2> HIDE DEF g
  <2>7. SumFunctionOnSet(g, Slices) = SumFunctionOnSet(traded, Slices) + g[i] - traded[i]
    BY <2>1, <2>6, SumChange
  <2> QED
    BY <2>3, <2>4, <2>5, <2>7
<1> QED
  BY <1>3, <1>4, <1>6, <1>7, <1>8, <1>9
\* A step that leaves the order and the venue alone, and takes the task and the lock to
\* where they may be.
LEMMA RowStands ==
  ASSUME AlgoInv, UNCHANGED <<broker, row, slice, venue>>,
         task' \in {"unborn", "waiting", "locked", "answered", "over"},
         lock' \in {"free", "task", "cancel"}, LockOf',
         (task' = "unborn") <=> (task = "unborn"),
         task = "over" => task' = "over",
         broker.in_full /\ task' = "answered" => task = "answered"
  PROVE  AlgoInv'
<1>1. AlgoTypes /\ LockOf /\ Progress /\ Ahead /\ (broker.in_full => InFull)
  BY DEF AlgoInv
<1>2. /\ status' = status /\ filled_qty' = filled_qty /\ ticket' = ticket /\ slice' = slice
      /\ traded' = traded /\ events' = events /\ broker' = broker
  BY DEF row, venue
<1>3. AlgoTypes'
  BY <1>1, <1>2 DEF AlgoTypes
<1>4. Progress'
  BY <1>1, <1>2 DEF Progress
<1>5. Ahead'
  BY <1>1, <1>2 DEF Ahead
<1>6. Executed' = Executed
  BY <1>2 DEF Executed
<1>7. broker'.in_full => InFull'
  BY <1>1, <1>2, <1>6 DEF InFull
<1> QED
  BY <1>3, <1>4, <1>5, <1>7 DEF AlgoInv

LEMMA PlaceKeeps ==
  ASSUME AlgoInv, Place, UNCHANGED broker PROVE AlgoInv'
<1>1. AlgoTypes /\ LockOf /\ Progress /\ Ahead /\ (broker.in_full => InFull)
  BY DEF AlgoInv
<1>2. /\ status' = "SUBMITTED" /\ filled_qty' = filled_qty /\ ticket' = ticket /\ slice' = slice
      /\ traded' = traded /\ events' = events /\ lock' = lock /\ task' = "waiting"
      /\ status = "NONE"
  BY DEF Place, venue
<1>3. AlgoTypes'
  BY <1>1, <1>2 DEF AlgoTypes, RowStatuses, Statuses
<1>4. task = "unborn" /\ lock = "free" /\ ticket = 0 /\ N # 0
  BY <1>1, <1>2, PrefixIs DEF Progress, LockOf, LiveStatuses, AlgoTypes
<1>5. Progress'
  BY <1>1, <1>2, <1>4 DEF Progress
<1>6. LockOf'
  BY <1>2, <1>4 DEF LockOf
<1>7. Ahead'
  BY <1>1, <1>2 DEF Ahead
<1>8. Executed' = Executed
  BY <1>2 DEF Executed
<1>9. broker'.in_full => InFull'
  BY <1>1, <1>2, <1>8 DEF InFull
<1> QED
  BY <1>3, <1>5, <1>6, <1>7, <1>9 DEF AlgoInv

LEMMA SliceBeginKeeps ==
  ASSUME AlgoInv, SliceBegin, UNCHANGED broker PROVE AlgoInv'
<1>1. task = "waiting" /\ lock = "free" /\ UNCHANGED <<broker, row, slice, venue>>
  BY DEF SliceBegin
<1>2. status' = status
  BY <1>1 DEF row
<1>3. LockOf'
  BY <1>1, <1>2 DEF SliceBegin, MaySend, LockOf
<1>4. task' \in {"locked", "over"} /\ lock' \in {"task", "free"}
  BY <1>1 DEF SliceBegin
<1> QED
  BY <1>1, <1>3, <1>4, RowStands

LEMMA SliceAtVenueKeeps ==
  ASSUME AlgoInv, SliceAtVenue, UNCHANGED broker PROVE AlgoInv'
<1>1. AlgoTypes /\ LockOf /\ Progress /\ Ahead /\ (broker.in_full => InFull)
  BY DEF AlgoInv
<1>2. /\ task = "locked" /\ task' = "answered" /\ UNCHANGED <<broker, row, slice, lock>>
      /\ status' = status /\ filled_qty' = filled_qty /\ ticket' = ticket /\ slice' = slice
      /\ lock' = lock /\ broker' = broker
  BY DEF SliceAtVenue, row
<1>3. LockOf'
  BY <1>1, <1>2 DEF LockOf
<1>4. Progress'
  BY <1>1, <1>2 DEF Progress
<1>5. CASE ~ broker.in_full /\ UNCHANGED venue
  BY <1>1, <1>2, <1>3, <1>5, RowStands DEF AlgoTypes
<1>6. ASSUME NEW q \in 0..SliceQty(slice), Execute(slice, q), broker.in_full => q = SliceQty(slice)
      PROVE  AlgoInv'
  <2>1. /\ slice \in Slices /\ slice = ticket + 1 /\ ticket < N /\ SliceQty(slice) \in Nat
        /\ ticket \in Nat /\ filled_qty \in Nat
    BY <1>1, <1>2, SliceIs DEF Progress, AlgoTypes
  <2>2. /\ traded' \in [Slices -> 0..Display] /\ \A j \in Slices : traded[j]' <= SliceQty(j)
        /\ traded' = [traded EXCEPT ![slice] = q] /\ events' \subseteq Slices
        /\ Ahead' /\ Executed' = Executed + q - traded[slice]
    BY <1>2, <1>6, <2>1, Executes
  <2>3. AlgoTypes'
    BY <1>1, <1>2, <2>2 DEF AlgoTypes
  <2>4. ASSUME broker.in_full PROVE InFull'
    <3>1. InFull
      BY <1>1, <2>4
    <3>2. q = SliceQty(slice) /\ traded[slice] \in 0..Display /\ Executed = filled_qty + traded[slice]
      BY <1>1, <1>6, <2>1, <2>4, <3>1 DEF InFull, AlgoTypes
    <3>3. \A j \in Slices : traded[j]' = IF j = slice THEN SliceQty(slice) ELSE traded[j]
      BY <1>1, <2>2, <3>2 DEF AlgoTypes
    <3>4. Executed' = filled_qty' + traded[slice]'
      BY <1>2, <2>1, <2>2, <3>2, <3>3
    <3> QED
      BY <1>2, <2>1, <3>1, <3>3, <3>4 DEF InFull
  <2> QED
    BY <1>2, <1>3, <1>4, <2>2, <2>3, <2>4 DEF AlgoInv
<1>7. SliceQty(slice) \in Nat /\ slice \in Slices
  BY <1>1, SliceIs DEF AlgoTypes
<1> QED
  BY <1>5, <1>6, <1>7 DEF SliceAtVenue

LEMMA SliceFailsKeeps ==
  ASSUME AlgoInv, SliceFails, UNCHANGED broker PROVE AlgoInv'
<1>1. AlgoTypes /\ LockOf /\ Progress /\ Ahead /\ (broker.in_full => InFull)
  BY DEF AlgoInv
<1>2. /\ task = "locked" /\ task' = "over" /\ lock' = "free" /\ UNCHANGED <<broker, row, slice>>
      /\ status' = status /\ filled_qty' = filled_qty /\ ticket' = ticket /\ slice' = slice
      /\ broker' = broker
  BY DEF SliceFails, row
<1>3. LockOf'
  BY <1>2 DEF LockOf
<1>4. Progress'
  BY <1>1, <1>2 DEF Progress
<1>5. CASE UNCHANGED venue
  BY <1>2, <1>3, <1>5, RowStands
<1>6. CASE Execute(slice, SliceQty(slice))
  <2>1. /\ slice \in Slices /\ slice = ticket + 1 /\ ticket < N
        /\ SliceQty(slice) \in 0..SliceQty(slice) /\ SliceQty(slice) \in Nat
        /\ ticket \in Nat /\ filled_qty \in Nat
    BY <1>1, <1>2, SliceIs DEF Progress, AlgoTypes
  <2>2. /\ traded' \in [Slices -> 0..Display] /\ \A j \in Slices : traded[j]' <= SliceQty(j)
        /\ traded' = [traded EXCEPT ![slice] = SliceQty(slice)] /\ events' \subseteq Slices
        /\ Ahead' /\ Executed' = Executed + SliceQty(slice) - traded[slice]
    BY <1>2, <1>6, <2>1, Executes
  <2>3. AlgoTypes'
    BY <1>1, <1>2, <2>2 DEF AlgoTypes
  <2>4. ASSUME broker.in_full PROVE InFull'
    <3>1. InFull
      BY <1>1, <2>4
    <3>2. traded[slice] \in 0..Display /\ Executed = filled_qty + traded[slice]
      BY <1>1, <2>1, <2>4, <3>1 DEF InFull, AlgoTypes
    <3>3. \A j \in Slices : traded[j]' = IF j = slice THEN SliceQty(slice) ELSE traded[j]
      BY <1>1, <2>2 DEF AlgoTypes
    <3>4. Executed' = filled_qty' + traded[slice]'
      BY <1>2, <2>1, <2>2, <3>2, <3>3
    <3> QED
      BY <1>2, <2>1, <3>1, <3>3, <3>4 DEF InFull
  <2> QED
    BY <1>2, <1>3, <1>4, <2>2, <2>3, <2>4 DEF AlgoInv
<1> QED
  BY <1>5, <1>6 DEF SliceFails

LEMMA SliceCommitKeeps ==
  ASSUME AlgoInv, SliceCommit, UNCHANGED broker PROVE AlgoInv'
<1>1. AlgoTypes /\ LockOf /\ Progress /\ Ahead /\ (broker.in_full => InFull)
  BY DEF AlgoInv
<1>2. /\ task = "answered" /\ filled_qty' = filled_qty + SliceQty(slice) /\ ticket' = slice
      /\ slice' = (IF slice < N THEN slice + 1 ELSE slice)
      /\ task' = (IF slice < N THEN "waiting" ELSE "over")
      /\ lock' = "free" /\ traded' = traded /\ events' = events /\ broker' = broker
      /\ status' \in {"FILLED", "PARTIAL"}
  BY DEF SliceCommit, SliceFill, Settled, venue
<1>3. /\ slice \in 1..N /\ N \in Nat \ {0} /\ Slices = 1..N /\ ticket \in Nat
      /\ slice = ticket + 1 /\ ticket < N
      /\ filled_qty + SliceQty(slice) = Prefix(slice)
      /\ \A i \in Slices : SliceQty(i) \in 1..Display
      /\ Display \in Nat /\ filled_qty \in Nat
  BY <1>1, <1>2, SliceIs DEF Progress, AlgoTypes
<1>4. AlgoTypes'
  BY <1>1, <1>2, <1>3 DEF AlgoTypes, RowStatuses, Statuses
<1>5. Progress'
  BY <1>1, <1>2, <1>3 DEF Progress
<1>6. LockOf'
  BY <1>2 DEF LockOf
<1>7. Ahead'
  BY <1>1, <1>2, <1>3 DEF Ahead
<1>8. ASSUME broker.in_full PROVE InFull'
  <2>1. InFull
    BY <1>1, <1>8
  <2>2. traded[slice] = SliceQty(slice) /\ Executed = filled_qty + SliceQty(slice) /\ Executed' = Executed
    BY <1>2, <1>3, <2>1 DEF InFull, Executed
  <2>3. \A i \in Slices : i <= slice => traded[i] = SliceQty(i)
    BY <1>3, <2>1, <2>2 DEF InFull
  <2>4. slice < N => slice + 1 \in Slices /\ traded[slice + 1] = 0
    BY <1>1, <1>3 DEF Ahead
  <2>5. Executed' = filled_qty' + (IF ticket' < N THEN traded[ticket + 1]' ELSE 0)
    BY <1>2, <1>3, <2>2, <2>4
  <2> QED
    BY <1>2, <2>1, <2>3, <2>5 DEF InFull
<1> QED
  BY <1>2, <1>4, <1>5, <1>6, <1>7, <1>8 DEF AlgoInv

LEMMA TaskDiesKeeps ==
  ASSUME AlgoInv, TaskDies, UNCHANGED broker PROVE AlgoInv'
<1>1. AlgoTypes /\ LockOf
  BY DEF AlgoInv
<1>2. /\ task \in {"waiting", "locked", "answered"} /\ UNCHANGED <<broker, row, slice, venue>>
      /\ task' = "over" /\ lock' = (IF lock = "task" THEN "free" ELSE lock) /\ status' = status
  BY DEF TaskDies, row
<1>3. LockOf'
  BY <1>1, <1>2 DEF LockOf, AlgoTypes
<1> QED
  BY <1>1, <1>2, <1>3, RowStands DEF AlgoTypes

LEMMA CancelBeginKeeps ==
  ASSUME AlgoInv, CancelBegin, UNCHANGED broker PROVE AlgoInv'
<1>1. AlgoTypes /\ LockOf
  BY DEF AlgoInv
<1>2. /\ lock = "free" /\ status \in LiveStatuses /\ lock' = "cancel" /\ status' = status
      /\ UNCHANGED <<broker, row, slice, venue>> /\ task' = task
  BY DEF CancelBegin, row
<1>3. LockOf'
  BY <1>1, <1>2 DEF LockOf
<1> QED
  BY <1>1, <1>2, <1>3, RowStands DEF AlgoTypes

LEMMA CancelDiesKeeps ==
  ASSUME AlgoInv, CancelDies, UNCHANGED broker PROVE AlgoInv'
<1>1. AlgoTypes /\ LockOf
  BY DEF AlgoInv
<1>2. /\ lock = "cancel" /\ lock' = "free" /\ status' = status
      /\ UNCHANGED <<broker, row, slice, venue>> /\ task' = task
  BY DEF CancelDies, row
<1>3. LockOf'
  BY <1>1, <1>2 DEF LockOf
<1> QED
  BY <1>1, <1>2, <1>3, RowStands DEF AlgoTypes

\* Another writer moves the status of a live order while it holds its row.
LEMMA StatusMoves ==
  ASSUME AlgoInv, UNCHANGED <<broker, filled_qty, ticket, task, slice, venue>>,
         status \in LiveStatuses, status' \in LiveStatuses \cup {"FILLED", "CANCELLED"},
         lock' = "free", lock # "task"
  PROVE  AlgoInv'
<1>1. AlgoTypes /\ LockOf /\ Progress /\ Ahead /\ (broker.in_full => InFull)
  BY DEF AlgoInv
<1>2. /\ filled_qty' = filled_qty /\ ticket' = ticket /\ slice' = slice /\ task' = task
      /\ traded' = traded /\ events' = events /\ broker' = broker
  BY DEF venue
<1>3. AlgoTypes'
  BY <1>1, <1>2 DEF AlgoTypes, RowStatuses, Statuses, LiveStatuses
<1>4. Progress'
  BY <1>1, <1>2 DEF Progress, LiveStatuses
<1>5. Ahead'
  BY <1>1, <1>2 DEF Ahead
<1>6. LockOf'
  BY <1>1, <1>2 DEF LockOf
<1>7. Executed' = Executed
  BY <1>2 DEF Executed
<1>8. broker'.in_full => InFull'
  BY <1>1, <1>2, <1>7 DEF InFull
<1> QED
  BY <1>3, <1>4, <1>5, <1>6, <1>8 DEF AlgoInv

LEMMA CancelCommitKeeps ==
  ASSUME AlgoInv, CancelCommit, UNCHANGED broker PROVE AlgoInv'
<1>1. status \in LiveStatuses
  BY DEF AlgoInv, LockOf, CancelCommit
<1> QED
  BY <1>1, StatusMoves DEF CancelCommit

\* What a push handler finds in an event about the slice of the row is in the row already:
\* it moves the status alone.
LEMMA EventIsKnown ==
  ASSUME AlgoInv, NEW i \in Slices, PushEvent(i)
  PROVE  /\ filled_qty' = filled_qty /\ status' \in {"FILLED", status}
         /\ lock = "free" /\ status \in LiveStatuses
<1>1. AlgoTypes /\ Progress
  BY DEF AlgoInv
<1>2. /\ \A k \in 0..N : Prefix(k) \in 0..Qty
      /\ \A j \in Slices : Prefix(j) = Prefix(j - 1) + SliceQty(j) /\ SliceQty(j) \in 1..Display
      /\ Slices = 1..N /\ N \in Nat /\ Display \in Nat
  BY PrefixIs
<1>3. ticket = i /\ filled_qty = Prefix(i) /\ traded[i] \in Nat /\ traded[i] <= SliceQty(i)
  BY <1>1, <1>2 DEF PushEvent, Progress, AlgoTypes
<1>4. Prefix(i - 1) \in Nat /\ Prefix(i) \in Nat
  BY <1>2
<1>5. ~ (traded[i] - filled_qty > 0)
  BY <1>2, <1>3, <1>4
<1> QED
  BY <1>5 DEF PushEvent

LEMMA PushEventKeeps ==
  ASSUME AlgoInv, NEW i \in Slices, PushEvent(i), UNCHANGED broker PROVE AlgoInv'
<1>1. filled_qty' = filled_qty /\ status' \in {"FILLED", status} /\ lock = "free" /\ status \in LiveStatuses
  BY EventIsKnown
<1>2. UNCHANGED <<ticket, task, slice, lock, venue>>
  BY DEF PushEvent
<1> QED
  BY <1>1, <1>2, StatusMoves

LEMMA LateExecutionKeeps ==
  ASSUME AlgoInv, NEW i \in Slices, LateExecution(i), UNCHANGED broker PROVE AlgoInv'
<1>1. AlgoTypes /\ LockOf /\ Progress /\ Ahead
  BY DEF AlgoInv
<1>2. /\ ~ broker.in_full /\ UNCHANGED <<row, task, slice, lock, broker>>
      /\ status' = status /\ filled_qty' = filled_qty /\ ticket' = ticket /\ slice' = slice
      /\ lock' = lock /\ broker' = broker /\ task' = task
  BY DEF LateExecution, row
<1>3. i <= ticket + 1
  <2>1. i \in Nat /\ ticket \in Nat
    BY <1>1, SliceIs DEF AlgoTypes
  <2>2. i <= ticket \/ (i = slice /\ task = "answered")
    BY DEF LateExecution
  <2> QED
    BY <1>1, <2>1, <2>2 DEF Progress
<1>4. PICK q \in 0..SliceQty(i) : Execute(i, q)
  <2>1. SliceQty(i) \in Nat
    BY <1>1, SliceIs
  <2> QED
    BY <2>1 DEF LateExecution
<1>5. /\ traded' \in [Slices -> 0..Display] /\ \A j \in Slices : traded[j]' <= SliceQty(j)
      /\ events' \subseteq Slices /\ Ahead'
  BY <1>2, <1>3, <1>4, Executes
<1>6. AlgoTypes'
  BY <1>1, <1>2, <1>5 DEF AlgoTypes
<1>7. LockOf' /\ Progress'
  BY <1>1, <1>2 DEF LockOf, Progress
<1> QED
  BY <1>2, <1>5, <1>6, <1>7 DEF AlgoInv

LEMMA AlgoStands ==
  ASSUME AlgoInv, UNCHANGED algoVars PROVE AlgoInv'
<1>1. UNCHANGED <<broker, row, slice, venue>> /\ task' = task /\ lock' = lock /\ status' = status
  BY DEF algoVars, row, venue
<1>2. AlgoTypes /\ LockOf
  BY DEF AlgoInv
<1>3. LockOf'
  BY <1>1, <1>2 DEF LockOf
<1> QED
  BY <1>1, <1>2, <1>3, RowStands DEF AlgoTypes
LEMMA AlgoStepKeeps ==
  ASSUME AlgoInv, [AlgoNext]_algoVars PROVE AlgoInv'
<1>1. CASE UNCHANGED algoVars
  BY <1>1, AlgoStands
<1>2. CASE AlgoNext
  <2>1. UNCHANGED broker
    BY <1>2 DEF AlgoNext
  <2>2. CASE SliceBegin \/ SliceAtVenue \/ SliceFails \/ SliceCommit \/ TaskDies
    BY <2>1, <2>2, SliceBeginKeeps, SliceAtVenueKeeps, SliceFailsKeeps, SliceCommitKeeps, TaskDiesKeeps
  <2>3. CASE Place \/ CancelBegin \/ CancelCommit \/ CancelDies
    BY <2>1, <2>3, PlaceKeeps, CancelBeginKeeps, CancelCommitKeeps, CancelDiesKeeps
  <2>4. CASE \E i \in Slices : PushEvent(i) \/ LateExecution(i)
    BY <2>1, <2>4, PushEventKeeps, LateExecutionKeeps
  <2> QED
    BY <1>2, <2>2, <2>3, <2>4 DEF AlgoNext
<1> QED
  BY <1>1, <1>2

LEMMA AlgoInitInv ==
  ASSUME AlgoInit PROVE AlgoInv
<1>1. /\ broker \in Brokers /\ status = "NONE" /\ filled_qty = 0 /\ ticket = 0
      /\ task = "unborn" /\ slice = 1 /\ lock = "free"
      /\ traded = [i \in Slices |-> 0] /\ events = {}
  BY DEF AlgoInit
<1>2. /\ Slices = 1..N /\ N \in Nat \ {0} /\ Display \in Nat \ {0} /\ Prefix(0) = 0
      /\ \A i \in Slices : SliceQty(i) \in 1..Display
  BY PrefixIs
<1>3. AlgoTypes
  BY <1>1, <1>2 DEF AlgoTypes, RowStatuses
<1>4. Progress
  BY <1>1, <1>2 DEF Progress
<1>5. LockOf
  BY <1>1 DEF LockOf
<1>6. Ahead
  BY <1>1 DEF Ahead
<1>7. Executed = 0
  BY <1>1, <1>3, <1>4, ExecutedIs, SliceSet, SumZeros
<1>8. InFull
  BY <1>1, <1>2, <1>7 DEF InFull
<1> QED
  BY <1>3, <1>4, <1>5, <1>6, <1>8 DEF AlgoInv

\* The invariant the theorems about schedules rest on: filled_qty is what the slices up to
\* the one on the row come to, and the venue is at most one slice ahead of it.
THEOREM AlgoInvariant == AlgoSpec => []AlgoInv
<1>1. AlgoInit => AlgoInv
  BY AlgoInitInv
<1>2. AlgoInv /\ [AlgoNext]_algoVars => AlgoInv'
  BY AlgoStepKeeps
<1> QED
  BY <1>1, <1>2, PTL DEF AlgoSpec

LEMMA PaperStepIsAlgoStep ==
  ASSUME [PaperNext]_paperVars PROVE [AlgoNext]_algoVars
<1>1. CASE RunTask
  BY <1>1 DEF RunTask, AskPrice, PricedSlice, AlgoNext
<1>2. CASE EndOfTask
  BY <1>2 DEF EndOfTask, AlgoNext
<1>3. CASE Others
  BY <1>3 DEF Others, EndCancel, AlgoNext
<1>4. CASE \/ Visit \/ PassTime \/ Sourcing(YahooToggles)
           \/ \E c \in Clients : Serve(c) \/ Leave(c)
  BY <1>4 DEF Visit, PassTime, Serve, Leave, Sourcing
<1>5. CASE UNCHANGED paperVars
  BY <1>5 DEF paperVars
<1> QED
  BY <1>1, <1>2, <1>3, <1>4, <1>5 DEF PaperNext

\* A schedule that asks the market data sources for its prices is a schedule: whatever the
\* breaker, the cache and the other clients do, it takes no step of its own kind.
THEOREM PaperImplementsAlgo == PaperSpec => AlgoSpec
<1>1. PaperInit => AlgoInit
  BY DEF PaperInit
<1>2. [PaperNext]_paperVars => [AlgoNext]_algoVars
  BY PaperStepIsAlgoStep
<1> QED
  BY <1>1, <1>2, PTL DEF PaperSpec, AlgoSpec

\* Type correctness of the schedule: filled_qty never exceeds the order's quantity.
THEOREM AlgoTypesHold == PaperSpec => []AlgoTypeOK
<1>1. AlgoInv => AlgoTypeOK
  <2> SUFFICES ASSUME AlgoInv PROVE AlgoTypeOK
    OBVIOUS
  <2>1. AlgoTypes /\ Progress
    BY DEF AlgoInv
  <2>2. filled_qty \in 0..Qty
    BY <2>1, SliceIs
  <2> QED
    BY <2>1, <2>2 DEF AlgoTypes, AlgoTypeOK
<1> QED
  BY <1>1, AlgoInvariant, PaperImplementsAlgo, PTL

\* At a broker that fills in full, the paper broker among them, run_algo_order records
\* nothing that was not executed, and at most one slice goes unrecorded wherever it stops.
THEOREM BookedExecuted == PaperSpec => []BookedIsExecuted
<1>1. AlgoInv => BookedIsExecuted
  <2> SUFFICES ASSUME AlgoInv, broker.in_full
               PROVE  filled_qty <= Executed /\ Executed - filled_qty <= Display
    BY DEF BookedIsExecuted
  <2>1. AlgoTypes /\ Progress /\ InFull
    BY DEF AlgoInv
  <2>2. filled_qty \in Nat /\ N \in Nat /\ Slices = 1..N /\ Display \in Nat /\ Qty \in Nat
    BY <2>1, SliceIs, PrefixIs
  <2>3. ticket < N => traded[ticket + 1] \in 0..Display
    BY <2>1, <2>2 DEF AlgoTypes
  <2> QED
    BY <2>1, <2>2, <2>3 DEF InFull
<1> QED
  BY <1>1, AlgoInvariant, PaperImplementsAlgo, PTL

\* What a step may do to an order that has ended.
Stops == (status \in TerminalStatuses) => UNCHANGED row /\ task' \in {task, "over"}

LEMMA AlgoStepStops ==
  ASSUME AlgoInv, [AlgoNext]_algoVars PROVE Stops
<1> SUFFICES ASSUME status \in TerminalStatuses PROVE UNCHANGED row /\ task' \in {task, "over"}
  BY DEF Stops
<1>1. /\ status \notin LiveStatuses /\ status # "NONE" /\ lock = "free"
      /\ task \notin {"locked", "answered"}
  BY DEF AlgoInv, LockOf, AlgoTypes, TerminalStatuses, LiveStatuses
<1>2. CASE UNCHANGED algoVars
  BY <1>2 DEF algoVars, row
<1>3. CASE SliceBegin
  BY <1>1, <1>3 DEF SliceBegin, MaySend
<1>4. ~ SliceAtVenue /\ ~ SliceFails /\ ~ SliceCommit
  BY <1>1 DEF SliceAtVenue, SliceFails, SliceCommit
<1>5. CASE TaskDies
  BY <1>5 DEF TaskDies
<1>6. ~ Place /\ ~ CancelBegin /\ ~ CancelCommit /\ ~ CancelDies
  BY <1>1 DEF Place, CancelBegin, CancelCommit, CancelDies
<1>7. ASSUME NEW i \in Slices PROVE ~ PushEvent(i)
  BY <1>1 DEF PushEvent
<1>8. ASSUME NEW i \in Slices, LateExecution(i) PROVE UNCHANGED row /\ task' = task
  BY <1>8 DEF LateExecution
<1> QED
  BY <1>2, <1>3, <1>4, <1>5, <1>6, <1>7, <1>8 DEF AlgoNext

\* From the commit that ends an order on, a cancellation or an event between two slices,
\* no slice is sent and none is recorded.
THEOREM EndedStops == PaperSpec => TerminalStops
<1>1. AlgoInv /\ [AlgoNext]_algoVars => Stops
  BY AlgoStepStops
<1> QED
  BY <1>1, AlgoInvariant, PaperImplementsAlgo, PTL DEF AlgoSpec, TerminalStops, Stops
=============================================================================
