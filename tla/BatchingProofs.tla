---------------------------- MODULE BatchingProofs ----------------------------
(***************************************************************************)
(* Proofs about the two places where requests are chosen into a batch:     *)
(* CapacityBridge with the decision it rests on, and then PrefillWorker    *)
(* with the orderings of PrefillPolicy.  The general lemmas come first and *)
(* serve both.                                                             *)
(***************************************************************************)
EXTENDS CapacityBridge, PrefillWorker, FiniteSetTheorems, SequenceTheorems, TLAPS

-------------------------------------------------------------------------------
(* Every set of naturals has a least element, and hence induction, for a   *)
(* set of naturals in place of a predicate.                                *)
LEMMA LeastElement ==
  ASSUME NEW T \in SUBSET Nat, T # {}
  PROVE  \E n \in T : \A m \in T : n <= m
<1> DEFINE R == OpToRel(<, Nat)
<1>1. IsWellFoundedOn(R, Nat)  BY NatLessThanWellFounded
<1>2. \A x, y \in Nat : x < y => <<x, y>> \in R  BY DEF OpToRel
<1> HIDE DEF R
<1>3. PICK x \in T : \A y \in T : ~ (<<y, x>> \in R)  BY <1>1, WFMin
<1>4. ASSUME NEW y \in T PROVE x <= y
  <2>1. x \in Nat /\ y \in Nat  OBVIOUS
  <2>2. ~ (y < x)  BY <1>2, <1>3, <2>1
  <2> QED  BY <2>1, <2>2
<1> QED  BY <1>4

LEMMA SetInduction ==
  ASSUME NEW N \in Nat, NEW T, 0 \in T, \A k \in 1 .. N : k - 1 \in T => k \in T
  PROVE  0 .. N \subseteq T
<1> SUFFICES ASSUME (0 .. N) \ T # {} PROVE FALSE  OBVIOUS
<1>1. PICK n \in (0 .. N) \ T : \A m \in (0 .. N) \ T : n <= m
  BY LeastElement, (0 .. N) \ T \in SUBSET Nat
<1>2. n \in 1 .. N /\ n - 1 \in 0 .. N  OBVIOUS
<1>3. n - 1 \in T  BY <1>1, <1>2
<1> QED  BY <1>3, <1>2

-------------------------------------------------------------------------------
(* A strict total order, as a relation on a set; and a sequence of the     *)
(* elements of the set in that order.                                      *)
StrictOrder(R, S) ==
  /\ \A x \in S : <<x, x>> \notin R
  /\ \A x, y \in S : x # y => <<x, y>> \in R \/ <<y, x>> \in R
  /\ \A x, y, z \in S : <<x, y>> \in R /\ <<y, z>> \in R => <<x, z>> \in R

Arranged(s, S, R) ==
  /\ s \in [1 .. Cardinality(S) -> S]
  /\ \A i, j \in 1 .. Cardinality(S) : i < j => <<s[i], s[j]>> \in R

(* How many come before x.                                                 *)
Rank(x, S, R) == Cardinality({y \in S : <<y, x>> \in R})

LEMMA RankGrows ==
  ASSUME NEW S, IsFiniteSet(S), NEW R, StrictOrder(R, S), NEW x \in S, NEW y \in S,
         <<x, y>> \in R
  PROVE  Rank(x, S, R) < Rank(y, S, R)
<1> DEFINE X == {z \in S : <<z, x>> \in R}
           Y == {z \in S : <<z, y>> \in R}
<1>1. IsFiniteSet(X) /\ IsFiniteSet(Y) /\ X \in SUBSET Y
  BY FS_Subset, X \in SUBSET S, Y \in SUBSET S DEF StrictOrder
<1>2. X # Y  BY DEF StrictOrder
<1>3. /\ Cardinality(X) \in Nat /\ Cardinality(Y) \in Nat
      /\ Cardinality(X) <= Cardinality(Y) /\ Cardinality(X) # Cardinality(Y)
  BY <1>1, <1>2, FS_Subset, FS_CardinalityType
<1> QED  BY <1>3 DEF Rank

LEMMA RankType ==
  ASSUME NEW S, IsFiniteSet(S), NEW R, StrictOrder(R, S), NEW x \in S
  PROVE  Rank(x, S, R) \in 0 .. Cardinality(S) - 1
<1> DEFINE X == {z \in S : <<z, x>> \in R}
<1>1. X \in SUBSET S /\ X # S  BY DEF StrictOrder
<1>2. /\ IsFiniteSet(X) /\ Cardinality(X) \in Nat /\ Cardinality(S) \in Nat
      /\ Cardinality(X) <= Cardinality(S) /\ Cardinality(X) # Cardinality(S)
  BY <1>1, FS_Subset, FS_CardinalityType
<1> QED  BY <1>2 DEF Rank

(* Ordering the elements by their ranks arranges them.                     *)
LEMMA ArrangementExists ==
  ASSUME NEW S, IsFiniteSet(S), NEW R, StrictOrder(R, S)
  PROVE  \E s : Arranged(s, S, R)
<1> DEFINE n == Cardinality(S)
           f == [x \in S |-> Rank(x, S, R) + 1]
<1>1. n \in Nat /\ IsFiniteSet(1 .. n) /\ Cardinality(1 .. n) = n
  BY FS_CardinalityType, FS_Interval
<1>2. f \in [S -> 1 .. n]  BY <1>1, RankType
<1>3. \A x, y \in S : f[x] < f[y] => <<x, y>> \in R
  <2> SUFFICES ASSUME NEW x \in S, NEW y \in S, f[x] < f[y] PROVE <<x, y>> \in R
    OBVIOUS
  <2>1. Rank(x, S, R) \in Nat /\ Rank(y, S, R) \in Nat  BY <1>1, RankType
  <2>2. x # y  BY <2>1
  <2>3. <<y, x>> \in R => Rank(y, S, R) < Rank(x, S, R)  BY RankGrows
  <2> QED  BY <2>1, <2>2, <2>3 DEF StrictOrder
<1>4. \A x, y \in S : x # y => f[x] # f[y]
  <2> SUFFICES ASSUME NEW x \in S, NEW y \in S, x # y PROVE f[x] # f[y]  OBVIOUS
  <2>1. Rank(x, S, R) \in Nat /\ Rank(y, S, R) \in Nat  BY <1>1, RankType
  <2>2. <<x, y>> \in R \/ <<y, x>> \in R  BY DEF StrictOrder
  <2>3. Rank(x, S, R) # Rank(y, S, R)  BY <2>1, <2>2, RankGrows
  <2> QED  BY <2>1, <2>3
<1> HIDE DEF f
<1>5. f \in Injection(S, 1 .. n)  BY <1>2, <1>4 DEF Injection, IsInjective
<1>6. f \in Surjection(S, 1 .. n)  BY <1>1, <1>5, FS_Injection
<1>7. \A k \in 1 .. n : \E x \in S : f[x] = k  BY <1>6 DEF Surjection
<1> DEFINE s == [k \in 1 .. n |-> CHOOSE x \in S : f[x] = k]
<1>8. \A k \in 1 .. n : s[k] \in S /\ f[s[k]] = k  BY <1>7
<1>9. s \in [1 .. n -> S]  BY <1>7
<1> HIDE DEF s
<1>10. \A i, j \in 1 .. n : i < j => <<s[i], s[j]>> \in R  BY <1>3, <1>8
<1> QED  BY <1>9, <1>10 DEF Arranged

(* An arrangement lists every element once.                                *)
LEMMA ArrangementBijects ==
  ASSUME NEW S, IsFiniteSet(S), NEW R, StrictOrder(R, S), NEW s, Arranged(s, S, R)
  PROVE  /\ \A i, j \in 1 .. Cardinality(S) : i # j => s[i] # s[j]
         /\ \A x \in S : \E i \in 1 .. Cardinality(S) : s[i] = x
<1> DEFINE n == Cardinality(S)
<1>1. n \in Nat /\ IsFiniteSet(1 .. n) /\ Cardinality(1 .. n) = n
  BY FS_CardinalityType, FS_Interval
<1>2. ASSUME NEW i \in 1 .. n, NEW j \in 1 .. n, i # j PROVE s[i] # s[j]
  <2>1. s[i] \in S /\ s[j] \in S  BY DEF Arranged
  <2>2. <<s[i], s[j]>> \in R \/ <<s[j], s[i]>> \in R
    <3>1. i < j \/ j < i  BY <1>1, <1>2
    <3> QED  BY <3>1 DEF Arranged
  <2> QED  BY <2>1, <2>2 DEF StrictOrder
<1>3. s \in Injection(1 .. n, S)  BY <1>2 DEF Injection, IsInjective, Arranged
<1>4. s \in Surjection(1 .. n, S)  BY <1>1, <1>3, FS_Injection
<1> QED  BY <1>2, <1>4 DEF Surjection

(* The k-th of an arrangement has k - 1 others before it.                  *)
LEMMA ArrangementRank ==
  ASSUME NEW S, IsFiniteSet(S), NEW R, StrictOrder(R, S), NEW s, Arranged(s, S, R),
         NEW k \in 1 .. Cardinality(S)
  PROVE  Rank(s[k], S, R) = k - 1
<1> DEFINE n == Cardinality(S)
           X == {y \in S : <<y, s[k]>> \in R}
           g == [i \in 1 .. k - 1 |-> s[i]]
<1>1. n \in Nat /\ k \in 1 .. n  BY FS_CardinalityType
<1>2. s \in [1 .. n -> S] /\ \A i, j \in 1 .. n : i < j => <<s[i], s[j]>> \in R
  BY DEF Arranged
<1>3. \A i, j \in 1 .. n : i # j => s[i] # s[j]  BY ArrangementBijects
<1>4. \A x \in S : \E i \in 1 .. n : s[i] = x  BY ArrangementBijects
<1> HIDE DEF n
<1>5. \A i \in 1 .. n : <<s[i], s[k]>> \in R => i < k
  <2> SUFFICES ASSUME NEW i \in 1 .. n, <<s[i], s[k]>> \in R, ~ (i < k) PROVE FALSE
    OBVIOUS
  <2>1. s[i] \in S /\ s[k] \in S  BY <1>1, <1>2
  <2>2. CASE i = k  BY <2>1, <2>2 DEF StrictOrder
  <2>3. CASE i > k
    <3>1. <<s[k], s[i]>> \in R  BY <1>1, <1>2, <2>3
    <3> QED  BY <2>1, <3>1 DEF StrictOrder
  <2> QED  BY <1>1, <2>2, <2>3
<1>6. g \in [1 .. k - 1 -> X]  BY <1>1, <1>2
<1>7. \A i, j \in 1 .. k - 1 : g[i] = g[j] => i = j  BY <1>1, <1>3
<1>8. \A y \in X : \E i \in 1 .. k - 1 : g[i] = y  BY <1>1, <1>4, <1>5
<1> HIDE DEF g, X
<1>9. g \in Bijection(1 .. k - 1, X)
  BY <1>6, <1>7, <1>8 DEF Bijection, Injection, Surjection, IsInjective
<1>10. ExistsBijection(1 .. k - 1, X)  BY <1>9 DEF ExistsBijection
<1>11. Cardinality(X) = k - 1  BY <1>1, <1>10, FS_CountingElements
<1> QED  BY <1>11 DEF X, Rank

(* There is only one arrangement.                                          *)
LEMMA ArrangementUnique ==
  ASSUME NEW S, IsFiniteSet(S), NEW R, StrictOrder(R, S),
         NEW s, Arranged(s, S, R), NEW t, Arranged(t, S, R)
  PROVE  s = t
<1>1. ASSUME NEW k \in 1 .. Cardinality(S) PROVE s[k] = t[k]
  <2>1. s[k] \in S /\ t[k] \in S  BY DEF Arranged
  <2>2. Cardinality(S) \in Nat  BY FS_CardinalityType
  <2>3. Rank(s[k], S, R) = k - 1 /\ Rank(t[k], S, R) = k - 1  BY ArrangementRank
  <2>4. <<s[k], t[k]>> \notin R  BY <2>1, <2>2, <2>3, RankGrows
  <2>5. <<t[k], s[k]>> \notin R  BY <2>1, <2>2, <2>3, RankGrows
  <2> QED  BY <2>1, <2>4, <2>5 DEF StrictOrder
<1> DEFINE D == 1 .. Cardinality(S)
<1>2. s \in [D -> S] /\ t \in [D -> S] /\ \A k \in D : s[k] = t[k]
  BY <1>1 DEF Arranged
<1> HIDE DEF D
<1> QED  BY <1>2

-------------------------------------------------------------------------------
(* The rows of a decision: typed, and of different requests.               *)
RowType ==
  [id : Int, context : BOOLEAN, prompt : Nat, done : Nat, generated : Nat,
   max_new : Nat, age : Int]

RowsOK(rows) ==
  /\ rows \in Seq(RowType)
  /\ \A i, j \in 1 .. Len(rows) : rows[i].id = rows[j].id => i = j

(* Fractions with positive denominators, compared by cross-multiplication. *)
LEMMA CrossMultiply ==
  ASSUME NEW a \in Int, NEW b \in Int, NEW c \in Int,
         NEW x \in Int, NEW y \in Int, NEW z \in Int, x > 0, y > 0, z > 0,
         a * y >= b * x, b * z >= c * y
  PROVE  a * z >= c * x
<1>1. (a * y) * z >= (b * x) * z  OBVIOUS
<1>2. (b * z) * x >= (c * y) * x  OBVIOUS
<1>3. (b * x) * z = (b * z) * x  OBVIOUS
<1>4. (a * z) * y >= (c * x) * y  BY <1>1, <1>2, <1>3
<1>5. ASSUME a * z < c * x PROVE FALSE
  <2> DEFINE u == a * z
             v == c * x
  <2>1. u \in Int /\ v \in Int /\ u < v /\ u * y >= v * y  BY <1>4, <1>5
  <2> HIDE DEF u, v
  <2> QED  BY <2>1
<1> QED  BY <1>5

(* Tolerance is a weak order: nobody is less tolerant than one who is less *)
(* tolerant than he is, and "not less tolerant" is transitive.             *)
LEMMA ToleranceOrder ==
  ASSUME NEW p \in RowType, NEW q \in RowType, NEW r \in RowType
  PROVE  /\ ~ (LessTolerant(p, q) /\ LessTolerant(q, p))
         /\ ~ LessTolerant(p, q) /\ ~ LessTolerant(q, r) => ~ LessTolerant(p, r)
<1> DEFINE credit(w) == ItlBudget * Gaps(w.max_new) - w.age
           left(w) == RemainingGaps(w)
<1>1. \A w \in RowType : credit(w) \in Int /\ left(w) \in Int
  BY DecisionAssumption DEF RowType, Gaps, RemainingGaps
<1>2. \A v, w \in RowType :
        LessTolerant(v, w) <=> /\ left(v) > 0
                               /\ left(w) > 0 => credit(v) * left(w) < credit(w) * left(v)
  BY DEF LessTolerant
<1> HIDE DEF credit, left
<1>3. ~ (LessTolerant(p, q) /\ LessTolerant(q, p))
  <2> DEFINE u == credit(p) * left(q)
             v == credit(q) * left(p)
  <2>1. u \in Int /\ v \in Int  BY <1>1
  <2>2. LessTolerant(p, q) /\ LessTolerant(q, p) => u < v /\ v < u  BY <1>2
  <2> HIDE DEF u, v
  <2> QED  BY <2>1, <2>2
<1>4. ASSUME ~ LessTolerant(p, q), ~ LessTolerant(q, r), LessTolerant(p, r) PROVE FALSE
  <2>1. left(p) > 0  BY <1>2, <1>4
  <2>2. left(q) > 0 /\ credit(p) * left(q) >= credit(q) * left(p)
    BY <1>1, <1>2, <1>4, <2>1
  <2>3. left(r) > 0 /\ credit(q) * left(r) >= credit(r) * left(q)
    BY <1>1, <1>2, <1>4, <2>2
  <2>4. credit(p) * left(r) < credit(r) * left(p)  BY <1>2, <1>4, <2>3
  <2>5. credit(p) * left(r) >= credit(r) * left(p)
    BY <1>1, <2>1, <2>2, <2>3, CrossMultiply
  <2> DEFINE u == credit(p) * left(r)
             v == credit(r) * left(p)
  <2>6. u \in Int /\ v \in Int /\ u < v /\ u >= v  BY <1>1, <2>4, <2>5
  <2> HIDE DEF u, v
  <2> QED  BY <2>6
<1> QED  BY <1>3, <1>4

(* The order in which candidates are tried, as a relation on indices.      *)
Precedes(rows, ord, i, j) ==
  IF ord = "Slack" THEN BySlack(rows[i], rows[j]) ELSE ByArrivalThenId(rows[i], rows[j])

TryOrder(rows, ord) ==
  {w \in (1 .. Len(rows)) \X (1 .. Len(rows)) : Precedes(rows, ord, w[1], w[2])}

LEMMA TryOrderTotal ==
  ASSUME NEW rows, RowsOK(rows), NEW ord, NEW S \in SUBSET (1 .. Len(rows))
  PROVE  StrictOrder(TryOrder(rows, ord), S)
<1>1. \A i \in S : rows[i] \in RowType /\ rows[i].id \in Int /\ rows[i].age \in Int
  <2>1. \A i \in 1 .. Len(rows) : rows[i] \in RowType  BY DEF RowsOK
  <2>2. \A w \in RowType : w.id \in Int /\ w.age \in Int  BY DEF RowType
  <2> QED  BY <2>1, <2>2
<1>2. \A i, j \in S : rows[i].id = rows[j].id => i = j  BY DEF RowsOK
<1>3. \A i, j \in S : <<i, j>> \in TryOrder(rows, ord) <=> Precedes(rows, ord, i, j)
  BY DEF TryOrder
<1>4. CASE ord = "Slack"
  <2>1. \A i, j \in S : Precedes(rows, ord, i, j) <=> BySlack(rows[i], rows[j])
    BY <1>4 DEF Precedes
  <2>2. \A i \in S : ~ BySlack(rows[i], rows[i])
    BY <1>1, ToleranceOrder DEF BySlack
  <2>3. \A i, j \in S : i # j => BySlack(rows[i], rows[j]) \/ BySlack(rows[j], rows[i])
    BY <1>1, <1>2 DEF BySlack
  <2>4. ASSUME NEW i \in S, NEW j \in S, NEW k \in S,
               BySlack(rows[i], rows[j]), BySlack(rows[j], rows[k])
        PROVE  BySlack(rows[i], rows[k])
    <3> DEFINE L(v, w) == LessTolerant(rows[v], rows[w])
    <3>1. \A u, v, w \in {i, j, k} :
            ~ (L(u, v) /\ L(v, u)) /\ (~ L(u, v) /\ ~ L(v, w) => ~ L(u, w))
      BY <1>1, ToleranceOrder
    <3>2. /\ L(i, j) \/ (~ L(j, i) /\ rows[i].id < rows[j].id)
          /\ L(j, k) \/ (~ L(k, j) /\ rows[j].id < rows[k].id)
      BY <2>4 DEF BySlack
    <3>3. rows[i].id < rows[j].id /\ rows[j].id < rows[k].id => rows[i].id < rows[k].id
      BY <1>1
    <3> HIDE DEF L
    <3>4. L(i, k) \/ (~ L(k, i) /\ rows[i].id < rows[k].id)  BY <3>1, <3>2, <3>3
    <3> QED  BY <3>4 DEF BySlack, L
  <2> QED  BY <1>3, <2>1, <2>2, <2>3, <2>4 DEF StrictOrder
<1>5. CASE ord # "Slack"
  <2>1. \A i, j \in S : Precedes(rows, ord, i, j) <=> ByArrivalThenId(rows[i], rows[j])
    BY <1>5 DEF Precedes
  <2>2. \A i \in S : ~ ByArrivalThenId(rows[i], rows[i])
    BY <1>1 DEF ByArrivalThenId
  <2>3. \A i, j \in S : i # j => ByArrivalThenId(rows[i], rows[j])
                                 \/ ByArrivalThenId(rows[j], rows[i])
    BY <1>1, <1>2 DEF ByArrivalThenId
  <2>4. \A i, j, k \in S :
          ByArrivalThenId(rows[i], rows[j]) /\ ByArrivalThenId(rows[j], rows[k])
            => ByArrivalThenId(rows[i], rows[k])
    BY <1>1 DEF ByArrivalThenId
  <2> QED  BY <1>3, <2>1, <2>2, <2>3, <2>4 DEF StrictOrder
<1> QED  BY <1>4, <1>5

(* Candidates arranges the rows of one phase that are not in flight.       *)
Eligible(rows, inflight, context) ==
  {i \in 1 .. Len(rows) : rows[i].id \notin inflight /\ rows[i].context = context}

LEMMA CandidatesArranged ==
  ASSUME NEW rows, RowsOK(rows), NEW inflight, NEW context, NEW ord
  PROVE  /\ IsFiniteSet(Eligible(rows, inflight, context))
         /\ StrictOrder(TryOrder(rows, ord), Eligible(rows, inflight, context))
         /\ Arranged(Candidates(rows, inflight, context, ord),
                     Eligible(rows, inflight, context), TryOrder(rows, ord))
<1> DEFINE S == Eligible(rows, inflight, context)
           R == TryOrder(rows, ord)
<1>1. Len(rows) \in Nat /\ S \in SUBSET (1 .. Len(rows))  BY DEF RowsOK, Eligible
<1>2. IsFiniteSet(S)
  <2>1. IsFiniteSet(1 .. Len(rows))  BY <1>1, FS_Interval
  <2> QED  BY <1>1, <2>1, FS_Subset
<1>3. StrictOrder(R, S)  BY <1>1, TryOrderTotal
<1>4. \A i, j \in S : <<i, j>> \in R <=> Precedes(rows, ord, i, j)
  BY <1>1 DEF TryOrder
<1>5. Candidates(rows, inflight, context, ord)
        = CHOOSE s \in [1 .. Cardinality(S) -> S] :
            \A i, j \in DOMAIN s : i < j => Precedes(rows, ord, s[i], s[j])
  BY DEF Candidates, Sorted, Precedes, Eligible
<1>6. PICK t : Arranged(t, S, R)  BY <1>2, <1>3, ArrangementExists
<1> HIDE DEF S, R
<1>7. \A s \in [1 .. Cardinality(S) -> S] :
        (\A i, j \in DOMAIN s : i < j => Precedes(rows, ord, s[i], s[j]))
          <=> Arranged(s, S, R)
  BY <1>4 DEF Arranged
<1>8. t \in [1 .. Cardinality(S) -> S]  BY <1>6 DEF Arranged
<1>9. Arranged(Candidates(rows, inflight, context, ord), S, R)
  BY <1>5, <1>6, <1>7, <1>8
<1> QED  BY <1>2, <1>3, <1>9 DEF S, R

-------------------------------------------------------------------------------
(* A function defined by primitive recursion up to N exists.               *)
Recursive(f, D, b, N, G) ==
  /\ f \in [0 .. N -> D]
  /\ f[0] = b
  /\ \A k \in 1 .. N : f[k] = G[k][f[k - 1]]

LEMMA RecursionExists ==
  ASSUME NEW D, NEW b \in D, NEW N \in Nat, NEW G \in [1 .. N -> [D -> D]]
  PROVE  \E f : Recursive(f, D, b, N, G)
<1> DEFINE T == {m \in 0 .. N : \E f : Recursive(f, D, b, m, G)}
<1>1. 0 \in T
  <2> DEFINE g == [k \in 0 .. 0 |-> b]
  <2>1. g \in [0 .. 0 -> D] /\ g[0] = b /\ \A k \in 1 .. 0 : g[k] = G[k][g[k - 1]]
    OBVIOUS
  <2>2. Recursive(g, D, b, 0, G)  BY <2>1 DEF Recursive
  <2> QED  BY <2>2
<1>2. ASSUME NEW m \in 1 .. N, m - 1 \in T PROVE m \in T
  <2>1. PICK f : Recursive(f, D, b, m - 1, G)  BY <1>2
  <2>2. /\ f \in [0 .. m - 1 -> D]
        /\ f[0] = b /\ \A k \in 1 .. m - 1 : f[k] = G[k][f[k - 1]]
    BY <2>1 DEF Recursive
  <2> DEFINE g == [k \in 0 .. m |-> IF k = m THEN G[m][f[m - 1]] ELSE f[k]]
  <2>3. g \in [0 .. m -> D]  BY <2>2
  <2>4. g[0] = b  BY <2>2
  <2>5. ASSUME NEW k \in 1 .. m PROVE g[k] = G[k][g[k - 1]]
    <3>1. g[k - 1] = f[k - 1]  OBVIOUS
    <3>2. CASE k = m  BY <3>1, <3>2
    <3>3. CASE k # m  BY <2>2, <3>1, <3>3
    <3> QED  BY <3>2, <3>3
  <2> HIDE DEF g
  <2>6. Recursive(g, D, b, m, G)  BY <2>3, <2>4, <2>5 DEF Recursive
  <2> QED  BY <2>6
<1> HIDE DEF T
<1>3. 0 .. N \subseteq T  BY <1>1, <1>2, SetInduction
<1>4. N \in T  BY <1>3
<1> QED  BY <1>4 DEF T

(* A decision taken so far.                                                *)
Decision == [fitting : Seq(Nat), paused : Seq(Nat), tokens : Nat]

LEMMA TryType ==
  ASSUME NEW d \in Decision, NEW i \in Nat, NEW cost \in Nat, NEW allowed
  PROVE  Try(d, i, cost, allowed) \in Decision
<1>1. Append(d.fitting, i) \in Seq(Nat) /\ Append(d.paused, i) \in Seq(Nat)
  BY AppendProperties DEF Decision
<1>2. d.tokens + cost \in Nat  BY DEF Decision
<1>3. \/ Try(d, i, cost, allowed) = [d EXCEPT !.fitting = Append(@, i), !.tokens = @ + cost]
      \/ Try(d, i, cost, allowed) = [d EXCEPT !.paused = Append(@, i)]
  BY DEF Try
<1> QED  BY <1>1, <1>2, <1>3 DEF Decision

LEMMA CandidatesType ==
  ASSUME NEW rows, RowsOK(rows), NEW inflight, NEW context, NEW ord
  PROVE  /\ Candidates(rows, inflight, context, ord) \in Seq(1 .. Len(rows))
         /\ Len(Candidates(rows, inflight, context, ord))
              = Cardinality(Eligible(rows, inflight, context))
         /\ Cardinality(Eligible(rows, inflight, context)) \in Nat
<1> DEFINE S == Eligible(rows, inflight, context)
           tried == Candidates(rows, inflight, context, ord)
<1>1. tried \in [1 .. Cardinality(S) -> S]  BY CandidatesArranged DEF Arranged
<1>2. Cardinality(S) \in Nat  BY CandidatesArranged, FS_CardinalityType
<1>3. S \subseteq 1 .. Len(rows)  BY DEF Eligible
<1> HIDE DEF tried, S
<1>4. tried \in Seq(1 .. Len(rows))
  <2>1. PICK n \in Nat : n = Cardinality(S)  BY <1>2
  <2>2. tried \in [1 .. n -> 1 .. Len(rows)]  BY <1>1, <1>3, <2>1
  <2> QED  BY <2>2, SeqDef
<1>5. Len(tried) = Cardinality(S)  BY <1>1, <1>2, <1>4, LenProperties
<1> QED  BY <1>2, <1>4, <1>5 DEF tried, S

(* What the two loops try, in this order.                                  *)
GenerationTried(rows, inflight, ord) == Candidates(rows, inflight, FALSE, ord)
ContextTried(rows, inflight) == Candidates(rows, inflight, TRUE, "Arrival")

LEMMA TriedType ==
  ASSUME NEW rows, RowsOK(rows), NEW inflight, NEW ord, NEW tried,
         \/ tried = GenerationTried(rows, inflight, ord)
         \/ tried = ContextTried(rows, inflight)
  PROVE  /\ Len(tried) \in Nat
         /\ \A k \in 1 .. Len(tried) : tried[k] \in Nat /\ tried[k] \in 1 .. Len(rows)
<1>1. tried \in Seq(1 .. Len(rows))
  BY CandidatesType DEF GenerationTried, ContextTried
<1>2. Len(tried) \in Nat /\ \A k \in 1 .. Len(tried) : tried[k] \in 1 .. Len(rows)
  BY <1>1, LenProperties, ElementOfSeq
<1>3. \A i \in 1 .. Len(rows) : i \in Nat  BY DEF RowsOK
<1> QED  BY <1>2, <1>3

(* The decisions of the generation loop, one candidate after the other.    *)
GenerationSteps(f, N, tried, most) ==
  /\ f \in [0 .. N -> Decision]
  /\ f[0] = NothingDecided
  /\ \A k \in 1 .. N : f[k] = Try(f[k - 1], tried[k], 1, Len(f[k - 1].fitting) < most)

LEMMA GenerationScan ==
  ASSUME NEW rows, RowsOK(rows), NEW inflight, NEW ord, NEW most \in Nat,
         NEW tried, tried = GenerationTried(rows, inflight, ord)
  PROVE  \E f : /\ GenerationSteps(f, Len(tried), tried, most)
                /\ DecideGeneration(rows, inflight, ord, most) = f[Len(tried)]
<1> DEFINE G(N) == [k \in 1 .. N |-> [d \in Decision |->
                      Try(d, tried[k], 1, Len(d.fitting) < most)]]
           after[k \in 0 .. Len(tried)] ==
             IF k = 0 THEN NothingDecided
             ELSE LET decided == after[k - 1] IN
                  Try(decided, tried[k], 1, Len(decided.fitting) < most)
<1>1. PICK N \in Nat : N = Len(tried) /\ \A k \in 1 .. N : tried[k] \in Nat
  BY TriedType
<1>2. NothingDecided \in Decision  BY DEF NothingDecided, Decision
<1>3. G(N) \in [1 .. N -> [Decision -> Decision]]  BY <1>1, TryType
<1>4. PICK f : Recursive(f, Decision, NothingDecided, N, G(N))
  <2> HIDE DEF G, after
  <2> QED  BY <1>1, <1>2, <1>3, RecursionExists
<1>5. /\ f \in [0 .. N -> Decision] /\ f[0] = NothingDecided
      /\ \A k \in 1 .. N : f[k] = Try(f[k - 1], tried[k], 1, Len(f[k - 1].fitting) < most)
  <2>1. f \in [0 .. N -> Decision] /\ f[0] = NothingDecided  BY <1>4 DEF Recursive
  <2>2. ASSUME NEW k \in 1 .. N
        PROVE  f[k] = Try(f[k - 1], tried[k], 1, Len(f[k - 1].fitting) < most)
    <3>1. f[k] = G(N)[k][f[k - 1]]  BY <1>4 DEF Recursive
    <3>2. f[k - 1] \in Decision  BY <2>1
    <3> QED  BY <3>1, <3>2
  <2> QED  BY <2>1, <2>2
<1> HIDE DEF G
<1>6. f = [k \in 0 .. N |-> IF k = 0 THEN NothingDecided
             ELSE LET decided == f[k - 1] IN
                  Try(decided, tried[k], 1, Len(decided.fitting) < most)]
  BY <1>5
<1>7. after = [k \in 0 .. N |-> IF k = 0 THEN NothingDecided
                 ELSE LET decided == after[k - 1] IN
                      Try(decided, tried[k], 1, Len(decided.fitting) < most)]
  BY <1>1, <1>6
<1>8. DecideGeneration(rows, inflight, ord, most) = after[N]
  BY <1>1 DEF DecideGeneration, GenerationTried
<1> HIDE DEF after
<1>9. /\ after[0] = NothingDecided
      /\ \A k \in 1 .. N :
           after[k] = Try(after[k - 1], tried[k], 1, Len(after[k - 1].fitting) < most)
  BY <1>7
<1> DEFINE T == {k \in 0 .. N : after[k] \in Decision}
<1>10. 0 \in T  BY <1>2, <1>9
<1>11. ASSUME NEW k \in 1 .. N, k - 1 \in T PROVE k \in T
  <2>1. PICK d \in Decision : d = after[k - 1]  BY <1>11
  <2>2. after[k] = Try(d, tried[k], 1, Len(d.fitting) < most)  BY <1>9, <2>1
  <2>3. tried[k] \in Nat /\ 1 \in Nat  BY <1>1
  <2>4. after[k] \in Decision
    <3> HIDE DEF T
    <3> QED  BY <2>2, <2>3, TryType
  <2> QED  BY <2>4
<1>12. 0 .. N \subseteq T
  <2> HIDE DEF T
  <2> QED  BY <1>10, <1>11, SetInduction
<1>13. after \in [0 .. N -> Decision]  BY <1>7, <1>12
<1>14. GenerationSteps(after, N, tried, most)  BY <1>9, <1>13 DEF GenerationSteps
<1> QED  BY <1>1, <1>8, <1>14

(* The decisions of the loop over the prompts, from those of the other.    *)
TryPrompt(d, x, rows, first, kv_free) ==
  Try(d, x, RemainingPrompt(rows[x]), MayStart(rows[x], first.paused # <<>>, kv_free))

ContextSteps(f, N, tried, rows, first, kv_free) ==
  /\ f \in [0 .. N -> Decision]
  /\ f[0] = first
  /\ \A k \in 1 .. N : f[k] = TryPrompt(f[k - 1], tried[k], rows, first, kv_free)

LEMMA ContextScan ==
  ASSUME NEW rows, RowsOK(rows), NEW inflight, NEW ord, NEW most \in Nat,
         NEW kv_free \in Nat,
         NEW first \in Decision, first = DecideGeneration(rows, inflight, ord, most),
         NEW tried, tried = ContextTried(rows, inflight)
  PROVE  \E f : /\ ContextSteps(f, Len(tried), tried, rows, first, kv_free)
                /\ Decide(rows, inflight, ord, most, kv_free) = f[Len(tried)]
<1> DEFINE next(k, d) == Try(d, tried[k], RemainingPrompt(rows[tried[k]]),
                             MayStart(rows[tried[k]], first.paused # <<>>, kv_free))
           G(N) == [k \in 1 .. N |-> [d \in Decision |-> next(k, d)]]
           after[k \in 0 .. Len(tried)] ==
             IF k = 0 THEN first
             ELSE Try(after[k - 1], tried[k], RemainingPrompt(rows[tried[k]]),
                      MayStart(rows[tried[k]], first.paused # <<>>, kv_free))
<1>1. PICK N \in Nat : /\ N = Len(tried)
                       /\ \A k \in 1 .. N : /\ tried[k] \in Nat
                                            /\ RemainingPrompt(rows[tried[k]]) \in Nat
  <2>1. Len(tried) \in Nat /\ \A k \in 1 .. Len(tried) : tried[k] \in 1 .. Len(rows)
    BY TriedType
  <2>2. \A i \in 1 .. Len(rows) : i \in Nat /\ rows[i] \in RowType  BY DEF RowsOK
  <2>3. \A w \in RowType : RemainingPrompt(w) \in Nat  BY DEF RowType, RemainingPrompt
  <2> QED  BY <2>1, <2>2, <2>3
<1>2. \A k \in 1 .. N, d \in Decision : next(k, d) \in Decision
  BY <1>1, TryType
<1>3. G(N) \in [1 .. N -> [Decision -> Decision]]
  <2> HIDE DEF next
  <2> QED  BY <1>2
<1>4. PICK f : Recursive(f, Decision, first, N, G(N))
  <2> HIDE DEF G, after
  <2> QED  BY <1>1, <1>3, RecursionExists
<1>5. /\ f \in [0 .. N -> Decision] /\ f[0] = first
      /\ \A k \in 1 .. N : f[k] = next(k, f[k - 1])
  <2> HIDE DEF next, after
  <2>1. f \in [0 .. N -> Decision] /\ f[0] = first  BY <1>4 DEF Recursive
  <2>2. ASSUME NEW k \in 1 .. N PROVE f[k] = next(k, f[k - 1])
    <3>1. f[k] = G(N)[k][f[k - 1]]  BY <1>4 DEF Recursive
    <3>2. f[k - 1] \in Decision  BY <2>1
    <3> QED  BY <3>1, <3>2
  <2> QED  BY <2>1, <2>2
<1> HIDE DEF G
<1>6. f = [k \in 0 .. N |-> IF k = 0 THEN first ELSE
             Try(f[k - 1], tried[k], RemainingPrompt(rows[tried[k]]),
                 MayStart(rows[tried[k]], first.paused # <<>>, kv_free))]
  BY <1>5
<1>7. after = [k \in 0 .. N |-> IF k = 0 THEN first ELSE
                 Try(after[k - 1], tried[k], RemainingPrompt(rows[tried[k]]),
                     MayStart(rows[tried[k]], first.paused # <<>>, kv_free))]
  BY <1>1, <1>6
<1>8. Decide(rows, inflight, ord, most, kv_free) = after[N]
  BY <1>1 DEF Decide, ContextTried
<1> HIDE DEF after
<1>9. after[0] = first /\ \A k \in 1 .. N : after[k] = next(k, after[k - 1])
  BY <1>7
<1> HIDE DEF next
<1> DEFINE T == {k \in 0 .. N : after[k] \in Decision}
<1>10. 0 \in T  BY <1>9
<1>11. ASSUME NEW k \in 1 .. N, k - 1 \in T PROVE k \in T
  <2>1. after[k] = next(k, after[k - 1]) /\ after[k - 1] \in Decision  BY <1>9, <1>11
  <2> QED  BY <1>2, <2>1
<1>12. 0 .. N \subseteq T
  <2> HIDE DEF T
  <2> QED  BY <1>10, <1>11, SetInduction
<1>13. after \in [0 .. N -> Decision]  BY <1>7, <1>12
<1>14. ContextSteps(after, N, tried, rows, first, kv_free)
  BY <1>9, <1>13 DEF ContextSteps, TryPrompt, next
<1> QED  BY <1>1, <1>8, <1>14

-------------------------------------------------------------------------------
(* After k candidates the generation loop has admitted the first m of them *)
(* and paused the rest, and has paused none before a budget was used up.   *)
CutAt(d, tried, k, m, most) ==
  /\ d \in Decision /\ m \in 0 .. k
  /\ Len(d.fitting) = m /\ \A i \in 1 .. m : d.fitting[i] = tried[i]
  /\ Len(d.paused) = k - m /\ \A i \in 1 .. k - m : d.paused[i] = tried[m + i]
  /\ d.tokens = m /\ m <= MaxBatchSize /\ m <= MaxNumTokens
  /\ m < k => m >= most \/ m >= MaxBatchSize \/ m >= MaxNumTokens

LEMMA AppendLemma ==
  ASSUME NEW q \in Seq(Nat), NEW x \in Nat
  PROVE  /\ Append(q, x) \in Seq(Nat)
         /\ Len(Append(q, x)) = Len(q) + 1 /\ Append(q, x)[Len(q) + 1] = x
         /\ \A j \in 1 .. Len(q) : Append(q, x)[j] = q[j]
OBVIOUS

LEMMA CutStep ==
  ASSUME NEW d, NEW tried, NEW k \in Nat \ {0}, NEW m, NEW most \in Nat,
         tried[k] \in Nat, CutAt(d, tried, k - 1, m, most)
  PROVE  \E n : CutAt(Try(d, tried[k], 1, Len(d.fitting) < most), tried, k, n, most)
<1> DEFINE i == tried[k]
           admits == /\ m < most /\ m < MaxBatchSize
                     /\ m + 1 <= MaxNumTokens
           e == Try(d, i, 1, Len(d.fitting) < most)
<1>1. /\ d \in Decision /\ d.fitting \in Seq(Nat) /\ d.paused \in Seq(Nat)
      /\ m \in 0 .. k - 1 /\ d.tokens = m /\ Len(d.fitting) = m /\ Len(d.paused) = k - 1 - m
  BY DEF CutAt, Decision
<1>2. MaxBatchSize \in Nat /\ MaxNumTokens \in Nat  BY DecisionAssumption
<1>3. e \in Decision /\ i \in Nat  BY <1>1, TryType
<1>4. CASE admits
  <2>1. e = [d EXCEPT !.fitting = Append(@, i), !.tokens = @ + 1]
    BY <1>1, <1>2, <1>4 DEF Try
  <2>2. e.fitting = Append(d.fitting, i) /\ e.paused = d.paused /\ e.tokens = m + 1
    BY <1>1, <2>1 DEF Decision
  <2> HIDE DEF e, i
  <2>3. m = k - 1  BY <1>1, <1>2, <1>4 DEF CutAt
  <2>4. /\ Len(e.fitting) = m + 1 /\ e.fitting[m + 1] = i
        /\ \A j \in 1 .. m : e.fitting[j] = d.fitting[j]
    BY <1>1, <1>3, <2>2, AppendLemma
  <2>5. \A j \in 1 .. m + 1 : e.fitting[j] = tried[j]
    BY <1>1, <2>3, <2>4 DEF CutAt, i
  <2>6. CutAt(e, tried, k, m + 1, most)
    BY <1>1, <1>2, <1>3, <1>4, <2>2, <2>3, <2>4, <2>5 DEF CutAt
  <2> QED  BY <2>6 DEF e, i
<1>5. CASE ~ admits
  <2>1. e = [d EXCEPT !.paused = Append(@, i)]
    BY <1>1, <1>2, <1>5 DEF Try
  <2>2. e.fitting = d.fitting /\ e.paused = Append(d.paused, i) /\ e.tokens = m
    BY <1>1, <2>1 DEF Decision
  <2> HIDE DEF e, i
  <2>3. /\ Len(e.paused) = k - m /\ e.paused[k - m] = i
        /\ \A j \in 1 .. k - 1 - m : e.paused[j] = d.paused[j]
    BY <1>1, <1>3, <2>2, AppendLemma
  <2>4. ASSUME NEW j \in 1 .. k - m PROVE e.paused[j] = tried[m + j]
    <3>1. CASE j = k - m  BY <1>1, <2>3, <3>1 DEF i
    <3>2. CASE j # k - m
      <4>1. j \in 1 .. k - 1 - m  BY <1>1, <3>2
      <4> QED  BY <2>3, <4>1 DEF CutAt
    <3> QED  BY <3>1, <3>2
  <2>5. m >= most \/ m >= MaxBatchSize \/ m >= MaxNumTokens  BY <1>1, <1>2, <1>5
  <2>6. \A j \in 1 .. m : e.fitting[j] = tried[j]  BY <2>2 DEF CutAt
  <2>7. m <= MaxBatchSize /\ m <= MaxNumTokens /\ m \in 0 .. k  BY <1>1 DEF CutAt
  <2> HIDE DEF admits
  <2>8. CutAt(e, tried, k, m, most)
    BY <1>1, <1>3, <2>2, <2>3, <2>4, <2>5, <2>6, <2>7 DEF CutAt
  <2> QED  BY <2>8 DEF e, i
<1> QED  BY <1>4, <1>5

LEMMA GenerationOutcome ==
  ASSUME NEW rows, RowsOK(rows), NEW inflight, NEW ord, NEW most \in Nat,
         NEW tried, tried = GenerationTried(rows, inflight, ord)
  PROVE  \E m : CutAt(DecideGeneration(rows, inflight, ord, most), tried,
                      Len(tried), m, most)
<1>1. PICK N \in Nat : N = Len(tried) /\ \A k \in 1 .. N : tried[k] \in Nat
  BY TriedType
<1>2. PICK f : /\ GenerationSteps(f, N, tried, most)
               /\ DecideGeneration(rows, inflight, ord, most) = f[N]
  BY <1>1, GenerationScan
<1> DEFINE T == {k \in 0 .. N : \E m : CutAt(f[k], tried, k, m, most)}
<1>3. 0 \in T
  <2>1. /\ NothingDecided \in Decision
        /\ Len(NothingDecided.fitting) = 0 /\ Len(NothingDecided.paused) = 0
        /\ NothingDecided.tokens = 0
    BY DEF NothingDecided, Decision
  <2>2. CutAt(NothingDecided, tried, 0, 0, most)
    BY <2>1, DecisionAssumption DEF CutAt
  <2>3. f[0] = NothingDecided  BY <1>2 DEF GenerationSteps
  <2> QED  BY <2>2, <2>3
<1>4. ASSUME NEW k \in 1 .. N, k - 1 \in T PROVE k \in T
  <2>1. PICK m : CutAt(f[k - 1], tried, k - 1, m, most)  BY <1>4
  <2>2. f[k] = Try(f[k - 1], tried[k], 1, Len(f[k - 1].fitting) < most)
    BY <1>2 DEF GenerationSteps
  <2>3. k \in Nat \ {0} /\ tried[k] \in Nat  BY <1>1
  <2>4. \E n : CutAt(f[k], tried, k, n, most)
    <3> HIDE DEF T
    <3> QED  BY <2>1, <2>2, <2>3, CutStep
  <2> QED  BY <2>4
<1>5. 0 .. N \subseteq T
  <2> HIDE DEF T
  <2> QED  BY <1>1, <1>3, <1>4, SetInduction
<1>6. N \in T  BY <1>1, <1>5
<1> QED  BY <1>1, <1>2, <1>6

-------------------------------------------------------------------------------
(* What the loop over the prompts has done after k of them: F went in and  *)
(* P did not, each for a reason that still holds.                          *)
Refused(d, i, rows, stalled, kv_free) ==
  \/ stalled
  \/ rows[i].done = 0 /\ kv_free < WatermarkBlocks
  \/ Len(d.fitting) >= MaxBatchSize
  \/ d.tokens + RemainingPrompt(rows[i]) > MaxNumTokens

Filled(d, F, P, Tried, rows, first, kv_free) ==
  /\ d \in Decision
  /\ Len(first.fitting) <= Len(d.fitting) /\ Len(d.fitting) <= MaxBatchSize
  /\ first.tokens <= d.tokens
  /\ F \cup P = Tried
  /\ ToSet(d.fitting) = ToSet(first.fitting) \cup F
  /\ ToSet(d.paused) = ToSet(first.paused) \cup P
  /\ F # {} => first.paused = <<>>
  /\ \A i \in P : Refused(d, i, rows, first.paused # <<>>, kv_free)

LEMMA AppendSet ==
  ASSUME NEW q \in Seq(Nat), NEW x \in Nat
  PROVE  ToSet(Append(q, x)) = ToSet(q) \cup {x}
<1>1. /\ Len(q) \in Nat /\ DOMAIN q = 1 .. Len(q)
      /\ DOMAIN Append(q, x) = 1 .. Len(q) + 1
  BY AppendProperties, LenProperties
<1>2. /\ Append(q, x)[Len(q) + 1] = x
      /\ \A j \in 1 .. Len(q) : Append(q, x)[j] = q[j]
  BY AppendLemma
<1> QED  BY <1>1, <1>2 DEF ToSet

LEMMA FilledStep ==
  ASSUME NEW d, NEW F, NEW P, NEW Tried, NEW rows, NEW first \in Decision,
         NEW kv_free \in Nat, NEW x \in Nat, rows[x] \in RowType,
         \A i \in Tried : rows[i] \in RowType,
         Filled(d, F, P, Tried, rows, first, kv_free)
  PROVE  \E A, B : Filled(TryPrompt(d, x, rows, first, kv_free), A, B, Tried \cup {x},
                          rows, first, kv_free)
<1> DEFINE cost(i) == RemainingPrompt(rows[i])
           stalled == first.paused # <<>>
           may == MayStart(rows[x], stalled, kv_free)
           e == Try(d, x, cost(x), may)
<1>1. \A i \in Tried \cup {x} : cost(i) \in Nat  BY DEF RowType, RemainingPrompt
<1>2. /\ d \in Decision /\ d.fitting \in Seq(Nat) /\ d.paused \in Seq(Nat)
      /\ d.tokens \in Nat /\ Len(d.fitting) \in Nat
      /\ first.tokens \in Nat /\ Len(first.fitting) \in Nat
  BY DEF Filled, Decision
<1>3. MaxBatchSize \in Nat /\ MaxNumTokens \in Nat /\ WatermarkBlocks \in Nat
  BY DecisionAssumption
<1>4. e \in Decision  BY <1>1, <1>2, TryType
<1>5. may => ~ stalled  BY DEF MayStart
<1>6. ~ may => stalled \/ (rows[x].done = 0 /\ kv_free < WatermarkBlocks)
  BY <1>3 DEF MayStart
<1> DEFINE admits == /\ may /\ Len(d.fitting) < MaxBatchSize
                     /\ d.tokens + cost(x) <= MaxNumTokens
<1>7. CASE admits
  <2>1. e = [d EXCEPT !.fitting = Append(@, x), !.tokens = @ + cost(x)]
    BY <1>7 DEF Try
  <2>2. e.fitting = Append(d.fitting, x) /\ e.paused = d.paused /\ e.tokens = d.tokens + cost(x)
    BY <1>2, <2>1 DEF Decision
  <2> HIDE DEF e, cost, stalled, may
  <2>3. Len(e.fitting) = Len(d.fitting) + 1 /\ ToSet(e.fitting) = ToSet(d.fitting) \cup {x}
    <3>1. Len(e.fitting) = Len(d.fitting) + 1  BY <1>2, <2>2, AppendLemma
    <3>2. ToSet(e.fitting) = ToSet(d.fitting) \cup {x}  BY <1>2, <2>2, AppendSet
    <3> QED  BY <3>1, <3>2
  <2>4. first.paused = <<>>  BY <1>5, <1>7 DEF stalled
  <2>5. ASSUME NEW i \in P PROVE Refused(e, i, rows, stalled, kv_free)
    <3>1. cost(i) \in Nat /\ cost(x) \in Nat  BY <1>1 DEF Filled
    <3>2. Refused(d, i, rows, stalled, kv_free)  BY DEF Filled, stalled
    <3> QED  BY <1>2, <1>3, <2>2, <2>3, <3>1, <3>2 DEF Refused, cost
  <2>6. Filled(e, F \cup {x}, P, Tried \cup {x}, rows, first, kv_free)
    <3>1. first.tokens <= e.tokens  BY <1>1, <1>2, <2>2 DEF Filled
    <3>2. Len(first.fitting) <= Len(e.fitting) /\ Len(e.fitting) <= MaxBatchSize
      BY <1>2, <1>3, <1>7, <2>3 DEF Filled
    <3> QED  BY <1>4, <2>2, <2>3, <2>4, <2>5, <3>1, <3>2 DEF Filled, stalled
  <2> QED  BY <2>6 DEF TryPrompt, e, cost, stalled, may
<1>8. CASE ~ admits
  <2>1. e = [d EXCEPT !.paused = Append(@, x)]  BY <1>8 DEF Try
  <2>2. e.fitting = d.fitting /\ e.paused = Append(d.paused, x) /\ e.tokens = d.tokens
    BY <1>2, <2>1 DEF Decision
  <2> HIDE DEF e, cost, stalled, may
  <2>3. ToSet(e.paused) = ToSet(d.paused) \cup {x}  BY <1>2, <2>2, AppendSet
  <2>4. Refused(e, x, rows, stalled, kv_free)
    <3>1. cost(x) \in Nat  BY <1>1
    <3>2. \/ ~ may \/ Len(e.fitting) >= MaxBatchSize
          \/ e.tokens + cost(x) > MaxNumTokens
      BY <1>2, <1>3, <1>8, <2>2, <3>1
    <3> QED  BY <1>6, <3>2 DEF Refused, cost
  <2>5. ASSUME NEW i \in P PROVE Refused(e, i, rows, stalled, kv_free)
    <3>1. Refused(d, i, rows, stalled, kv_free)  BY DEF Filled, stalled
    <3> QED  BY <2>2, <3>1 DEF Refused
  <2>6. Filled(e, F, P \cup {x}, Tried \cup {x}, rows, first, kv_free)
    BY <1>4, <2>2, <2>3, <2>4, <2>5 DEF Filled, stalled
  <2> QED  BY <2>6 DEF TryPrompt, e, cost, stalled, may
<1> QED  BY <1>7, <1>8

LEMMA ContextOutcome ==
  ASSUME NEW rows, RowsOK(rows), NEW inflight, NEW ord, NEW most \in Nat,
         NEW kv_free \in Nat,
         NEW first \in Decision, first = DecideGeneration(rows, inflight, ord, most),
         Len(first.fitting) <= MaxBatchSize,
         NEW tried, tried = ContextTried(rows, inflight)
  PROVE  \E F, P : Filled(Decide(rows, inflight, ord, most, kv_free), F, P,
                          {tried[j] : j \in 1 .. Len(tried)}, rows, first, kv_free)
<1>1. PICK N \in Nat : /\ N = Len(tried)
                       /\ \A k \in 1 .. N : tried[k] \in Nat /\ rows[tried[k]] \in RowType
  <2>1. \A i \in 1 .. Len(rows) : rows[i] \in RowType  BY DEF RowsOK
  <2> QED  BY <2>1, TriedType
<1>2. PICK f : /\ ContextSteps(f, N, tried, rows, first, kv_free)
               /\ Decide(rows, inflight, ord, most, kv_free) = f[N]
  BY <1>1, ContextScan
<1> DEFINE Seen(k) == {tried[j] : j \in 1 .. k}
           T == {k \in 0 .. N : \E F, P : Filled(f[k], F, P, Seen(k), rows, first, kv_free)}
<1>3. 0 \in T
  <2>1. f[0] = first  BY <1>2 DEF ContextSteps
  <2>2. Seen(0) = {}  OBVIOUS
  <2>3. Len(first.fitting) \in Nat /\ first.tokens \in Nat  BY DEF Decision
  <2>4. Filled(first, {}, {}, {}, rows, first, kv_free)  BY <2>3 DEF Filled
  <2> HIDE DEF Seen
  <2>5. Filled(f[0], {}, {}, Seen(0), rows, first, kv_free)  BY <2>1, <2>2, <2>4
  <2> QED  BY <2>5
<1>4. ASSUME NEW k \in 1 .. N, k - 1 \in T PROVE k \in T
  <2>1. PICK F, P : Filled(f[k - 1], F, P, Seen(k - 1), rows, first, kv_free)  BY <1>4
  <2>2. f[k] = TryPrompt(f[k - 1], tried[k], rows, first, kv_free)
    BY <1>2 DEF ContextSteps
  <2>3. tried[k] \in Nat /\ rows[tried[k]] \in RowType  BY <1>1
  <2>4. \A i \in Seen(k - 1) : rows[i] \in RowType  BY <1>1
  <2>5. Seen(k) = Seen(k - 1) \cup {tried[k]}  OBVIOUS
  <2> HIDE DEF Seen
  <2>6. \E A, B : Filled(f[k], A, B, Seen(k), rows, first, kv_free)
    <3> HIDE DEF T
    <3>1. PICK S, d, x : S = Seen(k - 1) /\ d = f[k - 1] /\ x = tried[k]  OBVIOUS
    <3>2. \E A, B : Filled(TryPrompt(d, x, rows, first, kv_free), A, B, S \cup {x},
                           rows, first, kv_free)
      BY <2>1, <2>3, <2>4, <3>1, FilledStep
    <3> QED  BY <2>2, <2>5, <3>1, <3>2
  <2> QED  BY <2>6
<1>5. 0 .. N \subseteq T
  <2> HIDE DEF T, Seen
  <2> QED  BY <1>1, <1>3, <1>4, SetInduction
<1>6. N \in T
  <2> HIDE DEF T
  <2> QED  BY <1>1, <1>5
<1> QED  BY <1>1, <1>2, <1>6

-------------------------------------------------------------------------------
(* Who is tried in each loop, once and in order.                           *)
LEMMA TriedOnce ==
  ASSUME NEW rows, RowsOK(rows), NEW inflight, NEW ord, NEW tried,
         tried = GenerationTried(rows, inflight, ord)
  PROVE  /\ \A k \in 1 .. Len(tried) : ~ rows[tried[k]].context
         /\ \A i, j \in 1 .. Len(tried) : i # j => tried[i] # tried[j]
         /\ \A i, j \in 1 .. Len(tried) : i < j => Precedes(rows, ord, tried[i], tried[j])
<1> DEFINE S == Eligible(rows, inflight, FALSE)
           R == TryOrder(rows, ord)
<1>1. IsFiniteSet(S) /\ StrictOrder(R, S) /\ Arranged(tried, S, R)
  BY CandidatesArranged DEF GenerationTried
<1>2. Len(tried) = Cardinality(S)  BY CandidatesType DEF GenerationTried
<1>3. \A x \in S : ~ rows[x].context  BY DEF Eligible
<1>4. \A i, j : <<i, j>> \in R => Precedes(rows, ord, i, j)  BY DEF TryOrder
<1> HIDE DEF S, R
<1>5. \A i, j \in 1 .. Len(tried) : i # j => tried[i] # tried[j]
  BY <1>1, <1>2, ArrangementBijects
<1>6. \A k \in 1 .. Len(tried) : tried[k] \in S  BY <1>1, <1>2 DEF Arranged
<1>7. \A i, j \in 1 .. Len(tried) : i < j => Precedes(rows, ord, tried[i], tried[j])
  BY <1>1, <1>2, <1>4 DEF Arranged
<1> QED  BY <1>3, <1>5, <1>6, <1>7

LEMMA PromptsTried ==
  ASSUME NEW rows, RowsOK(rows), NEW inflight, NEW tried,
         tried = ContextTried(rows, inflight)
  PROVE  \A k \in 1 .. Len(tried) : rows[tried[k]].context
<1> DEFINE S == Eligible(rows, inflight, TRUE)
<1>1. /\ Arranged(tried, S, TryOrder(rows, "Arrival")) /\ Len(tried) = Cardinality(S)
  BY CandidatesArranged, CandidatesType DEF ContextTried
<1>2. \A x \in S : rows[x].context  BY DEF Eligible
<1> HIDE DEF S
<1> QED  BY <1>1, <1>2 DEF Arranged

(* The two parts the generation loop cuts its candidates into.             *)
Span(q, a, b) == {q[i] : i \in a .. b}

LEMMA CutSets ==
  ASSUME NEW d, NEW tried, NEW N \in Nat, NEW m, NEW most, CutAt(d, tried, N, m, most)
  PROVE  ToSet(d.fitting) = Span(tried, 1, m) /\ ToSet(d.paused) = Span(tried, m + 1, N)
<1>1. /\ m \in 0 .. N /\ d.fitting \in Seq(Nat) /\ d.paused \in Seq(Nat)
      /\ Len(d.fitting) = m /\ Len(d.paused) = N - m
      /\ \A i \in 1 .. m : d.fitting[i] = tried[i]
      /\ \A i \in 1 .. N - m : d.paused[i] = tried[m + i]
  BY DEF CutAt, Decision
<1>2. DOMAIN d.fitting = 1 .. m /\ DOMAIN d.paused = 1 .. N - m  BY <1>1, LenProperties
<1>3. ToSet(d.fitting) = Span(tried, 1, m)
  <2>1. \A x \in ToSet(d.fitting) : \E i \in 1 .. m : x = tried[i]
    BY <1>1, <1>2 DEF ToSet
  <2>2. \A i \in 1 .. m : tried[i] \in ToSet(d.fitting)
    BY <1>1, <1>2 DEF ToSet
  <2> QED  BY <2>1, <2>2 DEF Span
<1>4. \A x \in ToSet(d.paused) : \E i \in m + 1 .. N : x = tried[i]
  <2> SUFFICES ASSUME NEW j \in 1 .. N - m PROVE \E i \in m + 1 .. N : d.paused[j] = tried[i]
    BY <1>2 DEF ToSet
  <2>1. m + j \in m + 1 .. N /\ d.paused[j] = tried[m + j]  BY <1>1
  <2> QED  BY <2>1
<1>5. \A i \in m + 1 .. N : tried[i] \in ToSet(d.paused)
  <2> SUFFICES ASSUME NEW i \in m + 1 .. N PROVE tried[i] \in ToSet(d.paused)  OBVIOUS
  <2>1. PICK j \in 1 .. N - m : m + j = i  BY <1>1, i - m \in 1 .. N - m
  <2>2. d.paused[j] = tried[i]  BY <1>1, <2>1
  <2> QED  BY <1>2, <2>2 DEF ToSet
<1> QED  BY <1>3, <1>4, <1>5 DEF Span

(* As many are admitted as there are different positions.                  *)
LEMMA CutCardinality ==
  ASSUME NEW tried, NEW m \in Nat, \A i, j \in 1 .. m : i # j => tried[i] # tried[j]
  PROVE  Cardinality({tried[i] : i \in 1 .. m}) = m
<1> DEFINE X == {tried[i] : i \in 1 .. m}
           g == [i \in 1 .. m |-> tried[i]]
<1>1. g \in [1 .. m -> X] /\ \A y \in X : \E i \in 1 .. m : g[i] = y  OBVIOUS
<1>2. \A i, j \in 1 .. m : g[i] = g[j] => i = j  OBVIOUS
<1> HIDE DEF g, X
<1>3. g \in Bijection(1 .. m, X)
  BY <1>1, <1>2 DEF Bijection, Injection, Surjection, IsInjective
<1>4. ExistsBijection(1 .. m, X)  BY <1>3 DEF ExistsBijection
<1> QED  BY <1>4, FS_CountingElements DEF X

(* decide_indices as a whole: who is left out is left out for a reason.    *)
Explained(d, rows, ord, most, kv_free) ==
  LET running == {j \in ToSet(d.fitting) : ~ rows[j].context} IN
  /\ \A i \in ToSet(d.paused) : ~ rows[i].context =>
       /\ \/ Cardinality(running) >= most
          \/ Len(d.fitting) = MaxBatchSize
          \/ d.tokens + 1 > MaxNumTokens
       /\ ord = "Slack" => \A j \in running : ~ LessTolerant(rows[i], rows[j])
       /\ ToSet(d.fitting) = running
  /\ \A i \in ToSet(d.paused) : rows[i].context =>
       \/ \E j \in ToSet(d.paused) : ~ rows[j].context
       \/ rows[i].done = 0 /\ kv_free < WatermarkBlocks
       \/ Len(d.fitting) = MaxBatchSize
       \/ d.tokens + RemainingPrompt(rows[i]) > MaxNumTokens
  /\ ToSet(d.fitting) \subseteq 1 .. Len(rows)
  /\ ToSet(d.paused) \subseteq 1 .. Len(rows)

LEMMA DecideMaximal ==
  ASSUME NEW rows, RowsOK(rows), NEW ord, NEW most \in Nat, NEW kv_free \in Nat,
         NEW d, d = Decide(rows, {}, ord, most, kv_free)
  PROVE  d \in Decision /\ Explained(d, rows, ord, most, kv_free)
<1>0. PICK running : running = {j \in ToSet(d.fitting) : ~ rows[j].context}  OBVIOUS
<1>1. PICK gt, ct, first : /\ gt = GenerationTried(rows, {}, ord)
                           /\ ct = ContextTried(rows, {})
                           /\ first = DecideGeneration(rows, {}, ord, most)
  OBVIOUS
<1>2. PICK N \in Nat : N = Len(gt) /\ \A k \in 1 .. N : gt[k] \in 1 .. Len(rows)
  BY <1>1, TriedType
<1>3. PICK m : CutAt(first, gt, N, m, most)  BY <1>1, <1>2, GenerationOutcome
<1>4. /\ first \in Decision /\ m \in 0 .. N /\ m \in Nat
      /\ Len(first.fitting) = m /\ first.tokens = m /\ m <= MaxBatchSize
      /\ first.fitting \in Seq(Nat) /\ first.paused \in Seq(Nat) /\ Len(first.paused) = N - m
      /\ m < N => m >= most \/ m >= MaxBatchSize \/ m >= MaxNumTokens
  BY <1>2, <1>3 DEF CutAt, Decision
<1>5. PICK F, P : Filled(d, F, P, {ct[j] : j \in 1 .. Len(ct)}, rows, first, kv_free)
  BY <1>1, <1>4, ContextOutcome
<1>6. \A x \in F \cup P : rows[x].context /\ x \in 1 .. Len(rows)
  BY <1>1, <1>5, TriedType, PromptsTried DEF Filled
<1>7. /\ \A k \in 1 .. N : ~ rows[gt[k]].context
      /\ \A i, j \in 1 .. N : i # j => gt[i] # gt[j]
      /\ \A i, j \in 1 .. N : i < j => Precedes(rows, ord, gt[i], gt[j])
  BY <1>1, <1>2, TriedOnce
<1>8. ToSet(first.fitting) = Span(gt, 1, m) /\ ToSet(first.paused) = Span(gt, m + 1, N)
  BY <1>2, <1>3, CutSets
<1>9. /\ ToSet(d.fitting) = {gt[i] : i \in 1 .. m} \cup F
      /\ ToSet(d.paused) = {gt[i] : i \in m + 1 .. N} \cup P
  BY <1>5, <1>8 DEF Filled, Span
<1>10. \A i \in 1 .. m : i \in 1 .. N  BY <1>4
<1>11. \A i \in m + 1 .. N : i \in 1 .. N  BY <1>4
<1>12. running = {gt[i] : i \in 1 .. m}  BY <1>0, <1>6, <1>7, <1>9, <1>10
<1>13. Cardinality(running) = m  BY <1>4, <1>7, <1>10, <1>12, CutCardinality
<1>14. /\ Len(d.fitting) \in Nat /\ d.tokens \in Nat
       /\ m <= Len(d.fitting) /\ Len(d.fitting) <= MaxBatchSize /\ m <= d.tokens
  BY <1>4, <1>5 DEF Filled, Decision
<1>15. MaxBatchSize \in Nat /\ MaxNumTokens \in Nat  BY DecisionAssumption
<1>16. ASSUME NEW i \in ToSet(d.paused), ~ rows[i].context
       PROVE  /\ \/ Cardinality(running) >= most
                 \/ Len(d.fitting) = MaxBatchSize
                 \/ d.tokens + 1 > MaxNumTokens
              /\ ord = "Slack" => \A j \in running : ~ LessTolerant(rows[i], rows[j])
              /\ ToSet(d.fitting) = running
  <2>1. PICK b \in m + 1 .. N : i = gt[b]  BY <1>6, <1>9, <1>16
  <2>2. m < N  BY <1>4, <2>1
  <2>3. \/ Cardinality(running) >= most \/ Len(d.fitting) = MaxBatchSize
        \/ d.tokens + 1 > MaxNumTokens
    BY <1>4, <1>13, <1>14, <1>15, <2>2
  <2>4. ASSUME ord = "Slack", NEW j \in running PROVE ~ LessTolerant(rows[i], rows[j])
    <3>1. PICK a \in 1 .. m : j = gt[a]  BY <1>12
    <3>2. a \in 1 .. N /\ b \in 1 .. N /\ a < b  BY <1>4, <2>1, <3>1
    <3>3. BySlack(rows[j], rows[i])  BY <1>7, <2>1, <2>4, <3>1, <3>2 DEF Precedes
    <3>4. i \in 1 .. Len(rows) /\ j \in 1 .. Len(rows)  BY <1>2, <2>1, <3>1, <3>2
    <3>5. rows[i] \in RowType /\ rows[j] \in RowType  BY <3>4 DEF RowsOK
    <3>6. ~ (LessTolerant(rows[i], rows[j]) /\ LessTolerant(rows[j], rows[i]))
      BY <3>5, ToleranceOrder
    <3> QED  BY <3>3, <3>6 DEF BySlack
  <2>5. F = {}
    <3>1. first.paused # <<>>  BY <1>4, <2>2
    <3> QED  BY <1>5, <3>1 DEF Filled
  <2> QED  BY <1>9, <1>12, <2>3, <2>4, <2>5
<1>17. ASSUME NEW i \in ToSet(d.paused), rows[i].context
       PROVE  \/ \E j \in ToSet(d.paused) : ~ rows[j].context
              \/ rows[i].done = 0 /\ kv_free < WatermarkBlocks
              \/ Len(d.fitting) = MaxBatchSize
              \/ d.tokens + RemainingPrompt(rows[i]) > MaxNumTokens
  <2>1. i \in P  BY <1>7, <1>9, <1>11, <1>17
  <2>2. Refused(d, i, rows, first.paused # <<>>, kv_free)  BY <1>5, <2>1 DEF Filled
  <2>3. ASSUME first.paused # <<>> PROVE \E j \in ToSet(d.paused) : ~ rows[j].context
    <3>1. N - m # 0  BY <1>4, <2>3, EmptySeq
    <3>2. N \in m + 1 .. N /\ N \in 1 .. N  BY <1>2, <1>4, <3>1
    <3>3. gt[N] \in ToSet(d.paused) /\ ~ rows[gt[N]].context  BY <1>7, <1>9, <3>2
    <3> QED  BY <3>3
  <2> QED  BY <1>14, <1>15, <2>2, <2>3 DEF Refused
<1>18. ToSet(d.fitting) \subseteq 1 .. Len(rows) /\ ToSet(d.paused) \subseteq 1 .. Len(rows)
  BY <1>2, <1>6, <1>9, <1>10, <1>11
<1>19. d \in Decision  BY <1>5 DEF Filled
<1> QED  BY <1>0, <1>16, <1>17, <1>18, <1>19 DEF Explained

-------------------------------------------------------------------------------
(* Two ranks may be offered the same rows in different orders.             *)
Permuted(q, rows, p) ==
  /\ RowsOK(rows) /\ p \in Bijection(1 .. Len(rows), 1 .. Len(rows))
  /\ q = [k \in 1 .. Len(rows) |-> rows[p[k]]]

LEMMA PermutedOK ==
  ASSUME NEW q, NEW rows, NEW p, Permuted(q, rows, p)
  PROVE  /\ RowsOK(q) /\ Len(q) = Len(rows)
         /\ \A k \in 1 .. Len(rows) : p[k] \in 1 .. Len(rows) /\ q[k] = rows[p[k]]
         /\ \A j, k \in 1 .. Len(rows) : p[j] = p[k] => j = k
         /\ \A i \in 1 .. Len(rows) : \E k \in 1 .. Len(rows) : p[k] = i
<1>1. PICK n \in Nat : n = Len(rows)  BY DEF Permuted, RowsOK
<1>2. /\ p \in [1 .. n -> 1 .. n]
      /\ \A j, k \in 1 .. n : p[j] = p[k] => j = k
      /\ \A i \in 1 .. n : \E k \in 1 .. n : p[k] = i
  BY <1>1 DEF Permuted, Bijection, Injection, Surjection, IsInjective
<1>3. \A k \in 1 .. n : rows[k] \in RowType  BY <1>1 DEF Permuted, RowsOK
<1>4. q = [k \in 1 .. n |-> rows[p[k]]]  BY <1>1 DEF Permuted
<1>5. q \in [1 .. n -> RowType]  BY <1>2, <1>3, <1>4
<1>6. q \in Seq(RowType)  BY <1>5, SeqDef
<1>7. Len(q) = n  BY <1>5, <1>6, LenProperties
<1>8. \A i, j \in 1 .. n : q[i].id = q[j].id => i = j
  <2> SUFFICES ASSUME NEW i \in 1 .. n, NEW j \in 1 .. n, q[i].id = q[j].id PROVE i = j
    OBVIOUS
  <2>1. p[i] \in 1 .. n /\ p[j] \in 1 .. n /\ rows[p[i]].id = rows[p[j]].id  BY <1>2, <1>4
  <2>2. p[i] = p[j]  BY <1>1, <2>1 DEF Permuted, RowsOK
  <2> QED  BY <1>2, <2>2
<1>9. RowsOK(q)  BY <1>6, <1>7, <1>8 DEF RowsOK
<1> QED  BY <1>1, <1>2, <1>4, <1>7, <1>9

(* The candidates are the same, in the same order.                         *)
LEMMA CandidatesFollow ==
  ASSUME NEW q, NEW rows, NEW p, Permuted(q, rows, p),
         NEW inflight, NEW context, NEW ord, NEW tq, NEW tr,
         tq = Candidates(q, inflight, context, ord),
         tr = Candidates(rows, inflight, context, ord)
  PROVE  /\ Len(tq) = Len(tr)
         /\ \A k \in 1 .. Len(tr) : p[tq[k]] = tr[k] /\ tq[k] \in 1 .. Len(rows)
<1> DEFINE Q == Eligible(q, inflight, context)
           S == Eligible(rows, inflight, context)
           R == TryOrder(rows, ord)
           g == [x \in Q |-> p[x]]
<1>1. /\ RowsOK(q) /\ RowsOK(rows) /\ Len(q) = Len(rows)
      /\ \A k \in 1 .. Len(rows) : p[k] \in 1 .. Len(rows) /\ q[k] = rows[p[k]]
      /\ \A j, k \in 1 .. Len(rows) : p[j] = p[k] => j = k
      /\ \A i \in 1 .. Len(rows) : \E k \in 1 .. Len(rows) : p[k] = i
  BY PermutedOK DEF Permuted
<1>2. /\ IsFiniteSet(Q) /\ IsFiniteSet(S) /\ StrictOrder(R, S)
      /\ Arranged(tq, Q, TryOrder(q, ord)) /\ Arranged(tr, S, R)
      /\ Len(tq) = Cardinality(Q) /\ Len(tr) = Cardinality(S)
  BY <1>1, CandidatesArranged, CandidatesType
<1>3. \A x \in Q : x \in 1 .. Len(rows) /\ p[x] \in S  BY <1>1 DEF Eligible
<1>4. \A y \in S : \E x \in Q : p[x] = y
  <2> SUFFICES ASSUME NEW y \in S PROVE \E x \in Q : p[x] = y  OBVIOUS
  <2>1. PICK x \in 1 .. Len(rows) : p[x] = y  BY <1>1 DEF Eligible
  <2>2. x \in Q  BY <1>1, <2>1 DEF Eligible
  <2> QED  BY <2>1, <2>2
<1>5. \A x, y \in Q : <<x, y>> \in TryOrder(q, ord) => <<p[x], p[y]>> \in R
  BY <1>1 DEF Eligible, TryOrder, Precedes
<1> HIDE DEF Q, S, R
<1>6. g \in Bijection(Q, S)
  <2>1. g \in [Q -> S]  BY <1>3
  <2>2. \A x, y \in Q : g[x] = g[y] => x = y  BY <1>1, <1>3
  <2>3. \A y \in S : \E x \in Q : g[x] = y  BY <1>4
  <2> HIDE DEF g
  <2> QED  BY <2>1, <2>2, <2>3 DEF Bijection, Injection, Surjection, IsInjective
<1> HIDE DEF g
<1>7. Cardinality(S) = Cardinality(Q)
  <2>1. ExistsBijection(Q, S)  BY <1>6 DEF ExistsBijection
  <2> QED  BY <1>2, <2>1, FS_Bijection
<1> DEFINE t == [k \in 1 .. Cardinality(S) |-> p[tq[k]]]
<1>8. \A k \in 1 .. Cardinality(S) : tq[k] \in Q  BY <1>2, <1>7 DEF Arranged
<1>9. t \in [1 .. Cardinality(S) -> S]  BY <1>3, <1>8
<1>10. ASSUME NEW i \in 1 .. Cardinality(S), NEW j \in 1 .. Cardinality(S), i < j
       PROVE  <<t[i], t[j]>> \in R
  <2>1. <<tq[i], tq[j]>> \in TryOrder(q, ord)  BY <1>2, <1>7, <1>10 DEF Arranged
  <2> QED  BY <1>5, <1>8, <2>1
<1>11. Arranged(t, S, R)  BY <1>9, <1>10 DEF Arranged
<1>12. t = tr
  <2> HIDE DEF t
  <2> QED  BY <1>2, <1>11, ArrangementUnique
<1>13. \A k \in 1 .. Len(tr) : p[tq[k]] = tr[k] /\ tq[k] \in 1 .. Len(rows)
  BY <1>2, <1>3, <1>8, <1>12
<1> QED  BY <1>2, <1>7, <1>13

(* The decisions on them keep step.                                        *)
InStep(a, b, p) == Len(a) = Len(b) /\ \A i \in 1 .. Len(b) : p[a[i]] = b[i]

Follows(d, e, p) ==
  /\ d \in Decision /\ e \in Decision /\ d.tokens = e.tokens
  /\ InStep(d.fitting, e.fitting, p) /\ InStep(d.paused, e.paused, p)

LEMMA AppendFollows ==
  ASSUME NEW a \in Seq(Nat), NEW b \in Seq(Nat), NEW x \in Nat, NEW y \in Nat, NEW p,
         InStep(a, b, p), p[x] = y
  PROVE  InStep(Append(a, x), Append(b, y), p)
<1>1. PICK n \in Nat : n = Len(a) /\ n = Len(b)  BY DEF InStep
<1>2. PICK a1 : /\ a1 = Append(a, x)
                /\ Len(a1) = Len(a) + 1 /\ a1[Len(a) + 1] = x
                /\ \A j \in 1 .. Len(a) : a1[j] = a[j]
  <2>1. /\ Len(Append(a, x)) = Len(a) + 1 /\ Append(a, x)[Len(a) + 1] = x
        /\ \A j \in 1 .. Len(a) : Append(a, x)[j] = a[j]
    BY AppendLemma
  <2>2. PICK a1 : a1 = Append(a, x)  OBVIOUS
  <2> QED  BY <2>1, <2>2
<1>3. PICK b1 : /\ b1 = Append(b, y)
                /\ Len(b1) = Len(b) + 1 /\ b1[Len(b) + 1] = y
                /\ \A j \in 1 .. Len(b) : b1[j] = b[j]
  <2>1. /\ Len(Append(b, y)) = Len(b) + 1 /\ Append(b, y)[Len(b) + 1] = y
        /\ \A j \in 1 .. Len(b) : Append(b, y)[j] = b[j]
    BY AppendLemma
  <2>2. PICK b1 : b1 = Append(b, y)  OBVIOUS
  <2> QED  BY <2>1, <2>2
<1>4. Len(a1) = n + 1 /\ a1[n + 1] = x /\ \A j \in 1 .. n : a1[j] = a[j]
  BY <1>1, <1>2
<1>5. Len(b1) = n + 1 /\ b1[n + 1] = y /\ \A j \in 1 .. n : b1[j] = b[j]
  BY <1>1, <1>3
<1>6. \A j \in 1 .. n : p[a[j]] = b[j]  BY <1>1 DEF InStep
<1>7. ASSUME NEW i \in 1 .. n + 1 PROVE p[a1[i]] = b1[i]
  <2>1. CASE i = n + 1  BY <1>4, <1>5, <2>1
  <2>2. CASE i # n + 1
    <3>1. i \in 1 .. n  BY <1>1, <2>2
    <3>2. a1[i] = a[i] /\ b1[i] = b[i]  BY <1>4, <1>5, <3>1
    <3> QED  BY <1>6, <3>1, <3>2
  <2> QED  BY <2>1, <2>2
<1>8. InStep(a1, b1, p)  BY <1>4, <1>5, <1>7 DEF InStep
<1> QED  BY <1>2, <1>3, <1>8

LEMMA TryFollows ==
  ASSUME NEW d, NEW e, NEW p, Follows(d, e, p), NEW x \in Nat, NEW y \in Nat, p[x] = y,
         NEW cost \in Nat, NEW may
  PROVE  Follows(Try(d, x, cost, may), Try(e, y, cost, may), p)
<1>1. /\ d \in Decision /\ e \in Decision
      /\ d.fitting \in Seq(Nat) /\ e.fitting \in Seq(Nat)
      /\ d.paused \in Seq(Nat) /\ e.paused \in Seq(Nat)
      /\ d.tokens = e.tokens
      /\ InStep(d.fitting, e.fitting, p) /\ InStep(d.paused, e.paused, p)
      /\ Len(d.fitting) = Len(e.fitting)
  BY DEF Follows, Decision, InStep
<1> DEFINE d1 == Try(d, x, cost, may)
           e1 == Try(e, y, cost, may)
           admits == /\ may /\ Len(e.fitting) < MaxBatchSize
                     /\ e.tokens + cost <= MaxNumTokens
<1>2. d1 \in Decision /\ e1 \in Decision  BY <1>1, TryType
<1>3. CASE admits
  <2>1. /\ d1 = [d EXCEPT !.fitting = Append(@, x), !.tokens = @ + cost]
        /\ e1 = [e EXCEPT !.fitting = Append(@, y), !.tokens = @ + cost]
    BY <1>1, <1>3 DEF Try
  <2>2. /\ d1.fitting = Append(d.fitting, x) /\ d1.paused = d.paused
        /\ d1.tokens = d.tokens + cost
        /\ e1.fitting = Append(e.fitting, y) /\ e1.paused = e.paused
        /\ e1.tokens = e.tokens + cost
    BY <1>1, <2>1 DEF Decision
  <2> HIDE DEF d1, e1
  <2>3. InStep(d1.fitting, e1.fitting, p)
    BY <1>1, <2>2, AppendFollows
  <2>4. Follows(d1, e1, p)  BY <1>1, <1>2, <2>2, <2>3 DEF Follows
  <2> QED  BY <2>4 DEF d1, e1
<1>4. CASE ~ admits
  <2>1. /\ d1 = [d EXCEPT !.paused = Append(@, x)]
        /\ e1 = [e EXCEPT !.paused = Append(@, y)]
    BY <1>1, <1>4 DEF Try
  <2>2. /\ d1.paused = Append(d.paused, x) /\ d1.fitting = d.fitting
        /\ d1.tokens = d.tokens
        /\ e1.paused = Append(e.paused, y) /\ e1.fitting = e.fitting
        /\ e1.tokens = e.tokens
    BY <1>1, <2>1 DEF Decision
  <2> HIDE DEF d1, e1
  <2>3. InStep(d1.paused, e1.paused, p)
    BY <1>1, <2>2, AppendFollows
  <2>4. Follows(d1, e1, p)  BY <1>1, <1>2, <2>2, <2>3 DEF Follows
  <2> QED  BY <2>4 DEF d1, e1
<1> QED  BY <1>3, <1>4

LEMMA GenerationFollows ==
  ASSUME NEW q, NEW rows, NEW p, Permuted(q, rows, p),
         NEW inflight, NEW ord, NEW most \in Nat
  PROVE  Follows(DecideGeneration(q, inflight, ord, most),
                 DecideGeneration(rows, inflight, ord, most), p)
<1>1. PICK tq, tr : /\ tq = GenerationTried(q, inflight, ord)
                    /\ tr = GenerationTried(rows, inflight, ord)
  OBVIOUS
<1>2. RowsOK(q) /\ RowsOK(rows)  BY PermutedOK DEF Permuted
<1>3. PICK N \in Nat : N = Len(tr) /\ \A k \in 1 .. N : tr[k] \in Nat
  BY <1>1, <1>2, TriedType
<1>4. Len(tq) = N /\ \A k \in 1 .. N : tq[k] \in Nat  /\ p[tq[k]] = tr[k]
  <2>1. Len(tq) = Len(tr) /\ \A k \in 1 .. Len(tr) : p[tq[k]] = tr[k]
    <3>1. PICK phase : /\ tq = Candidates(q, inflight, phase, ord)
                       /\ tr = Candidates(rows, inflight, phase, ord)
      BY <1>1 DEF GenerationTried
    <3> QED  BY <3>1, CandidatesFollow
  <2>2. \A k \in 1 .. Len(tq) : tq[k] \in Nat  BY <1>1, <1>2, TriedType
  <2> QED  BY <1>3, <2>1, <2>2
<1>5. PICK f : /\ GenerationSteps(f, N, tq, most)
               /\ DecideGeneration(q, inflight, ord, most) = f[N]
  BY <1>1, <1>2, <1>4, GenerationScan
<1>6. PICK h : /\ GenerationSteps(h, N, tr, most)
               /\ DecideGeneration(rows, inflight, ord, most) = h[N]
  BY <1>1, <1>2, <1>3, GenerationScan
<1> DEFINE T == {k \in 0 .. N : Follows(f[k], h[k], p)}
<1>7. 0 \in T
  <2>1. f[0] = NothingDecided /\ h[0] = NothingDecided  BY <1>5, <1>6 DEF GenerationSteps
  <2>2. Follows(NothingDecided, NothingDecided, p)
    BY DEF Follows, NothingDecided, Decision, InStep
  <2> QED  BY <2>1, <2>2
<1>8. ASSUME NEW k \in 1 .. N, k - 1 \in T PROVE k \in T
  <2>1. PICK d, e : d = f[k - 1] /\ e = h[k - 1]  OBVIOUS
  <2>2. /\ f[k] = Try(d, tq[k], 1, Len(d.fitting) < most)
        /\ h[k] = Try(e, tr[k], 1, Len(e.fitting) < most)
    BY <1>5, <1>6, <2>1 DEF GenerationSteps
  <2>3. Follows(d, e, p) /\ Len(d.fitting) = Len(e.fitting)
    BY <1>8, <2>1 DEF Follows, InStep
  <2>4. PICK may : /\ f[k] = Try(d, tq[k], 1, may)
                   /\ h[k] = Try(e, tr[k], 1, may)
    BY <2>2, <2>3
  <2>5. tq[k] \in Nat /\ tr[k] \in Nat /\ p[tq[k]] = tr[k]  BY <1>3, <1>4
  <2>6. Follows(f[k], h[k], p)
    <3> HIDE DEF T
    <3> QED  BY <2>3, <2>4, <2>5, TryFollows
  <2> QED  BY <2>6
<1>9. N \in T
  <2> HIDE DEF T
  <2> QED  BY <1>3, <1>7, <1>8, SetInduction, N \in 0 .. N
<1> QED  BY <1>5, <1>6, <1>9

LEMMA DecideFollows ==
  ASSUME NEW q, NEW rows, NEW p, Permuted(q, rows, p),
         NEW inflight, NEW ord, NEW most \in Nat, NEW kv_free \in Nat
  PROVE  Follows(Decide(q, inflight, ord, most, kv_free),
                 Decide(rows, inflight, ord, most, kv_free), p)
<1>1. PICK tq, tr, gq, gr : /\ tq = ContextTried(q, inflight)
                            /\ tr = ContextTried(rows, inflight)
                            /\ gq = DecideGeneration(q, inflight, ord, most)
                            /\ gr = DecideGeneration(rows, inflight, ord, most)
  OBVIOUS
<1>2. RowsOK(q) /\ RowsOK(rows)  BY PermutedOK DEF Permuted
<1>3. PICK N \in Nat : /\ N = Len(tr)
                       /\ \A k \in 1 .. N : tr[k] \in Nat /\ rows[tr[k]] \in RowType
  <2>1. \A i \in 1 .. Len(rows) : rows[i] \in RowType  BY <1>2 DEF RowsOK
  <2> QED  BY <1>1, <1>2, <2>1, TriedType
<1>4. /\ Len(tq) = N
      /\ \A k \in 1 .. N : tq[k] \in Nat /\ p[tq[k]] = tr[k] /\ q[tq[k]] = rows[tr[k]]
  <2>1. /\ Len(tq) = Len(tr)
        /\ \A k \in 1 .. Len(tr) : p[tq[k]] = tr[k] /\ tq[k] \in 1 .. Len(rows)
    <3>1. PICK phase : /\ tq = Candidates(q, inflight, phase, "Arrival")
                       /\ tr = Candidates(rows, inflight, phase, "Arrival")
      BY <1>1 DEF ContextTried
    <3> QED  BY <3>1, CandidatesFollow
  <2>2. \A k \in 1 .. Len(tq) : tq[k] \in Nat  BY <1>1, <1>2, TriedType
  <2>3. \A k \in 1 .. Len(rows) : q[k] = rows[p[k]]  BY PermutedOK
  <2> QED  BY <1>3, <2>1, <2>2, <2>3
<1>5. Follows(gq, gr, p)  BY <1>1, GenerationFollows
<1>6. gq \in Decision /\ gr \in Decision /\ (gq.paused # <<>> <=> gr.paused # <<>>)
  <2>1. /\ gq \in Decision /\ gr \in Decision /\ Len(gq.paused) = Len(gr.paused)
        /\ gq.paused \in Seq(Nat) /\ gr.paused \in Seq(Nat)
    BY <1>5 DEF Follows, InStep, Decision
  <2> QED  BY <2>1, EmptySeq
<1>7. PICK f : /\ ContextSteps(f, N, tq, q, gq, kv_free)
               /\ Decide(q, inflight, ord, most, kv_free) = f[N]
  BY <1>1, <1>2, <1>4, <1>6, ContextScan
<1>8. PICK h : /\ ContextSteps(h, N, tr, rows, gr, kv_free)
               /\ Decide(rows, inflight, ord, most, kv_free) = h[N]
  BY <1>1, <1>2, <1>3, <1>6, ContextScan
<1> DEFINE T == {k \in 0 .. N : Follows(f[k], h[k], p)}
<1>9. 0 \in T
  <2>1. f[0] = gq /\ h[0] = gr  BY <1>7, <1>8 DEF ContextSteps
  <2> QED  BY <1>5, <2>1
<1>10. ASSUME NEW k \in 1 .. N, k - 1 \in T PROVE k \in T
  <2>1. PICK d, e, x, y : d = f[k - 1] /\ e = h[k - 1] /\ x = tq[k] /\ y = tr[k]  OBVIOUS
  <2>2. /\ x \in Nat /\ y \in Nat /\ p[x] = y /\ q[x] = rows[y] /\ rows[y] \in RowType
    BY <1>3, <1>4, <2>1
  <2>3. /\ f[k] = TryPrompt(d, x, q, gq, kv_free)
        /\ h[k] = TryPrompt(e, y, rows, gr, kv_free)
    BY <1>7, <1>8, <2>1 DEF ContextSteps
  <2>4. PICK cost, may : /\ cost = RemainingPrompt(rows[y])
                         /\ f[k] = Try(d, x, cost, may) /\ h[k] = Try(e, y, cost, may)
    BY <1>6, <2>2, <2>3 DEF TryPrompt
  <2>5. cost \in Nat  BY <2>2, <2>4 DEF RemainingPrompt, RowType
  <2>6. Follows(d, e, p)  BY <1>10, <2>1
  <2>7. Follows(f[k], h[k], p)
    <3> HIDE DEF T
    <3> QED  BY <2>2, <2>4, <2>5, <2>6, TryFollows
  <2> QED  BY <2>7
<1>11. N \in T
  <2> HIDE DEF T
  <2> QED  BY <1>3, <1>9, <1>10, SetInduction, N \in 0 .. N
<1> QED  BY <1>7, <1>8, <1>11

(* The ids admitted and paused do not depend on the order of the rows.     *)
LEMMA AnswersAgree ==
  ASSUME NEW q, NEW rows, NEW p, Permuted(q, rows, p),
         NEW ord, NEW most \in Nat, NEW kv_free \in Nat, NEW d, NEW e,
         d = Decide(q, {}, ord, most, kv_free), e = Decide(rows, {}, ord, most, kv_free)
  PROVE  /\ Ids(q, d.fitting) = Ids(rows, e.fitting)
         /\ Ids(q, d.paused) = Ids(rows, e.paused)
<1>1. RowsOK(q) /\ RowsOK(rows) /\ Len(q) = Len(rows)  BY PermutedOK DEF Permuted
<1>2. Follows(d, e, p)  BY DecideFollows
<1>3. /\ InStep(d.fitting, e.fitting, p) /\ InStep(d.paused, e.paused, p)
      /\ d.fitting \in Seq(Nat) /\ d.paused \in Seq(Nat)
  BY <1>2 DEF Follows, Decision
<1>4. ToSet(d.fitting) \subseteq 1 .. Len(rows) /\ ToSet(d.paused) \subseteq 1 .. Len(rows)
  <2>1. Explained(d, q, ord, most, kv_free)  BY <1>1, DecideMaximal
  <2> QED  BY <1>1, <2>1 DEF Explained
<1>5. \A k \in 1 .. Len(rows) : q[k] = rows[p[k]]  BY PermutedOK
<1>6. ASSUME NEW a \in Seq(Nat), NEW b, InStep(a, b, p), ToSet(a) \subseteq 1 .. Len(rows)
      PROVE  Ids(q, a) = Ids(rows, b)
  <2>1. \A i \in 1 .. Len(a) : a[i] \in ToSet(a)  BY LenProperties DEF ToSet
  <2>2. Len(a) = Len(b) /\ \A i \in 1 .. Len(a) : p[a[i]] = b[i]  BY <1>6 DEF InStep
  <2>3. \A i \in 1 .. Len(a) : q[a[i]].id = rows[b[i]].id  BY <1>5, <1>6, <2>1, <2>2
  <2> QED  BY <2>2, <2>3 DEF Ids
<1> QED  BY <1>3, <1>4, <1>6

-------------------------------------------------------------------------------
(* flatten hands the decision one well-formed row for each request.        *)
LEMMA RowsType ==
  ASSUME BridgeAssumption, TypeOK, NEW ids \in SUBSET Requests,
         NEW arrivals, \A r \in ids : arrivals[r] \in Int
  PROVE  /\ RowsOK(Rows(ids, arrivals))
         /\ \A k \in 1 .. Len(Rows(ids, arrivals)) : Rows(ids, arrivals)[k].id \in ids
<1>1. IsFiniteSet(ids)  BY FS_Subset DEF BridgeAssumption
<1>2. PICK n \in Nat : n = Cardinality(ids)  BY <1>1, FS_CardinalityType
<1>3. \E f \in [1 .. n -> ids] : IsInjective(f)
  BY <1>1, <1>2, FS_CardinalityType DEF ExistsBijection, Bijection, Injection
<1>4. PICK list : list = SetToSeq(ids)  OBVIOUS
<1>5. list \in [1 .. n -> ids] /\ IsInjective(list)
  BY <1>2, <1>3, <1>4 DEF SetToSeq
<1>6. list \in Seq(ids) /\ Len(list) = n  BY <1>5, SeqDef
<1>7. \A r \in ids : Row(r, arrivals) \in RowType /\ Row(r, arrivals).id = r
  BY DEF Row, RowType, TypeOK, BridgeAssumption
<1>8. PICK rows : rows = Rows(ids, arrivals)  OBVIOUS
<1>9. rows = [k \in 1 .. n |-> Row(list[k], arrivals)]
  BY <1>4, <1>6, <1>8 DEF Rows
<1>10. \A k \in 1 .. n : rows[k] \in RowType /\ rows[k].id = list[k] /\ list[k] \in ids
  BY <1>5, <1>7, <1>9
<1>11. rows \in Seq(RowType) /\ Len(rows) = n
  <2>1. rows \in [1 .. n -> RowType]  BY <1>9, <1>10
  <2> QED  BY <2>1, SeqDef
<1>12. \A i, j \in 1 .. n : list[i] = list[j] => i = j  BY <1>5 DEF IsInjective
<1>13. \A i, j \in 1 .. n : rows[i].id = rows[j].id => i = j  BY <1>10, <1>12
<1> QED  BY <1>8, <1>10, <1>11, <1>13 DEF RowsOK

LEMMA ArrivalType ==
  ASSUME BridgeAssumption, TypeOK, NEW ids
  PROVE  ArrivalMsFor(ids) \in [ids -> 0 .. MaxAge]
BY DEF BridgeAssumption, TypeOK, ArrivalMsFor, Older

LEMMA OfferedRows ==
  ASSUME BridgeAssumption, TypeOK, NEW ids \in SUBSET Active,
         NEW rows, rows = Rows(ids, ArrivalMsFor(Active))
  PROVE  RowsOK(rows) /\ \A k \in 1 .. Len(rows) : rows[k].id \in ids
<1>1. Active \in SUBSET Requests /\ ids \in SUBSET Requests  BY DEF Active
<1>2. ArrivalMsFor(Active) \in [Active -> 0 .. MaxAge]  BY ArrivalType
<1>3. \A r \in ids : ArrivalMsFor(Active)[r] \in Int  BY <1>2 DEF BridgeAssumption
<1> QED  BY <1>1, <1>3, RowsType

-------------------------------------------------------------------------------
(***************************************************************************)
(* The inductive invariant.  Beyond what BooksExact states, a request that *)
(* is not complete has tokens left to generate (which bounds what the      *)
(* executor computes), an empty answer is counted as a step (which bounds  *)
(* the counters), and without probes the arrivals Python keeps and the     *)
(* real ages start and move together, a request that has not arrived       *)
(* having neither.  With probes only NeverOlder is left of that.           *)
(***************************************************************************)
Unfinished ==
  \A r \in Requests :
    request[r].phase # "complete" => request[r].generated < MaxNew[r]

SeenInStep ==
  ~ probing => \A r \in Requests :
    /\ request[r].phase = "new" => r \notin DOMAIN seen /\ age[r] = NoAge
    /\ r \in Active => IF r \in DOMAIN seen THEN seen[r] = age[r] ELSE age[r] = NoAge

EmptyCounted == counts["empty"] <= counts["steps"]

IInv ==
  /\ TypeOK /\ LedgerExact /\ CountsAddUp /\ EmptyCounted
  /\ Unfinished /\ SeenInStep /\ NeverOlder

(* TypeOK by the part of the state that is typed.                          *)
RequestType ==
  /\ request \in [Requests -> [phase : Phases, done : Nat, generated : Nat]]
  /\ \A r \in Requests : request[r].done <= Prompt[r]
                         /\ request[r].generated <= MaxNew[r]
ArrivalsType ==
  /\ age \in [Requests -> NoAge .. MaxAge]
  /\ DOMAIN seen \subseteq Requests /\ \A r \in DOMAIN seen : seen[r] \in 0 .. MaxAge
LedgerType ==
  /\ DOMAIN ledger \subseteq Requests
  /\ \A r \in DOMAIN ledger : ledger[r] \in 0 .. ForgetSteps
  /\ unseen \in [Requests -> 0 .. ForgetSteps + 1]
CountsType == counts \in [Counters -> 0 .. MaxShadowSteps]
ModesType ==
  /\ mode \in {"shadow", "live"} /\ decode_order \in Orders /\ probing \in BOOLEAN
  /\ cap \in 1 .. MaxBatchSize

LEMMA TypeParts ==
  TypeOK <=> RequestType /\ ArrivalsType /\ LedgerType /\ CountsType /\ ModesType
BY DEF TypeOK, RequestType, ArrivalsType, LedgerType, CountsType, ModesType

LEMMA PartsAfter ==
  ASSUME RequestType', ArrivalsType', LedgerType', CountsType', ModesType', LedgerExact',
         CountsAddUp', EmptyCounted', Unfinished', SeenInStep', NeverOlder'
  PROVE  IInv'
BY DEF IInv, TypeOK, RequestType, ArrivalsType, LedgerType, CountsType, ModesType

(* update_ledger keeps the ledger an exact record.                         *)
LEMMA RemembersExactly ==
  ASSUME BridgeAssumption, LedgerType, LedgerExact, NEW ids \in SUBSET Requests,
         RustRemembers(ids)
  PROVE  LedgerType' /\ LedgerExact'
<1> DEFINE kept == {r \in DOMAIN ledger : r \in ids \/ ledger[r] + 1 <= ForgetSteps}
<1>1. ForgetSteps \in Nat  BY DEF BridgeAssumption
<1>2. /\ \A r \in Requests : unseen[r] \in 0 .. ForgetSteps + 1
      /\ \A r \in DOMAIN ledger : ledger[r] = unseen[r] /\ r \in Requests
      /\ \A r \in Requests : r \in DOMAIN ledger <=> unseen[r] <= ForgetSteps
  BY DEF LedgerType, LedgerExact
<1>3. /\ DOMAIN ledger' = kept \cup ids
      /\ \A r \in kept \cup ids : ledger'[r] = IF r \in ids THEN 0 ELSE ledger[r] + 1
  BY DEF RustRemembers, UpdateLedger
<1>4. /\ unseen' = [r \in Requests |-> unseen'[r]]
      /\ \A r \in Requests : unseen'[r] =
           IF r \in ids THEN 0
           ELSE IF unseen[r] <= ForgetSteps THEN unseen[r] + 1 ELSE unseen[r]
  BY DEF RustRemembers
<1>5. \A r \in Requests : unseen'[r] \in 0 .. ForgetSteps + 1  BY <1>1, <1>2, <1>4
<1>6. \A r \in Requests : r \in kept \cup ids <=> unseen'[r] <= ForgetSteps
  BY <1>1, <1>2, <1>4
<1>7. \A r \in kept \cup ids : r \in Requests /\ ledger'[r] = unseen'[r]
  BY <1>1, <1>2, <1>3, <1>4
<1> HIDE DEF kept
<1>8. unseen' \in [Requests -> 0 .. ForgetSteps + 1]  BY <1>4, <1>5
<1>9. \A r \in DOMAIN ledger' : ledger'[r] \in 0 .. ForgetSteps
  <2> SUFFICES ASSUME NEW r \in DOMAIN ledger' PROVE ledger'[r] \in 0 .. ForgetSteps
    OBVIOUS
  <2>1. r \in Requests /\ ledger'[r] = unseen'[r] /\ unseen'[r] <= ForgetSteps
    BY <1>3, <1>6, <1>7
  <2>2. unseen'[r] \in 0 .. ForgetSteps + 1  BY <1>5, <2>1
  <2> QED  BY <1>1, <2>1, <2>2
<1> QED  BY <1>3, <1>6, <1>7, <1>8, <1>9 DEF LedgerType, LedgerExact

(* A list of samples that is appended to with a count, up to a bound, has  *)
(* the length of the smaller of the two.                                   *)
LEMMA SampleKept ==
  \A a, b, m \in Nat : a = (IF b < m THEN b ELSE m) =>
    /\ (a + IF a < m THEN 1 ELSE 0) = IF b + 1 < m THEN b + 1 ELSE m
    /\ a + 0 = IF b + 0 < m THEN b + 0 ELSE m
OBVIOUS

(* _record_comparison counts each step once.                               *)
LEMMA CountsExactly ==
  ASSUME BridgeAssumption, CountsType, CountsAddUp, EmptyCounted, Shadow,
         NEW rows, NEW decided, counts' = Count(rows, decided)
  PROVE  CountsType' /\ CountsAddUp' /\ EmptyCounted'
<1> DEFINE rust == Ids(rows, decided.fitting)
           upstream == [k \in 1 .. Len(rows) |-> rows[k].id]
<1>1. PICK agrees \in BOOLEAN :
        agrees <=> ToSet(rust) = ToSet(upstream) /\ decided.paused = <<>>
  OBVIOUS
<1>2. PICK differs \in BOOLEAN : differs <=> agrees /\ rust # upstream  OBVIOUS
<1>3. PICK void \in BOOLEAN : void <=> rust = <<>> /\ rows # <<>>  OBVIOUS
<1> DEFINE names == {"steps", IF agrees THEN "agreed" ELSE "diverged"}
               \cup (IF void THEN {"empty"} ELSE {})
               \cup (IF ~ agrees /\ counts["divergences"] < MaxSamples
                       THEN {"divergences"} ELSE {})
               \cup (IF differs THEN {"order_differed"} ELSE {})
               \cup (IF differs /\ counts["order_diffs"] < MaxSamples
                       THEN {"order_diffs"} ELSE {})
<1>4. counts' = [c \in Counters |-> counts[c] + IF c \in names THEN 1 ELSE 0]
  BY <1>1, <1>2, <1>3 DEF Count
<1> HIDE DEF rust, upstream
<1>5. \A c \in Counters : counts[c] \in 0 .. MaxShadowSteps  BY DEF CountsType
<1>6. MaxSamples \in Nat /\ MaxShadowSteps \in Nat /\ counts["steps"] < MaxShadowSteps
  BY DEF BridgeAssumption, Shadow
<1>7. /\ counts'["steps"] = counts["steps"] + 1
      /\ counts'["agreed"] = counts["agreed"] + IF agrees THEN 1 ELSE 0
      /\ counts'["diverged"] = counts["diverged"] + IF agrees THEN 0 ELSE 1
      /\ counts'["malformed"] = counts["malformed"] + 0
      /\ counts'["empty"] = counts["empty"] + IF void THEN 1 ELSE 0
      /\ counts'["order_differed"] = counts["order_differed"] + IF differs THEN 1 ELSE 0
      /\ counts'["divergences"] = counts["divergences"]
           + IF ~ agrees /\ counts["divergences"] < MaxSamples THEN 1 ELSE 0
      /\ counts'["order_diffs"] = counts["order_diffs"]
           + IF differs /\ counts["order_diffs"] < MaxSamples THEN 1 ELSE 0
  BY <1>4 DEF Counters
<1>8. /\ counts["steps"] = counts["agreed"] + counts["diverged"] + counts["malformed"]
      /\ counts["order_differed"] <= counts["agreed"]
      /\ counts["divergences"] =
           IF counts["diverged"] < MaxSamples THEN counts["diverged"] ELSE MaxSamples
      /\ counts["order_diffs"] =
           IF counts["order_differed"] < MaxSamples THEN counts["order_differed"]
           ELSE MaxSamples
  <2>1. \A p \in {<<"divergences", "diverged">>, <<"order_diffs", "order_differed">>} :
          counts[p[1]] = IF counts[p[2]] < MaxSamples THEN counts[p[2]] ELSE MaxSamples
    BY DEF CountsAddUp
  <2>2. PICK p, o : p = <<"divergences", "diverged">> /\ o = <<"order_diffs", "order_differed">>
    OBVIOUS
  <2>3. p[1] = "divergences" /\ p[2] = "diverged"
        /\ o[1] = "order_diffs" /\ o[2] = "order_differed"
    BY <2>2
  <2>4. /\ counts[p[1]] = IF counts[p[2]] < MaxSamples THEN counts[p[2]] ELSE MaxSamples
        /\ counts[o[1]] = IF counts[o[2]] < MaxSamples THEN counts[o[2]] ELSE MaxSamples
    BY <2>1, <2>2
  <2>5. counts["divergences"] =
          IF counts["diverged"] < MaxSamples THEN counts["diverged"] ELSE MaxSamples
    BY <2>3, <2>4
  <2>6. counts["order_diffs"] =
          IF counts["order_differed"] < MaxSamples THEN counts["order_differed"]
          ELSE MaxSamples
    BY <2>3, <2>4
  <2>7. counts["steps"] = counts["agreed"] + counts["diverged"] + counts["malformed"]
        /\ counts["order_differed"] <= counts["agreed"]
    BY DEF CountsAddUp
  <2> QED  BY <2>5, <2>6, <2>7
<1>9. /\ counts["steps"] \in Nat /\ counts["agreed"] \in Nat /\ counts["diverged"] \in Nat
      /\ counts["malformed"] \in Nat /\ counts["empty"] \in Nat
      /\ counts["order_differed"] \in Nat /\ counts["divergences"] \in Nat
      /\ counts["order_diffs"] \in Nat /\ counts["empty"] <= counts["steps"]
  BY <1>5, <1>6 DEF Counters, EmptyCounted
<1>10. /\ counts'["steps"] = counts'["agreed"] + counts'["diverged"] + counts'["malformed"]
       /\ counts'["order_differed"] <= counts'["agreed"]
  BY <1>2, <1>7, <1>8, <1>9
<1>11. counts'["divergences"] =
         IF counts'["diverged"] < MaxSamples THEN counts'["diverged"] ELSE MaxSamples
  <2> HIDE DEF names
  <2>1. PICK a \in Nat, b \in Nat : a = counts["divergences"] /\ b = counts["diverged"]  BY <1>9
  <2>2. a = IF b < MaxSamples THEN b ELSE MaxSamples  BY <1>8, <2>1
  <2>3. /\ (a + IF a < MaxSamples THEN 1 ELSE 0) = IF b + 1 < MaxSamples THEN b + 1 ELSE MaxSamples
        /\ a + 0 = IF b + 0 < MaxSamples THEN b + 0 ELSE MaxSamples
    BY <1>6, <2>2, SampleKept
  <2>4. CASE ~ agrees
    <3>1. counts'["divergences"] = (a + IF a < MaxSamples THEN 1 ELSE 0)
          /\ counts'["diverged"] = b + 1
      BY <1>7, <2>1, <2>4
    <3> QED  BY <2>3, <3>1
  <2>5. CASE agrees
    <3>1. counts'["divergences"] = a + 0 /\ counts'["diverged"] = b + 0
      BY <1>7, <2>1, <2>5
    <3> QED  BY <2>3, <3>1
  <2> QED  BY <2>4, <2>5
<1>12. counts'["order_diffs"] =
         IF counts'["order_differed"] < MaxSamples THEN counts'["order_differed"]
         ELSE MaxSamples
  <2> HIDE DEF names
  <2>1. PICK a \in Nat, b \in Nat : a = counts["order_diffs"] /\ b = counts["order_differed"]  BY <1>9
  <2>2. a = IF b < MaxSamples THEN b ELSE MaxSamples  BY <1>8, <2>1
  <2>3. /\ (a + IF a < MaxSamples THEN 1 ELSE 0) = IF b + 1 < MaxSamples THEN b + 1 ELSE MaxSamples
        /\ a + 0 = IF b + 0 < MaxSamples THEN b + 0 ELSE MaxSamples
    BY <1>6, <2>2, SampleKept
  <2>4. CASE differs
    <3>1. counts'["order_diffs"] = (a + IF a < MaxSamples THEN 1 ELSE 0)
          /\ counts'["order_differed"] = b + 1
      BY <1>7, <2>1, <2>4
    <3> QED  BY <2>3, <3>1
  <2>5. CASE ~ differs
    <3>1. counts'["order_diffs"] = a + 0 /\ counts'["order_differed"] = b + 0
      BY <1>7, <2>1, <2>5
    <3> QED  BY <2>3, <3>1
  <2> QED  BY <2>4, <2>5
<1>13. counts'["empty"] <= counts'["steps"] /\ counts'["steps"] <= MaxShadowSteps
  BY <1>6, <1>7, <1>9
<1>14. \A c \in Counters : counts'[c] \in 0 .. MaxShadowSteps
  <2>1. \A c \in Counters : counts'[c] \in Nat  BY <1>4, <1>5, <1>6
  <2>2. /\ counts'["steps"] \in Nat /\ counts'["agreed"] \in Nat
        /\ counts'["diverged"] \in Nat /\ counts'["malformed"] \in Nat
        /\ counts'["order_differed"] \in Nat
    BY <2>1 DEF Counters
  <2>3. \A c \in Counters : counts'[c] <= counts'["steps"]
    <3>1. counts'["agreed"] <= counts'["steps"] /\ counts'["diverged"] <= counts'["steps"]
          /\ counts'["malformed"] <= counts'["steps"]
          /\ counts'["order_differed"] <= counts'["steps"]
      BY <1>10, <2>2
    <3>2. counts'["divergences"] <= counts'["steps"] /\ counts'["order_diffs"] <= counts'["steps"]
      BY <1>6, <1>11, <1>12, <2>2, <3>1
    <3> QED  BY <1>13, <2>2, <3>1, <3>2 DEF Counters
  <2> QED  BY <1>6, <1>13, <2>1, <2>2, <2>3
<1>15. CountsType'
  <2> HIDE DEF names
  <2> QED  BY <1>4, <1>14 DEF CountsType
<1> QED  BY <1>10, <1>11, <1>12, <1>13, <1>15 DEF CountsAddUp, EmptyCounted

(* A call of decide() that raises is counted as one malformed step.        *)
LEMMA RaiseCounted ==
  ASSUME BridgeAssumption, CountsType, CountsAddUp, EmptyCounted, Shadow,
         counts' = [counts EXCEPT !["steps"] = @ + 1, !["malformed"] = @ + 1]
  PROVE  CountsType' /\ CountsAddUp' /\ EmptyCounted'
<1>1. /\ counts'["steps"] = counts["steps"] + 1
      /\ counts'["malformed"] = counts["malformed"] + 1
      /\ \A c \in Counters \ {"steps", "malformed"} : counts'[c] = counts[c]
  BY DEF CountsType, Counters
<1>2. /\ \A c \in Counters : counts[c] \in Nat /\ counts[c] <= MaxShadowSteps
      /\ MaxShadowSteps \in Nat /\ counts["steps"] < MaxShadowSteps
  BY DEF BridgeAssumption, CountsType, Shadow
<1>3. /\ counts'["agreed"] = counts["agreed"] /\ counts'["diverged"] = counts["diverged"]
      /\ counts'["empty"] = counts["empty"]
      /\ counts'["order_differed"] = counts["order_differed"]
      /\ counts'["divergences"] = counts["divergences"]
      /\ counts'["order_diffs"] = counts["order_diffs"]
  BY <1>1 DEF Counters
<1>4. /\ counts["steps"] \in Nat /\ counts["agreed"] \in Nat /\ counts["diverged"] \in Nat
      /\ counts["malformed"] \in Nat /\ counts["empty"] \in Nat
  <2>1. {"steps", "agreed", "diverged", "malformed", "empty"} \subseteq Counters
    BY DEF Counters
  <2> QED  BY <1>2, <2>1
<1>5. /\ counts'["steps"] = counts'["agreed"] + counts'["diverged"] + counts'["malformed"]
      /\ counts'["malformed"] <= counts'["steps"] /\ counts'["steps"] <= MaxShadowSteps
      /\ counts'["steps"] \in Nat /\ counts'["malformed"] \in Nat
  <2>1. counts["steps"] = counts["agreed"] + counts["diverged"] + counts["malformed"]
    BY DEF CountsAddUp
  <2>2. \A n, a, d, m \in Nat : n = a + d + m /\ n < MaxShadowSteps =>
          n + 1 = a + d + (m + 1) /\ m + 1 <= n + 1 /\ n + 1 <= MaxShadowSteps
    BY <1>2
  <2>3. PICK n \in Nat, a \in Nat, d \in Nat, m \in Nat :
          /\ n = counts["steps"] /\ a = counts["agreed"] /\ d = counts["diverged"]
          /\ m = counts["malformed"]
    BY <1>4
  <2>4. n = a + d + m /\ n < MaxShadowSteps  BY <1>2, <2>1, <2>3
  <2>5. /\ counts'["steps"] = n + 1 /\ counts'["malformed"] = m + 1
        /\ counts'["agreed"] = a /\ counts'["diverged"] = d
    BY <1>1, <1>3, <2>3
  <2>6. n + 1 = a + d + (m + 1) /\ m + 1 <= n + 1 /\ n + 1 <= MaxShadowSteps
    BY <2>2, <2>4
  <2> QED  BY <2>5, <2>6
<1>6. CountsType'
  <2>1. ASSUME NEW c \in Counters PROVE counts'[c] \in 0 .. MaxShadowSteps
    <3>1. CASE c \in {"steps", "malformed"}
      <4>1. c = "steps" \/ c = "malformed"  BY <3>1
      <4>2. counts'["steps"] <= counts'["steps"]  BY <1>5
      <4>3. counts'[c] \in Nat /\ counts'[c] <= counts'["steps"]  BY <1>5, <4>1, <4>2
      <4> QED  BY <1>2, <1>5, <4>3
    <3>2. CASE c \notin {"steps", "malformed"}
      <4>1. counts'[c] = counts[c] /\ counts[c] \in Nat /\ counts[c] <= MaxShadowSteps
        BY <1>1, <1>2, <3>2
      <4> QED  BY <1>2, <4>1
    <3> QED  BY <3>1, <3>2
  <2>2. counts' = [c \in Counters |-> counts'[c]]  BY DEF CountsType
  <2> QED  BY <2>1, <2>2 DEF CountsType
<1>8. EmptyCounted'
  <2>1. counts["empty"] <= counts["steps"]  BY DEF EmptyCounted
  <2>2. counts'["empty"] = counts["empty"] /\ counts'["steps"] = counts["steps"] + 1
    BY <1>1, <1>3
  <2>3. counts["empty"] \in Nat /\ counts["steps"] \in Nat  BY <1>4
  <2>4. counts'["empty"] <= counts'["steps"]  BY <2>1, <2>2, <2>3
  <2> QED  BY <2>4 DEF EmptyCounted
<1>9. \A p \in {<<"divergences", "diverged">>, <<"order_diffs", "order_differed">>} :
        counts'[p[1]] = counts[p[1]] /\ counts'[p[2]] = counts[p[2]]
  BY <1>3
<1>10. CountsAddUp'
  <2>1. /\ counts["order_differed"] <= counts["agreed"]
        /\ \A p \in {<<"divergences", "diverged">>, <<"order_diffs", "order_differed">>} :
             counts[p[1]] = IF counts[p[2]] < MaxSamples THEN counts[p[2]] ELSE MaxSamples
    BY DEF CountsAddUp
  <2>2. \A p \in {<<"divergences", "diverged">>, <<"order_diffs", "order_differed">>} :
          counts'[p[1]] = IF counts'[p[2]] < MaxSamples THEN counts'[p[2]] ELSE MaxSamples
    BY <1>9, <2>1
  <2> QED  BY <1>3, <1>5, <2>1, <2>2 DEF CountsAddUp
<1> QED  BY <1>6, <1>8, <1>10

(* The executor's step keeps the requests within their bounds.             *)
LEMMA ComputesWithinBounds ==
  ASSUME BridgeAssumption, RequestType, Unfinished, NEW ran \in SUBSET Active,
         NEW whole \in BOOLEAN, request' = Computed(ran, whole)
  PROVE  /\ RequestType' /\ Unfinished'
         /\ \A r \in Requests : IF r \in Active THEN request'[r].phase # "new"
                               ELSE request'[r] = request[r]
<1> DEFINE after(r) == request'[r]
<1>1. request' = [r \in Requests |-> after(r)]  BY DEF Computed
<1>2. ASSUME NEW r \in Requests
      PROVE  /\ after(r) \in [phase : Phases, done : Nat, generated : Nat]
             /\ after(r).done <= Prompt[r] /\ after(r).generated <= MaxNew[r]
             /\ after(r).phase # "complete" => after(r).generated < MaxNew[r]
             /\ IF r \in Active THEN after(r).phase # "new" ELSE after(r) = request[r]
  <2>1. PICK q : q = request[r]  OBVIOUS
  <2>2. /\ q \in [phase : Phases, done : Nat, generated : Nat]
        /\ q.done <= Prompt[r] /\ q.generated <= MaxNew[r]
        /\ q.phase # "complete" => q.generated < MaxNew[r]
    BY <2>1 DEF RequestType, Unfinished
  <2>3. Prompt[r] \in Nat /\ MaxNew[r] \in Nat  BY DEF BridgeAssumption
  <2>4. PICK chunk : chunk = IF q.done >= Prompt[r] THEN 0
                             ELSE IF whole THEN Prompt[r] - q.done ELSE 1
    OBVIOUS
  <2>5. PICK next : next = IF q.generated + 1 >= MaxNew[r] THEN "complete" ELSE "generation"
    OBVIOUS
  <2>6. after(r) = IF r \notin ran THEN q
                   ELSE IF q.phase = "context" /\ q.done + chunk < Prompt[r]
                     THEN [q EXCEPT !.done = @ + chunk]
                   ELSE [phase |-> next, done |-> Prompt[r], generated |-> q.generated + 1]
    BY <2>1, <2>4, <2>5 DEF Computed
  <2>7. chunk \in Nat  BY <2>2, <2>3, <2>4
  <2>8. PICK a : a = after(r)  OBVIOUS
  <2> HIDE DEF after
  <2>9. CASE r \notin ran
    <3>1. a = q  BY <2>6, <2>8, <2>9
    <3>2. r \in Active => q.phase # "new"  BY <2>1 DEF Active
    <3> QED  BY <2>1, <2>2, <2>8, <3>1, <3>2
  <2>10. CASE r \in ran
    <3>1. r \in Active /\ q.phase # "complete"  BY <2>1, <2>10 DEF Active
    <3>2. CASE q.phase = "context" /\ q.done + chunk < Prompt[r]
      <4>1. a = [q EXCEPT !.done = @ + chunk]  BY <2>6, <2>8, <2>10, <3>2
      <4>2. /\ a \in [phase : Phases, done : Nat, generated : Nat]
            /\ a.phase = q.phase /\ a.done = q.done + chunk /\ a.generated = q.generated
        BY <2>2, <2>7, <4>1
      <4> QED  BY <2>2, <2>3, <2>7, <2>8, <3>1, <3>2, <4>2
    <3>3. CASE ~ (q.phase = "context" /\ q.done + chunk < Prompt[r])
      <4>1. a = [phase |-> next, done |-> Prompt[r], generated |-> q.generated + 1]
        BY <2>6, <2>8, <2>10, <3>3
      <4>2. next \in Phases  BY <2>5 DEF Phases
      <4>3. /\ a \in [phase : Phases, done : Nat, generated : Nat]
            /\ a.phase = next /\ a.done = Prompt[r] /\ a.generated = q.generated + 1
        BY <2>2, <2>3, <4>1, <4>2
      <4> QED  BY <2>2, <2>3, <2>5, <2>8, <3>1, <4>3
    <3> QED  BY <3>2, <3>3
  <2> QED  BY <2>9, <2>10
<1> HIDE DEF after
<1>3. request' \in [Requests -> [phase : Phases, done : Nat, generated : Nat]]
  BY <1>1, <1>2
<1>4. \A r \in Requests : request'[r] = after(r)  BY <1>1
<1> QED  BY <1>2, <1>3, <1>4 DEF RequestType, Unfinished

(* One call of schedule_request keeps the ages in range and makes no       *)
(* request older; one that is given the active requests also keeps         *)
(* arrivals and ages together.                                             *)
LEMMA ScheduledType ==
  ASSUME BridgeAssumption, TypeOK, NeverOlder, NEW ids \in SUBSET Requests, Scheduled(ids)
  PROVE  ArrivalsType' /\ NeverOlder'
<1>1. MaxAge \in Nat \ {0}  BY DEF BridgeAssumption
<1>2. seen' \in [ids -> 0 .. MaxAge]  BY ArrivalType DEF Scheduled
<1>3. \A r \in Requests : age[r] \in NoAge .. MaxAge  BY DEF TypeOK
<1>4. \A a \in NoAge .. MaxAge : Older(a) \in NoAge .. MaxAge  BY <1>1 DEF Older, NoAge
<1>5. 0 \in NoAge .. MaxAge /\ NoAge \in NoAge .. MaxAge  BY <1>1 DEF NoAge
<1>6. age' \in [Requests -> NoAge .. MaxAge]  BY <1>3, <1>4, <1>5 DEF Scheduled
<1>7. DOMAIN seen' \subseteq Requests /\ \A r \in DOMAIN seen' : seen'[r] \in 0 .. MaxAge
  BY <1>2
<1>8. NeverOlder'
  <2> SUFFICES ASSUME NEW r \in ids PROVE age'[r] # NoAge /\ seen'[r] <= age'[r]
    BY <1>2 DEF NeverOlder
  <2>1. /\ seen'[r] = IF r \in DOMAIN seen THEN Older(seen[r]) ELSE 0
        /\ age'[r] = IF age[r] # NoAge THEN Older(age[r]) ELSE 0
    BY DEF Scheduled, ArrivalMsFor
  <2>2. \A a \in 0 .. MaxAge : Older(a) \in 0 .. MaxAge  BY <1>1 DEF Older
  <2>3. age[r] # NoAge => age[r] \in 0 .. MaxAge  BY <1>3 DEF NoAge
  <2>4. age'[r] \in 0 .. MaxAge  BY <1>1, <2>1, <2>2, <2>3
  <2>5. CASE r \in DOMAIN seen
    <3>1. seen[r] \in 0 .. MaxAge /\ age[r] \in 0 .. MaxAge /\ seen[r] <= age[r]
      BY <2>3, <2>5 DEF NeverOlder, TypeOK
    <3>2. seen'[r] = Older(seen[r]) /\ age'[r] = Older(age[r])
      BY <2>1, <2>5 DEF NeverOlder
    <3> QED  BY <1>1, <2>4, <3>1, <3>2 DEF Older, NoAge
  <2>6. CASE r \notin DOMAIN seen  BY <1>1, <2>1, <2>4, <2>6 DEF NoAge
  <2> QED  BY <2>5, <2>6
<1> QED  BY <1>6, <1>7, <1>8 DEF ArrivalsType

LEMMA ScheduledInStep ==
  ASSUME BridgeAssumption, TypeOK, SeenInStep, Scheduled(Active),
         \A r \in Requests : IF r \in Active THEN request'[r].phase # "new"
                             ELSE request'[r] = request[r]
  PROVE  SeenInStep'
<1> SUFFICES ASSUME ~ probing, NEW r \in Requests
             PROVE  /\ request'[r].phase = "new" => r \notin DOMAIN seen' /\ age'[r] = NoAge
                    /\ r \in Active' => IF r \in DOMAIN seen' THEN seen'[r] = age'[r]
                                        ELSE age'[r] = NoAge
  BY DEF SeenInStep, Scheduled
<1>1. /\ DOMAIN seen' = Active
      /\ r \in Active => seen'[r] = IF r \in DOMAIN seen THEN Older(seen[r]) ELSE 0
      /\ age'[r] = IF r \notin Active THEN NoAge
                   ELSE IF age[r] # NoAge THEN Older(age[r]) ELSE 0
  BY DEF Scheduled, ArrivalMsFor
<1>2. CASE r \notin Active
  <2>1. r \notin Active'  BY <1>2 DEF Active
  <2> QED  BY <1>1, <1>2, <2>1
<1>3. CASE r \in Active
  <2>1. IF r \in DOMAIN seen THEN seen[r] = age[r] ELSE age[r] = NoAge
    BY <1>3 DEF SeenInStep
  <2>2. r \in DOMAIN seen => seen[r] # NoAge  BY DEF TypeOK, NoAge
  <2>3. seen'[r] = age'[r]  BY <1>1, <1>3, <2>1, <2>2
  <2> QED  BY <1>1, <1>3, <2>3
<1> QED  BY <1>2, <1>3

LEMMA InitHolds ==
  ASSUME BridgeAssumption, DecisionAssumption, Init
  PROVE  IInv
<1>1. RequestType /\ Unfinished
  BY DEF Init, RequestType, Unfinished, BridgeAssumption, Phases
<1>2. ArrivalsType /\ SeenInStep /\ NeverOlder
  BY DEF Init, ArrivalsType, SeenInStep, NeverOlder, Active, BridgeAssumption, NoAge
<1>3. LedgerType /\ LedgerExact
  BY DEF Init, LedgerType, LedgerExact, BridgeAssumption
<1>4. CountsType /\ CountsAddUp /\ EmptyCounted
  BY DEF Init, CountsType, CountsAddUp, EmptyCounted, Counters, BridgeAssumption
<1>5. ModesType
  BY DEF Init, ModesType, DecisionAssumption
<1> QED  BY <1>1, <1>2, <1>3, <1>4, <1>5, TypeParts DEF IInv

(* What the executor runs in live mode is part of what was offered.        *)
LEMMA RunsWhatWasOffered ==
  ASSUME BridgeAssumption, DecisionAssumption, TypeOK, NEW fitting \in SUBSET Active,
         NEW kv_free \in KvFree, NEW rows, NEW d,
         rows = Rows(fitting, ArrivalMsFor(Active)), d = RustDecision(rows, kv_free)
  PROVE  ToSet(Ids(rows, d.fitting)) \in SUBSET Active
<1>1. RowsOK(rows) /\ \A k \in 1 .. Len(rows) : rows[k].id \in fitting  BY OfferedRows
<1>2. kv_free \in Nat /\ cap \in Nat
  BY DEF BridgeAssumption, DecisionAssumption, TypeOK
<1>3. d = Decide(rows, {}, decode_order, cap, kv_free)  BY DEF RustDecision
<1>4. Explained(d, rows, decode_order, cap, kv_free)  BY <1>1, <1>2, <1>3, DecideMaximal
<1>5. d.fitting \in Seq(Nat)  BY <1>1, <1>2, <1>3, DecideMaximal DEF Decision
<1>6. \A k \in 1 .. Len(d.fitting) : d.fitting[k] \in 1 .. Len(rows)
  <2>1. \A k \in 1 .. Len(d.fitting) : d.fitting[k] \in ToSet(d.fitting)
    BY <1>5, LenProperties DEF ToSet
  <2> QED  BY <1>4, <2>1 DEF Explained
<1>7. PICK ids : ids = Ids(rows, d.fitting)  OBVIOUS
<1>8. /\ DOMAIN ids = 1 .. Len(d.fitting)
      /\ \A k \in 1 .. Len(d.fitting) : ids[k] = rows[d.fitting[k]].id
  BY <1>7 DEF Ids
<1>9. \A k \in DOMAIN ids : ids[k] \in Active  BY <1>1, <1>6, <1>8
<1> QED  BY <1>7, <1>9 DEF ToSet

LEMMA ExecutorStep ==
  ASSUME BridgeAssumption, IInv, Scheduled(Active), NEW ran \in SUBSET Active,
         NEW whole \in BOOLEAN, request' = Computed(ran, whole)
  PROVE  RequestType' /\ Unfinished' /\ ArrivalsType' /\ SeenInStep' /\ NeverOlder'
<1>1. RequestType  BY TypeParts DEF IInv
<1>2. /\ RequestType' /\ Unfinished'
      /\ \A r \in Requests : IF r \in Active THEN request'[r].phase # "new"
                             ELSE request'[r] = request[r]
  BY <1>1, ComputesWithinBounds DEF IInv
<1>3. ArrivalsType' /\ NeverOlder'
  BY ScheduledType, Active \in SUBSET Requests DEF IInv, Active
<1>4. SeenInStep'  BY <1>2, ScheduledInStep DEF IInv
<1> QED  BY <1>2, <1>3, <1>4

(* A probe computes nothing and makes nobody older.                        *)
LEMMA ProbeArrivals ==
  ASSUME BridgeAssumption, TypeOK, RequestType, Unfinished, NeverOlder, probing,
         NEW r \in Requests, Scheduled({r}), request' = request
  PROVE  RequestType' /\ Unfinished' /\ ArrivalsType' /\ SeenInStep' /\ NeverOlder'
<1>1. RequestType' /\ Unfinished'  BY DEF RequestType, Unfinished
<1>2. ArrivalsType' /\ NeverOlder'  BY ScheduledType, {r} \in SUBSET Requests
<1>3. SeenInStep'  BY DEF SeenInStep, Scheduled
<1> QED  BY <1>1, <1>2, <1>3

LEMMA StepPreserves ==
  ASSUME BridgeAssumption, DecisionAssumption, IInv, [Next]_vars
  PROVE  IInv'
<1>1. /\ TypeOK /\ RequestType /\ ArrivalsType /\ LedgerType /\ CountsType /\ ModesType
      /\ LedgerExact /\ CountsAddUp /\ EmptyCounted /\ Unfinished /\ SeenInStep
      /\ NeverOlder
  BY TypeParts DEF IInv
<1>2. Active \in SUBSET Requests  BY DEF Active
<1>3. ASSUME NEW fitting \in SUBSET Active, NEW kv_free \in KvFree, NEW whole \in BOOLEAN,
             ShadowStep(fitting, kv_free, whole)
      PROVE  IInv'
  <2>1. PICK rows : /\ Shadow /\ Scheduled(Active) /\ RustRemembers(fitting)
                    /\ counts' = Count(rows, RustDecision(rows, kv_free))
                    /\ request' = Computed(fitting, whole) /\ UNCHANGED cap
    BY <1>3 DEF ShadowStep
  <2>2. RequestType' /\ Unfinished' /\ ArrivalsType' /\ SeenInStep' /\ NeverOlder'
    BY <2>1, ExecutorStep
  <2>3. LedgerType' /\ LedgerExact'
    BY <1>1, <1>2, <2>1, RemembersExactly, fitting \in SUBSET Requests
  <2>4. CountsType' /\ CountsAddUp' /\ EmptyCounted'  BY <1>1, <2>1, CountsExactly
  <2>5. ModesType'  BY <1>1, <2>1 DEF ModesType, Scheduled
  <2> QED  BY <2>2, <2>3, <2>4, <2>5, PartsAfter
<1>4. ASSUME NEW fitting \in SUBSET Active, NEW kv_free \in KvFree, NEW whole \in BOOLEAN,
             LiveStep(fitting, kv_free, whole)
      PROVE  IInv'
  <2>1. PICK rows, d :
          /\ rows = Rows(fitting, ArrivalMsFor(Active)) /\ d = RustDecision(rows, kv_free)
          /\ Scheduled(Active) /\ RustRemembers(fitting)
          /\ request' = Computed(ToSet(Ids(rows, d.fitting)), whole)
          /\ UNCHANGED <<cap, counts>>
    BY <1>4 DEF LiveStep
  <2>2. PICK ran \in SUBSET Active : ran = ToSet(Ids(rows, d.fitting))
    BY <1>1, <2>1, RunsWhatWasOffered
  <2>3. RequestType' /\ Unfinished' /\ ArrivalsType' /\ SeenInStep' /\ NeverOlder'
    BY <2>1, <2>2, ExecutorStep
  <2>4. LedgerType' /\ LedgerExact'
    BY <1>1, <1>2, <2>1, RemembersExactly, fitting \in SUBSET Requests
  <2>5. CountsType' /\ CountsAddUp' /\ EmptyCounted'
    BY <1>1, <2>1 DEF CountsType, CountsAddUp, EmptyCounted
  <2>6. ModesType'  BY <1>1, <2>1 DEF ModesType, Scheduled
  <2> QED  BY <2>3, <2>4, <2>5, <2>6, PartsAfter
<1>5. ASSUME NEW fitting \in SUBSET Active, NEW whole \in BOOLEAN,
             ShadowRaises(fitting, whole)
      PROVE  IInv'
  <2> USE DEF ShadowRaises, Malformed
  <2>1. RequestType' /\ Unfinished' /\ ArrivalsType' /\ SeenInStep' /\ NeverOlder'
    BY <1>5, ExecutorStep
  <2>2. LedgerType' /\ LedgerExact'  BY <1>1, <1>5 DEF LedgerType, LedgerExact
  <2>3. CountsType' /\ CountsAddUp' /\ EmptyCounted'
    BY <1>1, <1>5, RaiseCounted
  <2>4. ModesType'  BY <1>1, <1>5 DEF ModesType, Scheduled
  <2> QED  BY <2>1, <2>2, <2>3, <2>4, PartsAfter
<1>6. ASSUME NEW r \in Requests, NEW fitting \in SUBSET {r}, NEW kv_free \in KvFree,
             FitCheck(r, fitting, kv_free)
      PROVE  IInv'
  <2>1. /\ Scheduled({r}) /\ RustRemembers(fitting) /\ probing /\ request' = request
        /\ UNCHANGED cap /\ {r} \in SUBSET Requests /\ fitting \in SUBSET Requests
    BY <1>6 DEF FitCheck, Probed
  <2>2. RequestType' /\ Unfinished' /\ ArrivalsType' /\ SeenInStep' /\ NeverOlder'
    BY <1>1, <2>1, ProbeArrivals
  <2>3. LedgerType' /\ LedgerExact'  BY <1>1, <2>1, RemembersExactly
  <2>4. CountsType' /\ CountsAddUp' /\ EmptyCounted'
    <3>1. CASE UNCHANGED counts
      BY <1>1, <3>1 DEF CountsType, CountsAddUp, EmptyCounted
    <3>2. CASE mode # "live"
      <4>1. PICK rows, d : counts' = Count(rows, d) /\ Shadow
        BY <1>6, <3>2 DEF FitCheck
      <4> QED  BY <1>1, <4>1, CountsExactly
    <3> QED  BY <1>6, <3>1, <3>2 DEF FitCheck
  <2>5. ModesType'  BY <1>1, <2>1 DEF ModesType, Scheduled
  <2> QED  BY <2>2, <2>3, <2>4, <2>5, PartsAfter
<1>7. ASSUME NEW r \in Requests, FitCheckRaises(r) PROVE IInv'
  <2>1. /\ Scheduled({r}) /\ probing /\ request' = request
        /\ UNCHANGED <<cap, ledger, unseen>> /\ {r} \in SUBSET Requests
    BY <1>7 DEF FitCheckRaises, Probed, Malformed, CallRaises
  <2>2. RequestType' /\ Unfinished' /\ ArrivalsType' /\ SeenInStep' /\ NeverOlder'
    BY <1>1, <2>1, ProbeArrivals
  <2>3. LedgerType' /\ LedgerExact'  BY <1>1, <2>1 DEF LedgerType, LedgerExact
  <2>4. CountsType' /\ CountsAddUp' /\ EmptyCounted'
    <3>1. CASE UNCHANGED counts
      BY <1>1, <3>1 DEF CountsType, CountsAddUp, EmptyCounted
    <3>2. CASE Malformed  BY <1>1, <3>2, RaiseCounted DEF Malformed
    <3> QED  BY <1>7, <3>1, <3>2 DEF FitCheckRaises, CallRaises
  <2>5. ModesType'  BY <1>1, <2>1 DEF ModesType, Scheduled
  <2> QED  BY <2>2, <2>3, <2>4, <2>5, PartsAfter
<1>8. ASSUME CallRaises(Active) PROVE IInv'
  <2>1. /\ Scheduled(Active) /\ request' = request
        /\ UNCHANGED <<cap, ledger, unseen, counts>>
    BY <1>8 DEF CallRaises
  <2>2. RequestType' /\ Unfinished'  BY <1>1, <2>1 DEF RequestType, Unfinished
  <2>3. ArrivalsType' /\ NeverOlder'  BY <1>1, <1>2, <2>1, ScheduledType
  <2>4. SeenInStep'
    <3>1. \A r \in Requests : IF r \in Active THEN request'[r].phase # "new"
                             ELSE request'[r] = request[r]
      BY <2>1 DEF Active
    <3> QED  BY <1>1, <2>1, <3>1, ScheduledInStep
  <2>5. LedgerType' /\ LedgerExact'  BY <1>1, <2>1 DEF LedgerType, LedgerExact
  <2>6. CountsType' /\ CountsAddUp' /\ EmptyCounted'
    BY <1>1, <2>1 DEF CountsType, CountsAddUp, EmptyCounted
  <2>7. ModesType'  BY <1>1, <2>1 DEF ModesType, Scheduled
  <2> QED  BY <2>2, <2>3, <2>4, <2>5, <2>6, <2>7, PartsAfter
<1>9. ASSUME Observe PROVE IInv'
  <2>1. /\ RequestType' /\ ArrivalsType' /\ LedgerType' /\ CountsType' /\ LedgerExact'
        /\ CountsAddUp' /\ EmptyCounted' /\ Unfinished' /\ SeenInStep' /\ NeverOlder'
    BY <1>1, <1>9 DEF Observe, RequestType, ArrivalsType, LedgerType, CountsType,
      LedgerExact, CountsAddUp, EmptyCounted, Unfinished, SeenInStep, NeverOlder, Active
  <2>2. ModesType'  BY <1>1, <1>9 DEF Observe, ModesType
  <2> QED  BY <2>1, <2>2, PartsAfter
<1>10. ASSUME NEW r \in Requests, Arrive(r) PROVE IInv'
  <2>1. /\ ArrivalsType' /\ LedgerType' /\ CountsType' /\ ModesType'
        /\ LedgerExact' /\ CountsAddUp' /\ EmptyCounted' /\ NeverOlder'
    BY <1>1, <1>10 DEF Arrive, ArrivalsType, LedgerType, CountsType, ModesType,
      LedgerExact, CountsAddUp, EmptyCounted, NeverOlder
  <2>2. RequestType' /\ Unfinished'
    BY <1>1, <1>10 DEF Arrive, RequestType, Unfinished, Phases
  <2>3. SeenInStep'
    <3>1. \A o \in Requests : o # r => request'[o] = request[o]
      BY <1>1, <1>10 DEF Arrive, RequestType
    <3>2. request[r].phase = "new" /\ request'[r].phase = "context"
      BY <1>1, <1>10 DEF Arrive, RequestType
    <3>3. UNCHANGED <<probing, seen, age>>  BY <1>10 DEF Arrive
    <3> QED  BY <1>1, <3>1, <3>2, <3>3 DEF SeenInStep, Active
  <2> QED  BY <2>1, <2>2, <2>3, PartsAfter
<1>11. ASSUME UNCHANGED vars PROVE IInv'
  <2>1. /\ RequestType' /\ ArrivalsType' /\ LedgerType' /\ CountsType' /\ LedgerExact'
        /\ CountsAddUp' /\ EmptyCounted' /\ Unfinished' /\ SeenInStep' /\ ModesType'
        /\ NeverOlder'
    BY <1>1, <1>11 DEF vars, RequestType, ArrivalsType, LedgerType, CountsType, ModesType,
      LedgerExact, CountsAddUp, EmptyCounted, Unfinished, SeenInStep, NeverOlder, Active
  <2> QED  BY <2>1, PartsAfter
<1> QED  BY <1>3, <1>4, <1>5, <1>6, <1>7, <1>8, <1>9, <1>10, <1>11 DEF Next

-------------------------------------------------------------------------------
(***************************************************************************)
(* What the Rust side (ledger, lib.rs) and the Python side (_first_seen_ms *)
(* and the shadow counters, scheduler.py) remember, together with the      *)
(* facts about the executor's requests it rests on, holds after any number *)
(* of steps, probes, exceptions and arrivals, for any requests and bounds. *)
(***************************************************************************)
THEOREM InductiveInvariant == Spec => []IInv
<1>1. Init => IInv  BY BridgeAssumption, DecisionAssumption, InitHolds
<1>2. IInv /\ [Next]_vars => IInv'  BY BridgeAssumption, DecisionAssumption, StepPreserves
<1> QED  BY <1>1, <1>2, PTL DEF Spec

(***************************************************************************)
(* BooksExact: update_ledger (lib.rs) records exactly who was offered      *)
(* lately, and _record_comparison (scheduler.py) counts each shadow step   *)
(* once.  _arrival_ms_for keeps each first sight as long as nobody probes; *)
(* with can_schedule() probes a request may look younger, never older.     *)
(***************************************************************************)
THEOREM BooksExactTheorem == Spec => []BooksExact
<1>1. IInv => BooksExact
  <2> SUFFICES ASSUME IInv PROVE ArrivalKept  BY DEF IInv, BooksExact
  <2> QED  BY DEF IInv, ArrivalKept, ArrivalIsFirstSeen, SeenInStep, Active
<1> QED  BY <1>1, InductiveInvariant, PTL

(* The rows the next call would offer are fit for the decision.            *)
LEMMA OfferedType ==
  ASSUME IInv, NEW rows, rows = Offered, NEW kv_free \in KvFree
  PROVE  RowsOK(rows) /\ kv_free \in Nat /\ cap \in Nat
<1>1. Active \in SUBSET Active /\ TypeOK  BY DEF IInv
<1>2. RowsOK(rows)  BY <1>1, BridgeAssumption, OfferedRows DEF Offered
<1> QED  BY <1>1, <1>2, BridgeAssumption, DecisionAssumption
         DEF BridgeAssumption, DecisionAssumption, TypeOK

(***************************************************************************)
(* DecisionMaximal: whatever decide_indices (decide.rs) pauses, it pauses  *)
(* for want of a budget or because of a stall or the watermark, and never  *)
(* in favour of a generation that could better afford to wait; for any     *)
(* number of requests and any budgets.                                     *)
(***************************************************************************)
THEOREM DecisionMaximalTheorem == Spec => []DecisionMaximal
<1>1. IInv => DecisionMaximal
  <2> SUFFICES ASSUME IInv PROVE DecisionMaximal  OBVIOUS
  <2>1. PICK rows : rows = Offered  OBVIOUS
  <2>2. ASSUME NEW kv_free \in KvFree, NEW d, d = RustDecision(rows, kv_free)
        PROVE  Explained(d, rows, decode_order, cap, kv_free)
    <3>1. RowsOK(rows) /\ kv_free \in Nat /\ cap \in Nat  BY <2>1, OfferedType
    <3>2. d = Decide(rows, {}, decode_order, cap, kv_free)  BY <2>2 DEF RustDecision
    <3> QED  BY <3>1, <3>2, DecideMaximal
  <2>3. ASSUME NEW kv_free \in KvFree
        PROVE  LET decided == RustDecision(rows, kv_free)
                   running(list) == {i \in ToSet(list) : ~ rows[i].context}
                   prompts(list) == {i \in ToSet(list) : rows[i].context}
                   full(cost) == \/ Len(decided.fitting) = MaxBatchSize
                                 \/ decided.tokens + cost > MaxNumTokens
               IN /\ \A i \in running(decided.paused) :
                       /\ \/ Cardinality(running(decided.fitting)) >= cap \/ full(1)
                       /\ decode_order = "Slack" => \A j \in running(decided.fitting) :
                                               ~ LessTolerant(rows[i], rows[j])
                  /\ \A i \in prompts(decided.paused) :
                       \/ running(decided.paused) # {}
                       \/ rows[i].done = 0 /\ kv_free < WatermarkBlocks
                       \/ full(RemainingPrompt(rows[i]))
                  /\ running(decided.paused) # {} => prompts(decided.fitting) = {}
    <3>1. PICK d : d = RustDecision(rows, kv_free)  OBVIOUS
    <3>2. Explained(d, rows, decode_order, cap, kv_free)  BY <2>2, <3>1
    <3> QED  BY <3>1, <3>2 DEF Explained
  <2> QED  BY <2>1, <2>3 DEF DecisionMaximal
<1> QED  BY <1>1, InductiveInvariant, PTL

(***************************************************************************)
(* RanksAgree: decide_indices (decide.rs) admits and pauses the same ids,  *)
(* in the same order, however the offered requests are arranged, so that   *)
(* every tensor-parallel rank decides alike; for any number of requests.   *)
(***************************************************************************)
THEOREM RanksAgreeTheorem == Spec => []RanksAgree
<1>1. IInv => RanksAgree
  <2> SUFFICES ASSUME IInv PROVE RanksAgree  OBVIOUS
  <2>1. PICK rows : rows = Offered  OBVIOUS
  <2>2. ASSUME NEW kv_free \in KvFree, NEW p \in Bijection(DOMAIN rows, DOMAIN rows),
               NEW q, q = [k \in DOMAIN rows |-> rows[p[k]]], NEW d, NEW e,
               d = RustDecision(q, kv_free), e = RustDecision(rows, kv_free)
        PROVE  <<Ids(q, d.fitting), Ids(q, d.paused)>>
                 = <<Ids(rows, e.fitting), Ids(rows, e.paused)>>
    <3>1. RowsOK(rows) /\ kv_free \in Nat /\ cap \in Nat  BY <2>1, OfferedType
    <3>2. DOMAIN rows = 1 .. Len(rows)  BY <3>1 DEF RowsOK
    <3>3. Permuted(q, rows, p)  BY <2>2, <3>1, <3>2 DEF Permuted
    <3>4. /\ d = Decide(q, {}, decode_order, cap, kv_free)
          /\ e = Decide(rows, {}, decode_order, cap, kv_free)
      BY <2>2 DEF RustDecision
    <3> QED  BY <3>1, <3>3, <3>4, AnswersAgree
  <2> QED  BY <2>1, <2>2 DEF RanksAgree
<1> QED  BY <1>1, InductiveInvariant, PTL

-------------------------------------------------------------------------------
(* A loop over a sequence, as a function of the number of turns taken: if  *)
(* every turn leads from a valid state to a valid one, the loop is valid.  *)
Scans(f, b, N, G) == f[0] = b /\ \A k \in 1 .. N : f[k] = G[k][f[k - 1]]

LEMMA ScanValid ==
  ASSUME NEW N \in Nat, NEW V, NEW b \in V[0],
         NEW G, \A k \in 1 .. N : \A d \in V[k - 1] : G[k][d] \in V[k],
         NEW f, Scans(f, b, N, G)
  PROVE  \A k \in 0 .. N : f[k] \in V[k]
<1> DEFINE T == {k \in 0 .. N : f[k] \in V[k]}
<1>1. 0 \in T  BY DEF Scans
<1>2. ASSUME NEW k \in 1 .. N, k - 1 \in T PROVE k \in T
  <2>1. f[k - 1] \in V[k - 1]  BY <1>2
  <2>2. G[k][f[k - 1]] \in V[k]  BY <2>1
  <2> QED  BY <2>2 DEF Scans
<1>3. 0 .. N \subseteq T
  <2> HIDE DEF T
  <2> QED  BY <1>1, <1>2, SetInduction
<1> QED  BY <1>3

LEMMA ScanExists ==
  ASSUME NEW N \in Nat, NEW D, NEW V, \A k \in 0 .. N : V[k] \subseteq D,
         NEW b \in V[0], NEW G,
         \A k \in 1 .. N : \A d \in V[k - 1] : G[k][d] \in V[k]
  PROVE  \E f \in [0 .. N -> D] : Scans(f, b, N, G)
<1> DEFINE H == [k \in 1 .. N |-> [d \in D |-> IF G[k][d] \in D THEN G[k][d] ELSE d]]
<1>1. b \in D  OBVIOUS
<1>2. H \in [1 .. N -> [D -> D]]  OBVIOUS
<1>3. PICK f : Recursive(f, D, b, N, H)
  <2> HIDE DEF H
  <2> QED  BY <1>1, <1>2, RecursionExists
<1>4. f \in [0 .. N -> D] /\ f[0] = b /\ \A k \in 1 .. N : f[k] = H[k][f[k - 1]]
  BY <1>3 DEF Recursive
<1> DEFINE T == {k \in 0 .. N : f[k] \in V[k]}
<1>5. 0 \in T  BY <1>4
<1>6. ASSUME NEW k \in 1 .. N, f[k - 1] \in V[k - 1]
      PROVE  f[k] = G[k][f[k - 1]] /\ f[k] \in V[k]
  <2>1. PICK d \in V[k - 1] : d = f[k - 1]  BY <1>6
  <2>2. G[k][d] \in V[k] /\ k \in 0 .. N  OBVIOUS
  <2>3. G[k][d] \in D /\ d \in D  BY <2>2, k - 1 \in 0 .. N
  <2>4. H[k][d] = G[k][d]  BY <2>3
  <2>5. f[k] = H[k][d]  BY <1>4, <2>1
  <2> QED  BY <2>1, <2>2, <2>4, <2>5
<1>7. ASSUME NEW k \in 1 .. N, k - 1 \in T PROVE k \in T
  BY <1>6, <1>7
<1>8. 0 .. N \subseteq T
  <2> HIDE DEF T, H
  <2> QED  BY <1>5, <1>7, SetInduction
<1>9. \A k \in 1 .. N : f[k] = G[k][f[k - 1]]
  <2> SUFFICES ASSUME NEW k \in 1 .. N PROVE f[k] = G[k][f[k - 1]]  OBVIOUS
  <2>1. k - 1 \in 0 .. N  OBVIOUS
  <2>2. f[k - 1] \in V[k - 1]  BY <1>8, <2>1
  <2> QED  BY <1>6, <2>2
<1> QED  BY <1>4, <1>9 DEF Scans

-------------------------------------------------------------------------------
(* The sums of the model, by their partial sums.                           *)
Partial(u, n, f) ==
  u \in [0 .. n -> Nat] /\ u[0] = 0 /\ \A k \in 1 .. n : u[k] = u[k - 1] + f[k]

LEMMA SumPartial ==
  ASSUME NEW n \in Nat, NEW f \in [1 .. n -> Nat]
  PROVE  \E u : Partial(u, n, f) /\ Sum(n, f) = u[n]
<1> DEFINE upto[k \in 0 .. n] == IF k = 0 THEN 0 ELSE upto[k - 1] + f[k]
           G == [k \in 1 .. n |-> [x \in Nat |-> x + f[k]]]
           V == [k \in 0 .. n |-> Nat]
           b == 0
<1>1. \A k \in 1 .. n : \A x \in V[k - 1] : G[k][x] \in V[k]  OBVIOUS
<1>2. b \in V[0] /\ \A k \in 0 .. n : V[k] \subseteq Nat  OBVIOUS
<1>3. PICK g \in [0 .. n -> Nat] : Scans(g, b, n, G)
  <2> HIDE DEF G, V, upto, b
  <2> QED  BY <1>1, <1>2, ScanExists
<1>4. g[0] = 0 /\ \A k \in 1 .. n : g[k] = g[k - 1] + f[k]
  <2>1. g[0] = 0  BY <1>3 DEF Scans
  <2>2. ASSUME NEW k \in 1 .. n PROVE g[k] = g[k - 1] + f[k]
    <3>1. g[k] = G[k][g[k - 1]]  BY <1>3 DEF Scans
    <3>2. g[k - 1] \in Nat  OBVIOUS
    <3> QED  BY <3>1, <3>2
  <2> QED  BY <2>1, <2>2
<1>5. g = [k \in 0 .. n |-> IF k = 0 THEN 0 ELSE g[k - 1] + f[k]]  BY <1>4
<1>6. upto = [k \in 0 .. n |-> IF k = 0 THEN 0 ELSE upto[k - 1] + f[k]]
  BY <1>5
<1>7. Sum(n, f) = upto[n]  BY DEF Sum
<1> HIDE DEF upto, G, V, b
<1>8. upto[0] = 0 /\ \A k \in 1 .. n : upto[k] = upto[k - 1] + f[k]  BY <1>6
<1> DEFINE T == {k \in 0 .. n : upto[k] \in Nat}
<1>9. 0 \in T  BY <1>8
<1>10. ASSUME NEW k \in 1 .. n, k - 1 \in T PROVE k \in T  BY <1>8, <1>10
<1>11. 0 .. n \subseteq T
  <2> HIDE DEF T
  <2> QED  BY <1>9, <1>10, SetInduction
<1>12. upto \in [0 .. n -> Nat]  BY <1>6, <1>11
<1> QED  BY <1>7, <1>8, <1>12 DEF Partial

(* A sum is at least each of its terms, and grows with them.               *)
LEMMA SumFacts ==
  ASSUME NEW n \in Nat, NEW f \in [1 .. n -> Nat]
  PROVE  /\ Sum(n, f) \in Nat
         /\ \A r \in 1 .. n : f[r] <= Sum(n, f)
         /\ (\A r \in 1 .. n : f[r] = 0) => Sum(n, f) = 0
<1>1. PICK u : Partial(u, n, f) /\ Sum(n, f) = u[n]  BY SumPartial
<1>2. u \in [0 .. n -> Nat] /\ u[0] = 0 /\ \A k \in 1 .. n : u[k] = u[k - 1] + f[k]
  BY <1>1 DEF Partial
<1>3. \A r \in 1 .. n : f[r] <= Sum(n, f)
  <2> SUFFICES ASSUME NEW r \in 1 .. n PROVE f[r] <= u[n]  BY <1>1
  <2> DEFINE T == {k \in 0 .. n : k >= r => f[r] <= u[k]}
  <2>1. 0 \in T  OBVIOUS
  <2>2. ASSUME NEW k \in 1 .. n, k - 1 \in T PROVE k \in T
    <3>1. /\ u[k] = u[k - 1] + f[k] /\ u[k] \in Nat /\ u[k - 1] \in Nat
          /\ f[k] \in Nat /\ f[r] \in Nat
      BY <1>2
    <3>2. CASE k = r  BY <3>1, <3>2
    <3>3. CASE k # r  BY <2>2, <3>1, <3>3
    <3> QED  BY <3>2, <3>3
  <2>3. 0 .. n \subseteq T
    <3> HIDE DEF T
    <3> QED  BY <2>1, <2>2, SetInduction
  <2> QED  BY <2>3
<1>4. ASSUME \A r \in 1 .. n : f[r] = 0 PROVE Sum(n, f) = 0
  <2> DEFINE T == {k \in 0 .. n : u[k] = 0}
  <2>1. 0 \in T  BY <1>2
  <2>2. ASSUME NEW k \in 1 .. n, k - 1 \in T PROVE k \in T  BY <1>2, <1>4, <2>2
  <2>3. 0 .. n \subseteq T
    <3> HIDE DEF T
    <3> QED  BY <2>1, <2>2, SetInduction
  <2> QED  BY <1>1, <2>3
<1> QED  BY <1>1, <1>2, <1>3, <1>4

LEMMA SumGrows ==
  ASSUME NEW n \in Nat, NEW f \in [1 .. n -> Nat], NEW g \in [1 .. n -> Nat],
         \A r \in 1 .. n : f[r] <= g[r]
  PROVE  Sum(n, f) <= Sum(n, g)
<1>1. PICK u : Partial(u, n, f) /\ Sum(n, f) = u[n]  BY SumPartial
<1>2. PICK v : Partial(v, n, g) /\ Sum(n, g) = v[n]  BY SumPartial
<1>3. u \in [0 .. n -> Nat] /\ u[0] = 0 /\ \A k \in 1 .. n : u[k] = u[k - 1] + f[k]
  BY <1>1 DEF Partial
<1>4. v \in [0 .. n -> Nat] /\ v[0] = 0 /\ \A k \in 1 .. n : v[k] = v[k - 1] + g[k]
  BY <1>2 DEF Partial
<1> DEFINE T == {k \in 0 .. n : u[k] <= v[k]}
<1>5. 0 \in T  BY <1>3, <1>4
<1>6. ASSUME NEW k \in 1 .. n, k - 1 \in T PROVE k \in T
  <2>1. /\ u[k - 1] \in Nat /\ v[k - 1] \in Nat /\ f[k] \in Nat /\ g[k] \in Nat
        /\ f[k] <= g[k] /\ u[k - 1] <= v[k - 1]
    BY <1>3, <1>4, <1>6
  <2> QED  BY <1>3, <1>4, <2>1
<1>7. 0 .. n \subseteq T
  <2> HIDE DEF T
  <2> QED  BY <1>5, <1>6, SetInduction
<1> QED  BY <1>1, <1>2, <1>7

(* Sums add up term by term.                                               *)
LEMMA SumAdds ==
  ASSUME NEW n \in Nat, NEW f \in [1 .. n -> Nat], NEW g \in [1 .. n -> Nat],
         NEW h \in [1 .. n -> Nat], \A r \in 1 .. n : h[r] = f[r] + g[r]
  PROVE  Sum(n, h) = Sum(n, f) + Sum(n, g)
<1>1. PICK u : Partial(u, n, f) /\ Sum(n, f) = u[n]  BY SumPartial
<1>2. PICK v : Partial(v, n, g) /\ Sum(n, g) = v[n]  BY SumPartial
<1>3. PICK w : Partial(w, n, h) /\ Sum(n, h) = w[n]  BY SumPartial
<1>4. u \in [0 .. n -> Nat] /\ u[0] = 0 /\ \A k \in 1 .. n : u[k] = u[k - 1] + f[k]
  BY <1>1 DEF Partial
<1>5. v \in [0 .. n -> Nat] /\ v[0] = 0 /\ \A k \in 1 .. n : v[k] = v[k - 1] + g[k]
  BY <1>2 DEF Partial
<1>6. w \in [0 .. n -> Nat] /\ w[0] = 0 /\ \A k \in 1 .. n : w[k] = w[k - 1] + h[k]
  BY <1>3 DEF Partial
<1> DEFINE T == {k \in 0 .. n : w[k] = u[k] + v[k]}
<1>7. 0 \in T  BY <1>4, <1>5, <1>6
<1>8. ASSUME NEW k \in 1 .. n, k - 1 \in T PROVE k \in T
  <2>1. /\ u[k - 1] \in Nat /\ v[k - 1] \in Nat /\ f[k] \in Nat /\ g[k] \in Nat
        /\ h[k] = f[k] + g[k] /\ w[k - 1] = u[k - 1] + v[k - 1]
    BY <1>4, <1>5, <1>8
  <2>2. u[k] = u[k - 1] + f[k] /\ v[k] = v[k - 1] + g[k] /\ w[k] = w[k - 1] + h[k]
    BY <1>4, <1>5, <1>6
  <2>3. w[k] = u[k] + v[k]
    <3>1. PICK a \in Nat, b \in Nat, c \in Nat, d \in Nat :
            a = u[k - 1] /\ b = v[k - 1] /\ c = f[k] /\ d = g[k]
      BY <2>1
    <3>2. u[k] = a + c /\ v[k] = b + d /\ w[k] = (a + b) + (c + d)  BY <2>1, <2>2, <3>1
    <3>3. (a + b) + (c + d) = (a + c) + (b + d)  OBVIOUS
    <3> QED  BY <3>2, <3>3
  <2> QED  BY <2>3
<1>9. 0 .. n \subseteq T
  <2> HIDE DEF T
  <2> QED  BY <1>7, <1>8, SetInduction
<1> QED  BY <1>1, <1>2, <1>3, <1>9

(* A sum with one term is that term.                                       *)
LEMMA SumSingle ==
  ASSUME NEW n \in Nat, NEW f \in [1 .. n -> Nat], NEW r \in 1 .. n,
         \A i \in 1 .. n : i # r => f[i] = 0
  PROVE  Sum(n, f) = f[r]
<1>1. PICK u : Partial(u, n, f) /\ Sum(n, f) = u[n]  BY SumPartial
<1>2. u \in [0 .. n -> Nat] /\ u[0] = 0 /\ \A k \in 1 .. n : u[k] = u[k - 1] + f[k]
  BY <1>1 DEF Partial
<1> DEFINE T == {k \in 0 .. n : u[k] = IF k < r THEN 0 ELSE f[r]}
<1>3. 0 \in T  BY <1>2
<1>4. ASSUME NEW k \in 1 .. n, k - 1 \in T PROVE k \in T
  <2>1. u[k] = u[k - 1] + f[k] /\ f[r] \in Nat /\ (k # r => f[k] = 0)  BY <1>2
  <2>2. u[k - 1] = IF k - 1 < r THEN 0 ELSE f[r]  BY <1>4
  <2> QED  BY <2>1, <2>2
<1>5. 0 .. n \subseteq T
  <2> HIDE DEF T
  <2> QED  BY <1>3, <1>4, SetInduction
<1> QED  BY <1>1, <1>5

(* A sum with one term raised.                                             *)
LEMMA SumAt ==
  ASSUME NEW n \in Nat, NEW f \in [1 .. n -> Nat], NEW h \in [1 .. n -> Nat],
         NEW r \in 1 .. n, NEW x \in Nat, h[r] = f[r] + x,
         \A i \in 1 .. n : i # r => h[i] = f[i]
  PROVE  Sum(n, h) = Sum(n, f) + x
<1>1. PICK g : g = [i \in 1 .. n |-> IF i = r THEN x ELSE 0]  OBVIOUS
<1>2. g \in [1 .. n -> Nat]  BY <1>1
<1>3. \A i \in 1 .. n : g[i] = IF i = r THEN x ELSE 0  BY <1>1
<1>4. \A i \in 1 .. n : h[i] = f[i] + g[i]
  <2> SUFFICES ASSUME NEW i \in 1 .. n PROVE h[i] = f[i] + g[i]  OBVIOUS
  <2>1. f[i] \in Nat  OBVIOUS
  <2>2. CASE i = r  BY <1>3, <2>2
  <2>3. CASE i # r  BY <1>3, <2>1, <2>3
  <2> QED  BY <2>2, <2>3
<1>5. Sum(n, h) = Sum(n, f) + Sum(n, g)  BY <1>2, <1>4, SumAdds
<1>6. Sum(n, g) = g[r]  BY <1>2, <1>3, SumSingle
<1> QED  BY <1>3, <1>5, <1>6

-------------------------------------------------------------------------------
(* The work of a set of jobs of a queue.                                   *)
Job == [id : Nat, arrival : Int, deadline : Int, service : Nat]

JobsOK(q) ==
  q \in Seq(Job) /\ \A i, j \in 1 .. Len(q) : q[i].id = q[j].id => i = j

Weight(q, S) == Sum(Len(q), Of(S, [i \in DOMAIN q |-> q[i].service]))

LEMMA JobFacts ==
  ASSUME NEW q \in Seq(Job)
  PROVE  /\ Len(q) \in Nat /\ DOMAIN q = 1 .. Len(q)
         /\ \A i \in 1 .. Len(q) :
              /\ q[i] \in Job /\ q[i].id \in Nat /\ q[i].arrival \in Int
              /\ q[i].deadline \in Int /\ q[i].service \in Nat
<1>1. Len(q) \in Nat /\ DOMAIN q = 1 .. Len(q) /\ \A i \in 1 .. Len(q) : q[i] \in Job
  OBVIOUS
<1>2. \A j \in Job : j.id \in Nat /\ j.arrival \in Int /\ j.deadline \in Int
                     /\ j.service \in Nat
  BY DEF Job
<1> QED  BY <1>1, <1>2

(* The terms that Weight adds.                                             *)
Terms(q, S, n, u) ==
  /\ u \in [1 .. n -> Nat] /\ Weight(q, S) = Sum(n, u)
  /\ \A i \in 1 .. n : u[i] = IF i \in S THEN q[i].service ELSE 0

LEMMA WeightTerms ==
  ASSUME NEW q \in Seq(Job), NEW S, NEW n \in Nat, n = Len(q)
  PROVE  \E u \in [1 .. n -> Nat] : Terms(q, S, n, u)
<1> DEFINE t == Of(S, [i \in DOMAIN q |-> q[i].service])
<1>2. DOMAIN q = 1 .. n /\ \A i \in 1 .. n : q[i].service \in Nat  BY JobFacts
<1>3. t = [i \in 1 .. n |-> IF i \in S THEN q[i].service ELSE 0]  BY <1>2 DEF Of
<1>4. Weight(q, S) = Sum(n, t)  BY DEF Weight
<1> HIDE DEF t
<1>5. t \in [1 .. n -> Nat]  BY <1>2, <1>3
<1>6. \A i \in 1 .. n : t[i] = IF i \in S THEN q[i].service ELSE 0  BY <1>3
<1>7. Terms(q, S, n, t)  BY <1>4, <1>5, <1>6 DEF Terms
<1> QED  BY <1>5, <1>7

LEMMA WeightGrows ==
  ASSUME NEW q \in Seq(Job), NEW S, NEW T, S \subseteq T
  PROVE  Weight(q, S) \in Nat /\ Weight(q, T) \in Nat /\ Weight(q, S) <= Weight(q, T)
<1>1. PICK n \in Nat : n = Len(q)  BY JobFacts
<1>2. PICK u \in [1 .. n -> Nat] : Terms(q, S, n, u)  BY <1>1, WeightTerms
<1>3. PICK v \in [1 .. n -> Nat] : Terms(q, T, n, v)  BY <1>1, WeightTerms
<1>4. /\ u \in [1 .. n -> Nat] /\ Weight(q, S) = Sum(n, u)
      /\ v \in [1 .. n -> Nat] /\ Weight(q, T) = Sum(n, v)
  BY <1>2, <1>3 DEF Terms
<1>5. \A i \in 1 .. n : u[i] <= v[i]
  <2> SUFFICES ASSUME NEW i \in 1 .. n PROVE u[i] <= v[i]  OBVIOUS
  <2>1. q[i].service \in Nat  BY <1>1, JobFacts
  <2>2. CASE i \in S
    <3>1. u[i] = q[i].service  BY <1>2, <2>2 DEF Terms
    <3>2. v[i] = q[i].service  BY <1>3, <2>2 DEF Terms
    <3> QED  BY <2>1, <3>1, <3>2
  <2>3. CASE i \notin S
    <3>1. u[i] = 0 /\ v[i] \in Nat  BY <1>2, <1>4, <2>3 DEF Terms
    <3> QED  BY <3>1
  <2> QED  BY <2>2, <2>3
<1>6. Sum(n, u) \in Nat /\ Sum(n, v) \in Nat  BY <1>4, SumFacts
<1>7. Sum(n, u) <= Sum(n, v)  BY <1>4, <1>5, SumGrows
<1> QED  BY <1>4, <1>6, <1>7

LEMMA WeightIsNat ==
  ASSUME NEW q \in Seq(Job), NEW S
  PROVE  Weight(q, S) \in Nat
<1>1. S \subseteq S  OBVIOUS
<1> QED  BY <1>1, WeightGrows

LEMMA WeightEmpty ==
  ASSUME NEW q \in Seq(Job)
  PROVE  Weight(q, {}) = 0
<1>1. PICK n \in Nat : n = Len(q)  BY JobFacts
<1>2. PICK u \in [1 .. n -> Nat] : Terms(q, {}, n, u)  BY <1>1, WeightTerms
<1>3. /\ u \in [1 .. n -> Nat] /\ Weight(q, {}) = Sum(n, u)
      /\ \A i \in 1 .. n : u[i] = 0
  BY <1>2 DEF Terms
<1> QED  BY <1>3, SumFacts

LEMMA WeightAdds ==
  ASSUME NEW q \in Seq(Job), NEW S, NEW x \in 1 .. Len(q), x \notin S
  PROVE  Weight(q, S \cup {x}) = Weight(q, S) + q[x].service
<1>1. PICK n \in Nat : n = Len(q)  BY JobFacts
<1>9. PICK T : T = S \cup {x}  OBVIOUS
<1>a. PICK u \in [1 .. n -> Nat] : Terms(q, S, n, u)  BY <1>1, WeightTerms
<1>b. PICK v \in [1 .. n -> Nat] : Terms(q, T, n, v)  BY <1>1, WeightTerms
<1>2. /\ u \in [1 .. n -> Nat] /\ Weight(q, S) = Sum(n, u)
      /\ \A i \in 1 .. n : u[i] = IF i \in S THEN q[i].service ELSE 0
  BY <1>a DEF Terms
<1>3. /\ v \in [1 .. n -> Nat] /\ Weight(q, T) = Sum(n, v)
      /\ \A i \in 1 .. n : v[i] = IF i \in T THEN q[i].service ELSE 0
  BY <1>b DEF Terms
<1>4. x \in 1 .. n /\ q[x].service \in Nat  BY <1>1, JobFacts
<1>5. PICK w \in Nat : w = q[x].service  BY <1>4
<1>6. u[x] = 0 /\ v[x] = w /\ \A i \in 1 .. n : i # x => v[i] = u[i]
  BY <1>2, <1>3, <1>4, <1>5, <1>9
<1>7. v[x] = u[x] + w  BY <1>6
<1>11. PICK y \in 1 .. n : y = x  BY <1>4
<1>12. v[y] = u[y] + w /\ \A i \in 1 .. n : i # y => v[i] = u[i]  BY <1>6, <1>7, <1>11
<1>8. Sum(n, v) = Sum(n, u) + w  BY <1>12, SumAt
<1> QED  BY <1>2, <1>3, <1>5, <1>8, <1>9

LEMMA WeightDrops ==
  ASSUME NEW q \in Seq(Job), NEW S, NEW x \in 1 .. Len(q), x \in S
  PROVE  Weight(q, S) = Weight(q, S \ {x}) + q[x].service
<1> DEFINE R == S \ {x}
<1>1. x \notin R /\ R \cup {x} = S  OBVIOUS
<1> HIDE DEF R
<1>2. Weight(q, R \cup {x}) = Weight(q, R) + q[x].service  BY <1>1, WeightAdds
<1> QED  BY <1>1, <1>2 DEF R

-------------------------------------------------------------------------------
(* The tokens that can be served by a deadline, and what is due by it.     *)
Room(d) == (d - now) * rate
Due(q, S, d) == {i \in S : q[i].deadline <= d}

ClockOK == now \in Nat /\ rate \in Nat \ {0}

LEMMA RoomGrows ==
  ASSUME ClockOK, NEW d \in Int, NEW e \in Int, d <= e
  PROVE  Room(d) \in Int /\ Room(e) \in Int /\ Room(d) <= Room(e)
<1>1. PICK a \in Int, b \in Int, r \in Nat : a = d - now /\ b = e - now /\ r = rate
  BY DEF ClockOK
<1>2. a <= b  BY <1>1 DEF ClockOK
<1>3. \E c \in Nat : b = a + c  BY <1>2, b - a \in Nat
<1>4. PICK c \in Nat : b = a + c  BY <1>3
<1>5. a * r \in Int /\ c * r \in Nat /\ (a + c) * r = a * r + c * r  OBVIOUS
<1>6. a * r <= b * r /\ b * r \in Int
  <2>1. PICK y \in Int, z \in Nat : y = a * r /\ z = c * r /\ b * r = y + z
    BY <1>4, <1>5
  <2> QED  BY <2>1
<1> QED  BY <1>1, <1>5, <1>6 DEF Room

LEMMA RoomIsInt ==
  ASSUME ClockOK, NEW d \in Int
  PROVE  Room(d) \in Int
<1>1. d <= d  OBVIOUS
<1> QED  BY <1>1, RoomGrows

LEMMA FeasibleMeans ==
  ASSUME ClockOK, NEW q \in Seq(Job), NEW S \in SUBSET (1 .. Len(q))
  PROVE  Feasible(q, S) <=>
           \A i \in S : Weight(q, Due(q, S, q[i].deadline)) <= Room(q[i].deadline)
<1>1. ASSUME NEW i \in S
      PROVE  ~ Late(now, rate, WorkBy(q, S, q[i].deadline), q[i].deadline)
               <=> Weight(q, Due(q, S, q[i].deadline)) <= Room(q[i].deadline)
  <2>1. PICK d \in Int : d = q[i].deadline  BY JobFacts
  <2>2. WorkBy(q, S, d) = Weight(q, Due(q, S, d))  BY DEF WorkBy, Weight, Due
  <2>6. PICK U : U = Due(q, S, d)  OBVIOUS
  <2>7. Weight(q, U) \in Nat  BY WeightIsNat
  <2>3. PICK w \in Nat : w = Weight(q, Due(q, S, d))  BY <2>6, <2>7
  <2>4. PICK r \in Int : r = Room(d)  BY RoomIsInt
  <2>5. Late(now, rate, w, d) <=> w > r  BY <2>4 DEF Late, Room
  <2> QED  BY <2>1, <2>2, <2>3, <2>4, <2>5
<1> QED  BY <1>1 DEF Feasible

(* What is left of a feasible set is feasible.                             *)
LEMMA FeasibleSubset ==
  ASSUME ClockOK, NEW q \in Seq(Job), NEW S \in SUBSET (1 .. Len(q)),
         NEW T \in SUBSET S, Feasible(q, S)
  PROVE  Feasible(q, T)
<1>1. ASSUME NEW i \in T
      PROVE  Weight(q, Due(q, T, q[i].deadline)) <= Room(q[i].deadline)
  <2>1. PICK d \in Int : d = q[i].deadline  BY JobFacts
  <2>2. Due(q, T, d) \subseteq Due(q, S, d)  BY DEF Due
  <2>3. /\ Weight(q, Due(q, T, d)) \in Nat /\ Weight(q, Due(q, S, d)) \in Nat
        /\ Weight(q, Due(q, T, d)) <= Weight(q, Due(q, S, d))
    BY <2>2, WeightGrows
  <2>4. Weight(q, Due(q, S, d)) <= Room(d)  BY <2>1, FeasibleMeans
  <2>5. Room(d) \in Int  BY RoomIsInt
  <2> QED  BY <2>1, <2>3, <2>4, <2>5
<1>2. T \in SUBSET (1 .. Len(q))  OBVIOUS
<1> QED  BY <1>1, <1>2, FeasibleMeans

(* Exchanging a job for one that is not longer.                            *)
LEMMA Exchange ==
  ASSUME NEW q \in Seq(Job), NEW B \in SUBSET (1 .. Len(q)), NEW T \in SUBSET B,
         NEW v \in T, NEW u \in B \ T, q[u].service <= q[v].service
  PROVE  \E U \in SUBSET (B \ {v}) :
           Cardinality(U) = Cardinality(T) /\ Weight(q, U) <= Weight(q, T)
<1>1. PICK R : R = T \ {v}  OBVIOUS
<1>2. PICK U : U = R \cup {u}  OBVIOUS
<1>3. U \in SUBSET (B \ {v}) /\ u \notin R  BY <1>1, <1>2
<1>4. IsFiniteSet(T) /\ IsFiniteSet(R)
  <2>1. IsFiniteSet(1 .. Len(q))  BY JobFacts, FS_Interval
  <2>2. T \subseteq 1 .. Len(q) /\ R \subseteq 1 .. Len(q)  BY <1>1
  <2> QED  BY <2>1, <2>2, FS_Subset
<1>5. Cardinality(U) = Cardinality(T)
  <2>1. Cardinality(R) = Cardinality(T) - 1  BY <1>1, <1>4, FS_RemoveElement
  <2>2. Cardinality(U) = Cardinality(R) + 1  BY <1>2, <1>3, <1>4, FS_AddElement
  <2> QED  BY <1>4, <2>1, <2>2, FS_CardinalityType
<1>6. Weight(q, U) <= Weight(q, T)
  <2>1. u \in 1 .. Len(q) /\ v \in 1 .. Len(q)  OBVIOUS
  <2>2. Weight(q, U) = Weight(q, R) + q[u].service  BY <1>2, <1>3, <2>1, WeightAdds
  <2>3. Weight(q, T) = Weight(q, R) + q[v].service  BY <1>1, <2>1, WeightDrops
  <2>4. q[u].service \in Nat /\ q[v].service \in Nat  BY <2>1, JobFacts
  <2>5. Weight(q, R) \in Nat  BY WeightIsNat
  <2> QED  BY <2>2, <2>3, <2>4, <2>5
<1> QED  BY <1>3, <1>5, <1>6

(* A is the best choice from F: it is feasible, what it serves is done by  *)
(* d, and for any other choice it has one as large that takes no longer.   *)
AsGood(q, A, S) ==
  \E T \in SUBSET A : Cardinality(T) = Cardinality(S) /\ Weight(q, T) <= Weight(q, S)

Best(q, F, d, A) ==
  /\ A \in SUBSET F
  /\ Feasible(q, A)
  /\ A # {} => Weight(q, A) <= Room(d)
  /\ \A S \in SUBSET F : Feasible(q, S) => AsGood(q, A, S)

LEMMA BestOfNone ==
  ASSUME ClockOK, NEW q \in Seq(Job), NEW d
  PROVE  Best(q, {}, d, {})
<1>1. Feasible(q, {})  BY DEF Feasible
<1>2. ASSUME NEW S \in SUBSET {} PROVE AsGood(q, {}, S)
  <2>1. S = {} /\ Weight(q, {}) = 0  BY WeightEmpty
  <2> QED  BY <2>1 DEF AsGood
<1> QED  BY <1>1, <1>2 DEF Best

(* Everything seen so far is due by the deadline of the last one.          *)
LEMMA DueAll ==
  ASSUME ClockOK, NEW q \in Seq(Job), NEW S \in SUBSET (1 .. Len(q)), NEW x \in S,
         \A i \in S : q[i].deadline <= q[x].deadline, Feasible(q, S)
  PROVE  Weight(q, S) <= Room(q[x].deadline)
<1>1. Due(q, S, q[x].deadline) = S  BY DEF Due
<1> QED  BY <1>1, FeasibleMeans

(* A job added to two sets.                                                *)
LEMMA AddBoth ==
  ASSUME NEW q \in Seq(Job), NEW S \in SUBSET (1 .. Len(q)), NEW x \in S,
         NEW T \in SUBSET (1 .. Len(q)), x \notin T, NEW R, R = S \ {x},
         Cardinality(T) = Cardinality(R), Weight(q, T) <= Weight(q, R)
  PROVE  Cardinality(T \cup {x}) = Cardinality(S) /\ Weight(q, T \cup {x}) <= Weight(q, S)
<1>1. IsFiniteSet(S) /\ IsFiniteSet(T)
  <2>1. IsFiniteSet(1 .. Len(q))  BY JobFacts, FS_Interval
  <2> QED  BY <2>1, FS_Subset
<1>2. Cardinality(R) = Cardinality(S) - 1  BY <1>1, FS_RemoveElement
<1>3. Cardinality(T \cup {x}) = Cardinality(T) + 1  BY <1>1, FS_AddElement
<1>4. Cardinality(S) \in Nat  BY <1>1, FS_CardinalityType
<1>5. Weight(q, T \cup {x}) = Weight(q, T) + q[x].service  BY WeightAdds
<1>6. Weight(q, S) = Weight(q, R) + q[x].service  BY WeightDrops
<1>7. q[x].service \in Nat /\ Weight(q, T) \in Nat /\ Weight(q, R) \in Nat
  BY JobFacts, WeightIsNat
<1>8. Cardinality(T \cup {x}) = Cardinality(S)  BY <1>2, <1>3, <1>4
<1>9. Weight(q, T \cup {x}) <= Weight(q, S)  BY <1>5, <1>6, <1>7
<1> QED  BY <1>8, <1>9

(* The schedule is not late with x.                                        *)
LEMMA BestTakes ==
  ASSUME ClockOK, NEW q \in Seq(Job), NEW F \in SUBSET (1 .. Len(q)),
         NEW x \in 1 .. Len(q), x \notin F, NEW d, NEW A, Best(q, F, d, A),
         \A i \in F : q[i].deadline <= q[x].deadline,
         Weight(q, A \cup {x}) <= Room(q[x].deadline)
  PROVE  Best(q, F \cup {x}, q[x].deadline, A \cup {x})
<1>1. PICK e \in Int : e = q[x].deadline  BY JobFacts
<1>2. PICK B : B = A \cup {x}  OBVIOUS
<1>3. /\ A \in SUBSET F /\ B \in SUBSET (F \cup {x}) /\ B \in SUBSET (1 .. Len(q))
      /\ A \in SUBSET (1 .. Len(q)) /\ x \in B /\ x \notin A
  BY <1>2 DEF Best
<1>4. Weight(q, B) <= Room(e) /\ Weight(q, B) \in Nat /\ Room(e) \in Int
  <2>1. Room(e) \in Int  BY RoomIsInt
  <2>2. Weight(q, B) \in Nat  BY WeightIsNat
  <2> QED  BY <1>1, <1>2, <2>1, <2>2
<1>5. Feasible(q, B)
  <2>1. ASSUME NEW i \in B
        PROVE  Weight(q, Due(q, B, q[i].deadline)) <= Room(q[i].deadline)
    <3>1. PICK c \in Int : c = q[i].deadline  BY <1>3, JobFacts
    <3>2. c <= e  BY <1>1, <1>2, <1>3, <3>1
    <3>3. CASE c = e
      <4>1. Due(q, B, c) \subseteq B  BY DEF Due
      <4>2. /\ Weight(q, Due(q, B, c)) \in Nat
            /\ Weight(q, Due(q, B, c)) <= Weight(q, B)
        BY <4>1, WeightGrows
      <4> QED  BY <1>4, <3>1, <3>3, <4>2
    <3>4. CASE c # e
      <4>1. i \in A  BY <1>1, <1>2, <3>1, <3>4
      <4>2. Due(q, B, c) = Due(q, A, c)  BY <1>1, <1>2, <3>1, <3>2, <3>4 DEF Due
      <4>3. Weight(q, Due(q, A, c)) <= Room(c)
        BY <1>3, <3>1, <4>1, FeasibleMeans DEF Best
      <4> QED  BY <3>1, <4>2, <4>3
    <3> QED  BY <3>3, <3>4
  <2> QED  BY <1>3, <2>1, FeasibleMeans
<1>6. ASSUME NEW S \in SUBSET (F \cup {x}), Feasible(q, S) PROVE AsGood(q, B, S)
  <2>1. CASE x \notin S
    <3>1. S \in SUBSET F  BY <2>1
    <3>2. AsGood(q, A, S)  BY <1>6, <3>1 DEF Best
    <3> QED  BY <1>2, <3>2 DEF AsGood
  <2>2. CASE x \in S
    <3>1. PICK R : R = S \ {x}  OBVIOUS
    <3>2. R \in SUBSET F /\ R \in SUBSET S /\ S \in SUBSET (1 .. Len(q))  BY <3>1
    <3>3. Feasible(q, R)  BY <1>6, <3>2, FeasibleSubset
    <3>4. PICK T \in SUBSET A : Cardinality(T) = Cardinality(R) /\ Weight(q, T) <= Weight(q, R)
      BY <3>2, <3>3 DEF Best, AsGood
    <3>5. Cardinality(T \cup {x}) = Cardinality(S) /\ Weight(q, T \cup {x}) <= Weight(q, S)
      BY <1>3, <2>2, <3>1, <3>2, <3>4, AddBoth
    <3> QED  BY <1>2, <3>5 DEF AsGood
  <2> QED  BY <2>1, <2>2
<1> QED  BY <1>1, <1>2, <1>3, <1>4, <1>5, <1>6 DEF Best

(* The schedule is late with x, and the longest job is given up.           *)
LEMMA BestEvicts ==
  ASSUME ClockOK, NEW q \in Seq(Job), NEW F \in SUBSET (1 .. Len(q)),
         NEW x \in 1 .. Len(q), x \notin F, NEW d \in Int, NEW A, Best(q, F, d, A),
         A # {} => d <= q[x].deadline,
         \A i \in F : q[i].deadline <= q[x].deadline,
         Weight(q, A \cup {x}) > Room(q[x].deadline),
         NEW v \in A \cup {x}, \A i \in A \cup {x} : q[i].service <= q[v].service
  PROVE  Best(q, F \cup {x}, q[x].deadline, (A \cup {x}) \ {v})
<1>1. PICK e \in Int : e = q[x].deadline  BY JobFacts
<1>2. PICK B : B = A \cup {x}  OBVIOUS
<1>3. PICK C : C = B \ {v}  OBVIOUS
<1>4. /\ A \in SUBSET F /\ B \in SUBSET (F \cup {x}) /\ B \in SUBSET (1 .. Len(q))
      /\ A \in SUBSET (1 .. Len(q)) /\ C \in SUBSET (1 .. Len(q))
      /\ C \in SUBSET (F \cup {x}) /\ x \in B /\ x \notin A /\ v \in B
  BY <1>2, <1>3 DEF Best
<1>5. Weight(q, B) > Room(e)  BY <1>1, <1>2
<1>6. C # {} => Weight(q, C) <= Room(e)
  <2> SUFFICES ASSUME C # {} PROVE Weight(q, C) <= Room(e)  OBVIOUS
  <2>1. A # {}  BY <1>2, <1>3, <1>4
  <2>2. Room(d) \in Int /\ Room(e) \in Int /\ Room(d) <= Room(e)
    BY <1>1, <2>1, RoomGrows
  <2>3. Weight(q, A) <= Room(d)  BY <2>1 DEF Best
  <2>4. Weight(q, B) = Weight(q, A) + q[x].service  BY <1>2, <1>4, WeightAdds
  <2>5. Weight(q, B) = Weight(q, C) + q[v].service  BY <1>3, <1>4, WeightDrops
  <2>6. /\ q[x].service \in Nat /\ q[v].service \in Nat
        /\ q[x].service <= q[v].service
    BY <1>2, <1>4, JobFacts
  <2>7. Weight(q, A) \in Nat /\ Weight(q, C) \in Nat
    BY WeightIsNat
  <2> QED  BY <2>2, <2>3, <2>4, <2>5, <2>6, <2>7, SMTT(30)
<1>7. Feasible(q, C)
  <2>1. ASSUME NEW i \in C
        PROVE  Weight(q, Due(q, C, q[i].deadline)) <= Room(q[i].deadline)
    <3>1. PICK c \in Int : c = q[i].deadline  BY <1>4, JobFacts
    <3>2. c <= e  BY <1>1, <1>2, <1>3, <1>4, <3>1
    <3>3. Room(c) \in Int  BY RoomIsInt
    <3>4. CASE c = e
      <4>1. Due(q, C, c) \subseteq C  BY DEF Due
      <4>2. /\ Weight(q, Due(q, C, c)) \in Nat /\ Weight(q, C) \in Nat
            /\ Weight(q, Due(q, C, c)) <= Weight(q, C)
        BY <4>1, WeightGrows
      <4>3. Weight(q, C) <= Room(c)  BY <1>6, <3>4
      <4>4. Weight(q, Due(q, C, c)) <= Room(c)  BY <3>3, <4>2, <4>3
      <4> QED  BY <3>1, <4>4
    <3>5. CASE c # e
      <4>1. i \in A  BY <1>1, <1>2, <1>3, <3>1, <3>5
      <4>2. Due(q, C, c) \subseteq Due(q, A, c)
        BY <1>1, <1>2, <1>3, <3>1, <3>2, <3>5 DEF Due
      <4>3. Weight(q, Due(q, A, c)) <= Room(c)
        BY <1>4, <3>1, <4>1, FeasibleMeans DEF Best
      <4>4. /\ Weight(q, Due(q, C, c)) \in Nat /\ Weight(q, Due(q, A, c)) \in Nat
            /\ Weight(q, Due(q, C, c)) <= Weight(q, Due(q, A, c))
        BY <4>2, WeightGrows
      <4>5. Weight(q, Due(q, C, c)) <= Room(c)  BY <3>3, <4>3, <4>4
      <4> QED  BY <3>1, <4>5
    <3> QED  BY <3>4, <3>5
  <2> QED  BY <1>4, <2>1, FeasibleMeans
<1>8. ASSUME NEW S \in SUBSET (F \cup {x}), NEW T \in SUBSET B, NEW u \in B \ T,
             Cardinality(T) = Cardinality(S), Weight(q, T) <= Weight(q, S)
      PROVE  AsGood(q, C, S)
  <2>1. CASE v \notin T
    <3>1. T \in SUBSET C  BY <1>3, <2>1
    <3> QED  BY <1>8, <3>1 DEF AsGood
  <2>2. CASE v \in T
    <3>1. q[u].service <= q[v].service  BY <1>2
    <3>2. PICK U \in SUBSET (B \ {v}) :
            Cardinality(U) = Cardinality(T) /\ Weight(q, U) <= Weight(q, T)
      BY <1>4, <2>2, <3>1, Exchange
    <3>3. Weight(q, U) \in Nat /\ Weight(q, T) \in Nat /\ Weight(q, S) \in Nat
      BY WeightIsNat
    <3>4. Weight(q, U) <= Weight(q, S)  BY <1>8, <3>2, <3>3
    <3>5. U \in SUBSET C  BY <1>3
    <3> QED  BY <1>8, <3>2, <3>4, <3>5 DEF AsGood
  <2> QED  BY <2>1, <2>2
<1>9. ASSUME NEW S \in SUBSET (F \cup {x}), Feasible(q, S) PROVE AsGood(q, C, S)
  <2>1. CASE x \notin S
    <3>1. S \in SUBSET F  BY <2>1
    <3>2. PICK T \in SUBSET A : Cardinality(T) = Cardinality(S) /\ Weight(q, T) <= Weight(q, S)
      BY <1>9, <3>1 DEF Best, AsGood
    <3>3. T \in SUBSET B /\ x \in B \ T  BY <1>2, <1>4
    <3> QED  BY <1>8, <3>2, <3>3
  <2>2. CASE x \in S
    <3>1. PICK R : R = S \ {x}  OBVIOUS
    <3>2. R \in SUBSET F /\ R \in SUBSET S /\ S \in SUBSET (1 .. Len(q))  BY <3>1
    <3>3. Feasible(q, R)  BY <1>9, <3>2, FeasibleSubset
    <3>4. PICK T \in SUBSET A : Cardinality(T) = Cardinality(R) /\ Weight(q, T) <= Weight(q, R)
      BY <3>2, <3>3 DEF Best, AsGood
    <3>5. PICK U : U = T \cup {x}  OBVIOUS
    <3>6. Cardinality(U) = Cardinality(S) /\ Weight(q, U) <= Weight(q, S)
      BY <1>4, <2>2, <3>1, <3>2, <3>4, <3>5, AddBoth, SMTT(30)
    <3>7. U \in SUBSET B  BY <1>2, <3>5
    <3>8. U # B
      <4>1. \A i \in S : q[i].deadline <= e  BY <1>1
      <4>2. Weight(q, S) <= Room(e)  BY <1>1, <1>9, <2>2, <3>2, <4>1, DueAll
      <4>3. /\ Weight(q, S) \in Nat /\ Weight(q, B) \in Nat /\ Weight(q, U) \in Nat
            /\ Room(e) \in Int
        BY WeightIsNat, RoomIsInt
      <4> QED  BY <1>5, <3>6, <4>2, <4>3
    <3>9. PICK u : u \in B \ U  BY <3>7, <3>8
    <3> QED  BY <1>8, <3>6, <3>7, <3>9
  <2> QED  BY <2>1, <2>2
<1>10. C = (A \cup {x}) \ {v}  BY <1>2, <1>3
<1>11. Best(q, F \cup {x}, e, C)  BY <1>4, <1>6, <1>7, <1>9 DEF Best
<1> QED  BY <1>1, <1>10, <1>11

-------------------------------------------------------------------------------
(* What SortJobs returns: every job once, in the order asked for.          *)
Places(p, n) ==
  /\ p \in [1 .. n -> 1 .. n]
  /\ \A i, j \in 1 .. n : i # j => p[i] # p[j]
  /\ \A x \in 1 .. n : \E i \in 1 .. n : p[i] = x

LEMMA OrderPlaces ==
  ASSUME NEW n \in Nat, NEW R, StrictOrder(R, 1 .. n)
  PROVE  /\ \E p : Places(p, n) /\ \A i, j \in 1 .. n : i < j => <<p[i], p[j]>> \in R
         /\ \A p \in [1 .. n -> 1 .. n] :
              (\A i, j \in 1 .. n : i < j => <<p[i], p[j]>> \in R) => Places(p, n)
<1>1. PICK S : S = 1 .. n  OBVIOUS
<1>2. IsFiniteSet(S) /\ Cardinality(S) = n /\ StrictOrder(R, S)  BY <1>1, FS_Interval
<1>3. ASSUME NEW p, Arranged(p, S, R) PROVE Places(p, n)
  <2>1. p \in [1 .. n -> S]  BY <1>2, <1>3 DEF Arranged
  <2>2. /\ \A i, j \in 1 .. n : i # j => p[i] # p[j]
        /\ \A x \in S : \E i \in 1 .. n : p[i] = x
    BY <1>2, <1>3, ArrangementBijects
  <2> QED  BY <1>1, <2>1, <2>2 DEF Places
<1>4. PICK p : Arranged(p, S, R)  BY <1>2, ArrangementExists
<1>5. \A i, j \in 1 .. n : i < j => <<p[i], p[j]>> \in R  BY <1>2, <1>4 DEF Arranged
<1>6. ASSUME NEW t \in [1 .. n -> 1 .. n],
             \A i, j \in 1 .. n : i < j => <<t[i], t[j]>> \in R
      PROVE  Places(t, n)
  <2>1. Arranged(t, S, R)  BY <1>1, <1>2, <1>6 DEF Arranged
  <2> QED  BY <1>3, <2>1
<1> QED  BY <1>3, <1>4, <1>5, <1>6

ArrivalOrder(q) ==
  {w \in (1 .. Len(q)) \X (1 .. Len(q)) : ByArrival(q[w[1]], q[w[2]])}
DeadlineOrder(q) ==
  {w \in (1 .. Len(q)) \X (1 .. Len(q)) : ByDeadline(q[w[1]], q[w[2]])}

LEMMA ArrivalStrict ==
  ASSUME NEW q, JobsOK(q)
  PROVE  StrictOrder(ArrivalOrder(q), 1 .. Len(q))
<1>1. \A i \in 1 .. Len(q) : q[i].id \in Nat /\ q[i].arrival \in Int
  BY JobFacts DEF JobsOK
<1>2. \A i, j \in 1 .. Len(q) : q[i].id = q[j].id => i = j  BY DEF JobsOK
<1>3. \A i, j \in 1 .. Len(q) : <<i, j>> \in ArrivalOrder(q) <=> ByArrival(q[i], q[j])
  BY DEF ArrivalOrder
<1>4. \A i \in 1 .. Len(q) : ~ ByArrival(q[i], q[i])  BY <1>1 DEF ByArrival
<1>5. \A i, j \in 1 .. Len(q) : i # j => ByArrival(q[i], q[j]) \/ ByArrival(q[j], q[i])
  BY <1>1, <1>2 DEF ByArrival
<1>6. \A i, j, k \in 1 .. Len(q) :
        ByArrival(q[i], q[j]) /\ ByArrival(q[j], q[k]) => ByArrival(q[i], q[k])
  BY <1>1 DEF ByArrival
<1> QED  BY <1>3, <1>4, <1>5, <1>6 DEF StrictOrder

LEMMA DeadlineStrict ==
  ASSUME NEW q, JobsOK(q)
  PROVE  StrictOrder(DeadlineOrder(q), 1 .. Len(q))
<1>1. \A i \in 1 .. Len(q) : q[i].id \in Nat /\ q[i].deadline \in Int
  BY JobFacts DEF JobsOK
<1>2. \A i, j \in 1 .. Len(q) : q[i].id = q[j].id => i = j  BY DEF JobsOK
<1>3. \A i, j \in 1 .. Len(q) : <<i, j>> \in DeadlineOrder(q) <=> ByDeadline(q[i], q[j])
  BY DEF DeadlineOrder
<1>4. \A i \in 1 .. Len(q) : ~ ByDeadline(q[i], q[i])  BY <1>1 DEF ByDeadline
<1>5. \A i, j \in 1 .. Len(q) : i # j => ByDeadline(q[i], q[j]) \/ ByDeadline(q[j], q[i])
  BY <1>1, <1>2 DEF ByDeadline
<1>6. \A i, j, k \in 1 .. Len(q) :
        ByDeadline(q[i], q[j]) /\ ByDeadline(q[j], q[k]) => ByDeadline(q[i], q[k])
  BY <1>1 DEF ByDeadline
<1> QED  BY <1>3, <1>4, <1>5, <1>6 DEF StrictOrder

LEMMA SortedByDeadline ==
  ASSUME NEW q, JobsOK(q), NEW n \in Nat, n = Len(q)
  PROVE  \E p : /\ Places(p, n)
                /\ SortJobs(q, ByDeadline) = [i \in 1 .. n |-> q[p[i]]]
                /\ \A i, j \in 1 .. n : i < j => ByDeadline(q[p[i]], q[p[j]])
<1> DEFINE Q(t) == \A i, j \in 1 .. n : i < j => ByDeadline(q[t[i]], q[t[j]])
           p == CHOOSE t \in [1 .. n -> 1 .. n] : Q(t)
<1>1. DOMAIN q = 1 .. n  BY JobFacts DEF JobsOK
<1>2. PICK R : R = DeadlineOrder(q)  OBVIOUS
<1>3. StrictOrder(R, 1 .. n)  BY <1>2, DeadlineStrict
<1>4. \A i, j \in 1 .. n : <<i, j>> \in R <=> ByDeadline(q[i], q[j])
  BY <1>2 DEF DeadlineOrder
<1>5. \A t \in [1 .. n -> 1 .. n] :
        Q(t) <=> \A i, j \in 1 .. n : i < j => <<t[i], t[j]>> \in R
  BY <1>4
<1>6. PICK t : Places(t, n) /\ \A i, j \in 1 .. n : i < j => <<t[i], t[j]>> \in R
  BY <1>3, OrderPlaces
<1>7. t \in [1 .. n -> 1 .. n] /\ Q(t)  BY <1>5, <1>6 DEF Places
<1>8. SortJobs(q, ByDeadline) = [i \in 1 .. n |-> q[p[i]]]  BY <1>1 DEF SortJobs
<1> HIDE DEF Q
<1>9. p \in [1 .. n -> 1 .. n] /\ Q(p)  BY <1>7
<1> HIDE DEF p
<1>10. \A i, j \in 1 .. n : i < j => <<p[i], p[j]>> \in R  BY <1>5, <1>9
<1>11. Places(p, n)  BY <1>3, <1>9, <1>10, OrderPlaces
<1> QED  BY <1>8, <1>9, <1>11 DEF Q

LEMMA SortedByArrival ==
  ASSUME NEW q, JobsOK(q), NEW n \in Nat, n = Len(q)
  PROVE  \E p : /\ Places(p, n)
                /\ SortJobs(q, ByArrival) = [i \in 1 .. n |-> q[p[i]]]
<1> DEFINE Q(t) == \A i, j \in 1 .. n : i < j => ByArrival(q[t[i]], q[t[j]])
           p == CHOOSE t \in [1 .. n -> 1 .. n] : Q(t)
<1>1. DOMAIN q = 1 .. n  BY JobFacts DEF JobsOK
<1>2. PICK R : R = ArrivalOrder(q)  OBVIOUS
<1>3. StrictOrder(R, 1 .. n)  BY <1>2, ArrivalStrict
<1>4. \A i, j \in 1 .. n : <<i, j>> \in R <=> ByArrival(q[i], q[j])
  BY <1>2 DEF ArrivalOrder
<1>5. \A t \in [1 .. n -> 1 .. n] :
        Q(t) <=> \A i, j \in 1 .. n : i < j => <<t[i], t[j]>> \in R
  BY <1>4
<1>6. PICK t : Places(t, n) /\ \A i, j \in 1 .. n : i < j => <<t[i], t[j]>> \in R
  BY <1>3, OrderPlaces
<1>7. t \in [1 .. n -> 1 .. n] /\ Q(t)  BY <1>5, <1>6 DEF Places
<1>8. SortJobs(q, ByArrival) = [i \in 1 .. n |-> q[p[i]]]  BY <1>1 DEF SortJobs
<1> HIDE DEF Q
<1>9. p \in [1 .. n -> 1 .. n] /\ Q(p)  BY <1>7
<1> HIDE DEF p
<1>10. \A i, j \in 1 .. n : i < j => <<p[i], p[j]>> \in R  BY <1>5, <1>9
<1>11. Places(p, n)  BY <1>3, <1>9, <1>10, OrderPlaces
<1> QED  BY <1>8, <1>11

(* The victim is one of the longest.                                       *)
LEMMA VictimLongest ==
  ASSUME NEW s, JobsOK(s), s # <<>>
  PROVE  /\ Victim(s) \in 1 .. Len(s)
         /\ \A i \in 1 .. Len(s) : s[i].service <= s[Victim(s)].service
<1>1. PICK n \in Nat : n = Len(s) /\ DOMAIN s = 1 .. n  BY JobFacts DEF JobsOK
<1>2. n >= 1  BY <1>1 DEF JobsOK
<1>3. \A i \in 1 .. n : s[i].id \in Nat /\ s[i].deadline \in Int /\ s[i].service \in Nat
  BY <1>1, JobFacts DEF JobsOK
<1>4. \A i, j \in 1 .. n : s[i].id = s[j].id => i = j  BY <1>1 DEF JobsOK
<1>5. PICK R : R = {w \in (1 .. n) \X (1 .. n) : Longer(s[w[1]], s[w[2]])}  OBVIOUS
<1>6. \A i, j \in 1 .. n : <<i, j>> \in R <=> Longer(s[i], s[j])  BY <1>5
<1>7. StrictOrder(R, 1 .. n)
  <2>1. \A i \in 1 .. n : ~ Longer(s[i], s[i])  BY <1>3 DEF Longer, ByDeadline
  <2>2. \A i, j \in 1 .. n : i # j => Longer(s[i], s[j]) \/ Longer(s[j], s[i])
    BY <1>3, <1>4 DEF Longer, ByDeadline
  <2>3. \A i, j, k \in 1 .. n :
          Longer(s[i], s[j]) /\ Longer(s[j], s[k]) => Longer(s[i], s[k])
    BY <1>3, SMTT(30) DEF Longer, ByDeadline
  <2> QED  BY <1>6, <2>1, <2>2, <2>3 DEF StrictOrder
<1>8. PICK p : Places(p, n) /\ \A i, j \in 1 .. n : i < j => <<p[i], p[j]>> \in R
  BY <1>7, OrderPlaces
<1>9. p[1] \in 1 .. n /\ \A i \in (1 .. n) \ {p[1]} : Longer(s[p[1]], s[i])
  <2>1. 1 \in 1 .. n /\ p[1] \in 1 .. n  BY <1>2, <1>8 DEF Places
  <2>2. ASSUME NEW i \in (1 .. n) \ {p[1]} PROVE Longer(s[p[1]], s[i])
    <3>1. PICK j \in 1 .. n : p[j] = i  BY <1>8 DEF Places
    <3>2. 1 < j  BY <2>1, <3>1
    <3>3. <<p[1], p[j]>> \in R  BY <1>8, <2>1, <3>2
    <3> QED  BY <1>6, <2>1, <3>1, <3>3
  <2> QED  BY <2>1, <2>2
<1>10. PICK v : v = Victim(s)  OBVIOUS
<1>11. v \in 1 .. n /\ \A i \in (1 .. n) \ {v} : Longer(s[v], s[i])
  BY <1>1, <1>9, <1>10 DEF Victim
<1>12. ASSUME NEW i \in 1 .. n PROVE s[i].service <= s[v].service
  <2>1. CASE i = v  BY <1>3, <2>1
  <2>2. CASE i # v
    <3>1. Longer(s[v], s[i])  BY <1>11, <2>2
    <3> QED  BY <1>3, <1>11, <3>1 DEF Longer
  <2> QED  BY <2>1, <2>2
<1> QED  BY <1>1, <1>10, <1>11, <1>12

(* s lists the jobs of q with an index in A, each once.                    *)
Lists(s, q, A) ==
  /\ JobsOK(s) /\ Len(s) = Cardinality(A)
  /\ \A m \in 1 .. Len(s) : \E i \in A : s[m] = q[i]
  /\ \A i \in A : \E m \in 1 .. Len(s) : s[m] = q[i]

LEMMA AppendJob ==
  ASSUME NEW s \in Seq(Job), NEW x \in Job
  PROVE  /\ Append(s, x) \in Seq(Job) /\ Len(Append(s, x)) = Len(s) + 1
         /\ Append(s, x)[Len(s) + 1] = x
         /\ \A m \in 1 .. Len(s) : Append(s, x)[m] = s[m]
OBVIOUS

LEMMA RemoveAtFacts ==
  ASSUME NEW s \in Seq(Job), NEW v \in 1 .. Len(s)
  PROVE  /\ RemoveAt(s, v) \in Seq(Job) /\ Len(RemoveAt(s, v)) = Len(s) - 1
         /\ \A m \in 1 .. Len(s) - 1 :
              RemoveAt(s, v)[m] = s[IF m < v THEN m ELSE m + 1]
<1>1. PICK a, b : a = SubSeq(s, 1, v - 1) /\ b = SubSeq(s, v + 1, Len(s))  OBVIOUS
<1>2. PICK n \in Nat : n = Len(s)  OBVIOUS
<1>3. a \in Seq(Job) /\ Len(a) = v - 1 /\ \A m \in 1 .. v - 1 : a[m] = s[m]
  BY <1>1, <1>2
<1>4. b \in Seq(Job) /\ Len(b) = n - v /\ \A m \in 1 .. n - v : b[m] = s[v + m]
  BY <1>1, <1>2
<1>5. RemoveAt(s, v) = a \o b  BY <1>1 DEF RemoveAt
<1>6. /\ a \o b \in Seq(Job) /\ Len(a \o b) = n - 1
      /\ \A m \in 1 .. n - 1 : (a \o b)[m] = IF m <= v - 1 THEN a[m] ELSE b[m - (v - 1)]
  <2>1. Len(a) + Len(b) = n - 1  BY <1>2, <1>3, <1>4
  <2>2. /\ a \o b \in Seq(Job) /\ Len(a \o b) = Len(a) + Len(b)
        /\ \A m \in 1 .. Len(a) + Len(b) :
             (a \o b)[m] = IF m <= Len(a) THEN a[m] ELSE b[m - Len(a)]
    BY <1>3, <1>4, ConcatProperties
  <2> QED  BY <1>3, <2>1, <2>2
<1>7. ASSUME NEW m \in 1 .. n - 1 PROVE (a \o b)[m] = s[IF m < v THEN m ELSE m + 1]
  <2>1. CASE m < v  BY <1>2, <1>3, <1>6, <2>1
  <2>2. CASE ~ (m < v)
    <3>1. m - (v - 1) \in 1 .. n - v /\ v + (m - (v - 1)) = m + 1  BY <1>2, <2>2
    <3>2. b[m - (v - 1)] = s[m + 1]  BY <1>4, <3>1
    <3> QED  BY <1>2, <1>6, <2>2, <3>2
  <2> QED  BY <2>1, <2>2
<1> QED  BY <1>2, <1>5, <1>6, <1>7

LEMMA IndexFinite ==
  ASSUME NEW q \in Seq(Job), NEW A \in SUBSET (1 .. Len(q))
  PROVE  IsFiniteSet(A) /\ Cardinality(A) \in Nat
<1>1. IsFiniteSet(1 .. Len(q))  BY JobFacts, FS_Interval
<1> QED  BY <1>1, FS_Subset, FS_CardinalityType

LEMMA ListsAppend ==
  ASSUME NEW q, JobsOK(q), NEW A \in SUBSET (1 .. Len(q)), NEW s, Lists(s, q, A),
         NEW x \in (1 .. Len(q)) \ A
  PROVE  Lists(Append(s, q[x]), q, A \cup {x})
<1>1. PICK t : t = Append(s, q[x])  OBVIOUS
<1>2. PICK n \in Nat : n = Len(s)  BY JobFacts DEF Lists, JobsOK
<1>3. s \in Seq(Job) /\ q[x] \in Job /\ q \in Seq(Job)  BY JobFacts DEF Lists, JobsOK
<1>4. /\ t \in Seq(Job) /\ Len(t) = n + 1 /\ t[n + 1] = q[x]
      /\ \A m \in 1 .. n : t[m] = s[m]
  BY <1>1, <1>2, <1>3, AppendJob
<1>5. \A m \in 1 .. n : \E i \in A : s[m] = q[i]  BY <1>2 DEF Lists
<1>6. \A i \in A : \E m \in 1 .. n : s[m] = q[i]  BY <1>2 DEF Lists
<1>7. \A m \in 1 .. n : s[m].id # q[x].id
  <2> SUFFICES ASSUME NEW m \in 1 .. n PROVE s[m].id # q[x].id  OBVIOUS
  <2>1. PICK i \in A : s[m] = q[i]  BY <1>5
  <2>2. i # x  OBVIOUS
  <2>3. q[i].id # q[x].id  BY <2>2 DEF JobsOK
  <2> QED  BY <2>1, <2>3
<1>8. \A l, m \in 1 .. n : s[l].id = s[m].id => l = m  BY <1>2 DEF Lists, JobsOK
<1>9. \A l, m \in 1 .. n + 1 : t[l].id = t[m].id => l = m
  <2> SUFFICES ASSUME NEW l \in 1 .. n + 1, NEW m \in 1 .. n + 1, t[l].id = t[m].id
               PROVE  l = m
    OBVIOUS
  <2>1. (l \in 1 .. n \/ l = n + 1) /\ (m \in 1 .. n \/ m = n + 1)  OBVIOUS
  <2>2. CASE l \in 1 .. n /\ m \in 1 .. n  BY <1>4, <1>8, <2>2
  <2>3. CASE l = n + 1 /\ m \in 1 .. n  BY <1>4, <1>7, <2>3
  <2>4. CASE m = n + 1 /\ l \in 1 .. n  BY <1>4, <1>7, <2>4
  <2> QED  BY <2>1, <2>2, <2>3, <2>4
<1>10. Len(t) = Cardinality(A \cup {x})
  <2>1. IsFiniteSet(A) /\ Cardinality(A) = n  BY <1>2, <1>3, IndexFinite DEF Lists
  <2>2. Cardinality(A \cup {x}) = Cardinality(A) + 1  BY <2>1, FS_AddElement
  <2> QED  BY <1>4, <2>1, <2>2
<1>11. ASSUME NEW m \in 1 .. n + 1 PROVE \E i \in A \cup {x} : t[m] = q[i]
  <2>1. m \in 1 .. n \/ m = n + 1  OBVIOUS
  <2> QED  BY <1>4, <1>5, <2>1
<1>12. ASSUME NEW i \in A \cup {x} PROVE \E m \in 1 .. n + 1 : t[m] = q[i]
  <2>1. CASE i = x  BY <1>4, <2>1, n + 1 \in 1 .. n + 1
  <2>2. CASE i # x
    <3>1. PICK m \in 1 .. n : s[m] = q[i]  BY <1>6, <2>2
    <3>2. m \in 1 .. n + 1 /\ t[m] = q[i]  BY <1>4, <3>1
    <3> QED  BY <3>2
  <2> QED  BY <2>1, <2>2
<1>13. JobsOK(t)  BY <1>4, <1>9 DEF JobsOK
<1>14. Lists(t, q, A \cup {x})  BY <1>4, <1>10, <1>11, <1>12, <1>13 DEF Lists
<1> QED  BY <1>1, <1>14

LEMMA ListsRemove ==
  ASSUME NEW q, JobsOK(q), NEW B \in SUBSET (1 .. Len(q)), NEW s, Lists(s, q, B),
         NEW v \in 1 .. Len(s), NEW x \in B, s[v] = q[x]
  PROVE  Lists(RemoveAt(s, v), q, B \ {x})
<1>1. PICK t : t = RemoveAt(s, v)  OBVIOUS
<1>2. PICK n \in Nat : n = Len(s)  BY JobFacts DEF Lists, JobsOK
<1>3. s \in Seq(Job) /\ q \in Seq(Job)  BY DEF Lists, JobsOK
<1> DEFINE at(m) == IF m < v THEN m ELSE m + 1
<1>4. /\ t \in Seq(Job) /\ Len(t) = n - 1
      /\ \A m \in 1 .. n - 1 : t[m] = s[at(m)]
  BY <1>1, <1>2, <1>3, RemoveAtFacts
<1>5. \A m \in 1 .. n - 1 : at(m) \in 1 .. n /\ at(m) # v  BY <1>2
<1>6. \A l, m \in 1 .. n - 1 : at(l) = at(m) => l = m  BY <1>2
<1>7. \A k \in 1 .. n : k # v => \E m \in 1 .. n - 1 : at(m) = k
  <2> SUFFICES ASSUME NEW k \in 1 .. n, k # v PROVE \E m \in 1 .. n - 1 : at(m) = k
    OBVIOUS
  <2>1. CASE k < v
    <3>1. k \in 1 .. n - 1 /\ at(k) = k  BY <1>2, <2>1
    <3> QED  BY <3>1
  <2>2. CASE k > v
    <3>1. k - 1 \in 1 .. n - 1 /\ at(k - 1) = k  BY <1>2, <2>2
    <3> QED  BY <3>1
  <2> QED  BY <1>2, <2>1, <2>2
<1> HIDE DEF at
<1>8. \A l, m \in 1 .. n : s[l].id = s[m].id => l = m  BY <1>2 DEF Lists, JobsOK
<1>9. \A l, m \in 1 .. n - 1 : t[l].id = t[m].id => l = m
  <2> SUFFICES ASSUME NEW l \in 1 .. n - 1, NEW m \in 1 .. n - 1, t[l].id = t[m].id
               PROVE  l = m
    OBVIOUS
  <2>1. PICK a, b : a = at(l) /\ b = at(m)  OBVIOUS
  <2>2. a \in 1 .. n /\ b \in 1 .. n /\ t[l] = s[a] /\ t[m] = s[b]
    BY <1>4, <1>5, <2>1
  <2>3. a = b  BY <1>8, <2>2
  <2> QED  BY <1>6, <2>1, <2>3
<1>10. Len(t) = Cardinality(B \ {x})
  <2>1. IsFiniteSet(B) /\ Cardinality(B) = n  BY <1>2, <1>3, IndexFinite DEF Lists
  <2>2. Cardinality(B \ {x}) = Cardinality(B) - 1  BY <2>1, FS_RemoveElement
  <2> QED  BY <1>4, <2>1, <2>2
<1>11. ASSUME NEW m \in 1 .. n - 1 PROVE \E i \in B \ {x} : t[m] = q[i]
  <2>1. at(m) \in 1 .. n /\ at(m) # v /\ v \in 1 .. n /\ t[m] = s[at(m)]
    BY <1>2, <1>4, <1>5
  <2>2. PICK i \in B : s[at(m)] = q[i]  BY <1>2, <2>1 DEF Lists
  <2>3. i # x  BY <1>8, <2>1, <2>2
  <2> QED  BY <2>1, <2>2, <2>3
<1>12. ASSUME NEW i \in B \ {x} PROVE \E m \in 1 .. n - 1 : t[m] = q[i]
  <2>1. PICK k \in 1 .. n : s[k] = q[i]  BY <1>2 DEF Lists
  <2>2. i \in 1 .. Len(q) /\ x \in 1 .. Len(q) /\ i # x  OBVIOUS
  <2>3. q[i].id # q[x].id  BY <2>2 DEF JobsOK
  <2>4. k # v  BY <2>1, <2>3
  <2>5. PICK m \in 1 .. n - 1 : at(m) = k  BY <1>7, <2>4
  <2> QED  BY <1>4, <2>1, <2>5
<1>13. JobsOK(t)  BY <1>4, <1>9 DEF JobsOK
<1>14. Lists(t, q, B \ {x})  BY <1>4, <1>10, <1>11, <1>12, <1>13 DEF Lists
<1> QED  BY <1>1, <1>14

-------------------------------------------------------------------------------
(* moore_hodgson(), after the jobs of F: those accepted are the best       *)
(* choice, in deadline order, and the others are demoted.                  *)
WalkState == [accepted : Seq(Job), demoted : Seq(Job), clock : Nat]

InDeadlineOrder(s) ==
  \A l, m \in 1 .. Len(s) : l < m => ByDeadline(s[l], s[m])

Walked(acc, q, F, d, A) ==
  /\ acc \in WalkState
  /\ Lists(acc.accepted, q, A) /\ InDeadlineOrder(acc.accepted)
  /\ Lists(acc.demoted, q, F \ A)
  /\ acc.clock = Weight(q, A)
  /\ Best(q, F, d, A)

LEMMA OrderedRemove ==
  ASSUME NEW s \in Seq(Job), InDeadlineOrder(s), NEW v \in 1 .. Len(s)
  PROVE  InDeadlineOrder(RemoveAt(s, v))
<1>1. PICK t : t = RemoveAt(s, v)  OBVIOUS
<1>2. PICK n \in Nat : n = Len(s)  OBVIOUS
<1> DEFINE at(m) == IF m < v THEN m ELSE m + 1
<1>3. Len(t) = n - 1 /\ \A m \in 1 .. n - 1 : t[m] = s[at(m)]
  BY <1>1, <1>2, RemoveAtFacts
<1>4. \A l, m \in 1 .. n - 1 : l < m => at(l) < at(m) /\ at(l) \in 1 .. n /\ at(m) \in 1 .. n
  BY <1>2
<1> HIDE DEF at
<1>5. ASSUME NEW l \in 1 .. n - 1, NEW m \in 1 .. n - 1, l < m
      PROVE  ByDeadline(t[l], t[m])
  <2>1. PICK a, b : a = at(l) /\ b = at(m)  OBVIOUS
  <2>2. a \in 1 .. n /\ b \in 1 .. n /\ a < b /\ t[l] = s[a] /\ t[m] = s[b]
    BY <1>3, <1>4, <1>5, <2>1
  <2>3. ByDeadline(s[a], s[b])  BY <1>2, <2>2 DEF InDeadlineOrder
  <2> QED  BY <2>2, <2>3
<1>6. InDeadlineOrder(t)  BY <1>3, <1>5 DEF InDeadlineOrder
<1> QED  BY <1>1, <1>6

LEMMA OrderedAppend ==
  ASSUME NEW s \in Seq(Job), InDeadlineOrder(s), NEW x \in Job,
         \A m \in 1 .. Len(s) : ByDeadline(s[m], x)
  PROVE  InDeadlineOrder(Append(s, x))
<1>1. PICK t : t = Append(s, x)  OBVIOUS
<1>2. PICK n \in Nat : n = Len(s)  OBVIOUS
<1>3. Len(t) = n + 1 /\ t[n + 1] = x /\ \A m \in 1 .. n : t[m] = s[m]
  BY <1>1, <1>2, AppendJob
<1>4. ASSUME NEW l \in 1 .. n + 1, NEW m \in 1 .. n + 1, l < m
      PROVE  ByDeadline(t[l], t[m])
  <2>1. l \in 1 .. n  BY <1>4
  <2>2. CASE m = n + 1  BY <1>2, <1>3, <2>1, <2>2
  <2>3. CASE m # n + 1
    <3>1. m \in 1 .. n  BY <2>3
    <3> QED  BY <1>2, <1>3, <1>4, <2>1, <3>1 DEF InDeadlineOrder
  <2> QED  BY <2>2, <2>3
<1>5. InDeadlineOrder(t)  BY <1>3, <1>4 DEF InDeadlineOrder
<1> QED  BY <1>1, <1>5

LEMMA WalkStep ==
  ASSUME ClockOK, NEW q, JobsOK(q), NEW F \in SUBSET (1 .. Len(q)),
         NEW x \in (1 .. Len(q)) \ F, \A i \in F : ByDeadline(q[i], q[x]),
         NEW d \in Int, F # {} => d <= q[x].deadline,
         NEW A, NEW acc, Walked(acc, q, F, d, A)
  PROVE  \E C : Walked(Accept(now, rate, acc, q[x]), q, F \cup {x}, q[x].deadline, C)
<1>1. PICK job \in Job : job = q[x]  BY JobFacts DEF JobsOK
<1>2. PICK B : B = A \cup {x}  OBVIOUS
<1>3. PICK s : s = Append(acc.accepted, job)  OBVIOUS
<1>4. PICK e : e = Accept(now, rate, acc, job)  OBVIOUS
<1>5. /\ q \in Seq(Job) /\ A \in SUBSET F /\ A \in SUBSET (1 .. Len(q))
      /\ B \in SUBSET (1 .. Len(q)) /\ x \in B /\ x \notin A
  BY <1>2 DEF Walked, Best, JobsOK
<1>6. /\ acc \in WalkState /\ acc.accepted \in Seq(Job) /\ acc.demoted \in Seq(Job)
      /\ acc.clock \in Nat /\ acc.clock = Weight(q, A) /\ job.service \in Nat
      /\ job.deadline \in Int
  BY <1>1 DEF Walked, WalkState, Job
<1>7. PICK clock \in Nat : clock = acc.clock + job.service  BY <1>6
<1>8. Lists(s, q, B)  BY <1>1, <1>2, <1>3, <1>5, ListsAppend DEF Walked
<1>9. clock = Weight(q, B)  BY <1>1, <1>2, <1>5, <1>6, <1>7, WeightAdds
<1>10. s \in Seq(Job) /\ InDeadlineOrder(s)
  <2>1. \A m \in 1 .. Len(acc.accepted) : ByDeadline(acc.accepted[m], job)
    BY <1>1, <1>5 DEF Walked, Lists
  <2>2. InDeadlineOrder(s)  BY <1>3, <1>6, <2>1, OrderedAppend DEF Walked
  <2> QED  BY <1>8, <2>2 DEF Lists, JobsOK
<1>11. \A i \in F : q[i].deadline <= job.deadline
  <2> SUFFICES ASSUME NEW i \in F PROVE q[i].deadline <= job.deadline  OBVIOUS
  <2>1. q[i].deadline \in Int /\ ByDeadline(q[i], job)  BY <1>1, <1>5, JobFacts
  <2> QED  BY <1>6, <2>1 DEF ByDeadline
<1>12. Late(now, rate, clock, job.deadline) <=> clock > Room(job.deadline)
  BY DEF Late, Room
<1>13. Room(job.deadline) \in Int
  <2>1. PICK c \in Int : c = job.deadline  BY <1>6
  <2> QED  BY <2>1, RoomIsInt
<1>14. CASE ~ Late(now, rate, clock, job.deadline)
  <2>1. e = [acc EXCEPT !.accepted = s, !.clock = clock]
    BY <1>3, <1>4, <1>7, <1>14 DEF Accept
  <2>2. /\ e \in WalkState /\ e.accepted = s /\ e.demoted = acc.demoted
        /\ e.clock = clock
    BY <1>6, <1>10, <2>1 DEF WalkState
  <2>3. clock <= Room(job.deadline)  BY <1>12, <1>13, <1>14
  <2>4. Best(q, F \cup {x}, job.deadline, B)
    BY <1>1, <1>2, <1>5, <1>9, <1>11, <2>3, BestTakes DEF Walked
  <2>5. (F \cup {x}) \ B = F \ A  BY <1>2, <1>5
  <2>6. Walked(e, q, F \cup {x}, job.deadline, B)
    BY <1>8, <1>9, <1>10, <2>2, <2>4, <2>5 DEF Walked
  <2> QED  BY <1>1, <1>4, <2>6
<1>15. CASE Late(now, rate, clock, job.deadline)
  <2>1. JobsOK(s) /\ s # <<>>
    <3>1. Len(s) = Len(acc.accepted) + 1  BY <1>3, <1>6, AppendJob
    <3>2. Len(acc.accepted) \in Nat  BY <1>6, JobFacts
    <3>3. s # <<>>  BY <1>10, <3>1, <3>2
    <3> QED  BY <1>8, <3>3 DEF Lists
  <2>2. PICK v : v = Victim(s)  OBVIOUS
  <2>3. v \in 1 .. Len(s) /\ \A m \in 1 .. Len(s) : s[m].service <= s[v].service
    BY <2>1, <2>2, VictimLongest
  <2>4. PICK y \in B : s[v] = q[y]  BY <1>8, <2>3 DEF Lists
  <2>5. \A i \in B : q[i].service <= q[y].service  BY <1>8, <2>3, <2>4 DEF Lists
  <2>6. PICK C : C = B \ {y}  OBVIOUS
  <2>7. e = [accepted |-> RemoveAt(s, v), demoted |-> Append(acc.demoted, s[v]),
             clock |-> clock - s[v].service]
    BY <1>3, <1>4, <1>7, <1>15, <2>2 DEF Accept
  <2>8. Lists(RemoveAt(s, v), q, C) /\ InDeadlineOrder(RemoveAt(s, v))
    BY <1>5, <1>8, <1>10, <2>3, <2>4, <2>6, ListsRemove, OrderedRemove
  <2>9. Lists(Append(acc.demoted, s[v]), q, (F \cup {x}) \ C)
    <3>1. PICK E : E = F \ A  OBVIOUS
    <3>2. Lists(acc.demoted, q, E)  BY <3>1 DEF Walked
    <3>3. E \in SUBSET (1 .. Len(q)) /\ y \in (1 .. Len(q)) \ E  BY <1>2, <1>5, <3>1
    <3>4. Lists(Append(acc.demoted, q[y]), q, E \cup {y})
      BY <3>2, <3>3, ListsAppend
    <3>5. E \cup {y} = (F \cup {x}) \ C  BY <1>2, <1>5, <2>6, <3>1
    <3> QED  BY <2>4, <3>4, <3>5
  <2>10. clock - s[v].service = Weight(q, C) /\ Weight(q, C) \in Nat
    <3>1. Weight(q, B) = Weight(q, C) + q[y].service
      BY <1>5, <2>6, WeightDrops, y \in 1 .. Len(q)
    <3>2. Weight(q, C) \in Nat  BY <1>5, WeightIsNat
    <3>3. q[y].service \in Nat  BY <1>5, JobFacts
    <3> QED  BY <1>9, <2>4, <3>1, <3>2, <3>3
  <2>11. Best(q, F \cup {x}, job.deadline, C)
    <3>1. Weight(q, A \cup {x}) > Room(job.deadline)  BY <1>2, <1>9, <1>12, <1>15
    <3>2. A # {} => d <= q[x].deadline  BY <1>5
    <3>3. Best(q, F \cup {x}, job.deadline, (A \cup {x}) \ {y})
      BY <1>1, <1>2, <1>5, <1>11, <2>5, <3>1, <3>2, BestEvicts DEF Walked
    <3> QED  BY <1>2, <2>6, <3>3
  <2>12. /\ e \in WalkState /\ e.accepted = RemoveAt(s, v)
         /\ e.demoted = Append(acc.demoted, s[v]) /\ e.clock = Weight(q, C)
    <3>1. RemoveAt(s, v) \in Seq(Job) /\ Append(acc.demoted, s[v]) \in Seq(Job)
      BY <2>8, <2>9 DEF Lists, JobsOK
    <3> QED  BY <2>7, <2>10, <3>1 DEF WalkState
  <2>13. Walked(e, q, F \cup {x}, job.deadline, C)
    BY <2>8, <2>9, <2>11, <2>12 DEF Walked
  <2> QED  BY <1>1, <1>4, <2>13
<1> QED  BY <1>14, <1>15

(* The jobs that come first, and the deadline of the last of them.         *)
Seen(p, k) == {p[i] : i \in 1 .. k}
Latest(q, p, k) == IF k = 0 THEN 0 ELSE q[p[k]].deadline

LEMMA SeenAll ==
  ASSUME NEW n \in Nat, NEW p, Places(p, n)
  PROVE  Seen(p, n) = 1 .. n
<1>1. \A i \in 1 .. n : p[i] \in 1 .. n  BY DEF Places
<1>2. \A x \in 1 .. n : \E i \in 1 .. n : x = p[i]  BY DEF Places
<1> QED  BY <1>1, <1>2 DEF Seen

LEMMA WalkOutcome ==
  ASSUME ClockOK, NEW q, JobsOK(q), NEW n \in Nat, n = Len(q)
  PROVE  \E A \in SUBSET (1 .. n) : \E acc :
           /\ MooreHodgson(q, now, rate)
                = [on_time |-> JobIds(acc.accepted),
                   demoted |-> JobIds(SortJobs(acc.demoted, ByDeadline))]
           /\ \E d : Walked(acc, q, 1 .. n, d, A)
<1>1. PICK p : /\ Places(p, n)
               /\ SortJobs(q, ByDeadline) = [i \in 1 .. n |-> q[p[i]]]
               /\ \A i, j \in 1 .. n : i < j => ByDeadline(q[p[i]], q[p[j]])
  BY SortedByDeadline
<1>2. PICK t : t = [i \in 1 .. n |-> q[p[i]]]  OBVIOUS
<1>3. p \in [1 .. n -> 1 .. n]  BY <1>1 DEF Places
<1> DEFINE none == [accepted |-> <<>>, demoted |-> <<>>, clock |-> 0]
           walk[k \in 0 .. Len(q)] ==
             IF k = 0 THEN none ELSE Accept(now, rate, walk[k - 1], t[k])
           G == [k \in 1 .. n |-> [acc \in WalkState |-> Accept(now, rate, acc, t[k])]]
           Valid(k) == {acc \in WalkState :
                          \E A : Walked(acc, q, Seen(p, k), Latest(q, p, k), A)}
           V == [k \in 0 .. n |-> Valid(k)]
<1>4. none \in WalkState
  BY <<>> \in Seq(Job) DEF WalkState
<1>5. none \in Valid(0)
  <2>1. Seen(p, 0) = {} /\ {} \ {} = {}  BY DEF Seen
  <2>2. Best(q, {}, Latest(q, p, 0), {})  BY BestOfNone DEF JobsOK
  <2>3. Weight(q, {}) = 0  BY WeightEmpty DEF JobsOK
  <2>4. Lists(<<>>, q, {}) /\ InDeadlineOrder(<<>>)
    <3>1. <<>> \in Seq(Job) /\ Len(<<>>) = 0 /\ Cardinality({}) = 0
      BY FS_EmptySet
    <3> QED  BY <3>1 DEF Lists, JobsOK, InDeadlineOrder
  <2>5. none.accepted = <<>> /\ none.demoted = <<>> /\ none.clock = 0  OBVIOUS
  <2> HIDE DEF none
  <2>6. Walked(none, q, Seen(p, 0), Latest(q, p, 0), {})
    BY <1>4, <2>1, <2>2, <2>3, <2>4, <2>5 DEF Walked
  <2> QED  BY <1>4, <2>6
<1>6. ASSUME NEW k \in 1 .. n, NEW acc \in Valid(k - 1)
      PROVE  Accept(now, rate, acc, t[k]) \in Valid(k)
  <2>1. PICK A : Walked(acc, q, Seen(p, k - 1), Latest(q, p, k - 1), A)  OBVIOUS
  <2>2. PICK x \in 1 .. n : x = p[k] /\ t[k] = q[x]  BY <1>2, <1>3
  <2>3. PICK F : F = Seen(p, k - 1)  OBVIOUS
  <2>4. F \in SUBSET (1 .. n) /\ x \notin F /\ Seen(p, k) = F \cup {x}
    <3>1. \A i \in 1 .. k - 1 : i \in 1 .. n /\ i # k  OBVIOUS
    <3>2. F \in SUBSET (1 .. n)  BY <1>3, <2>3, <3>1 DEF Seen
    <3>6. \A i \in 1 .. k - 1 : p[i] # p[k]  BY <1>1, <3>1 DEF Places
    <3>3. x \notin F  BY <2>2, <2>3, <3>6 DEF Seen
    <3>4. 1 .. k = (1 .. k - 1) \cup {k}  OBVIOUS
    <3>5. Seen(p, k) = F \cup {x}  BY <2>2, <2>3, <3>4 DEF Seen
    <3> QED  BY <3>2, <3>3, <3>5
  <2>5. \A i \in F : ByDeadline(q[i], q[x])
    <3> SUFFICES ASSUME NEW i \in F PROVE ByDeadline(q[i], q[x])  OBVIOUS
    <3>1. PICK j \in 1 .. k - 1 : i = p[j]  BY <2>3 DEF Seen
    <3>2. j \in 1 .. n /\ j < k  OBVIOUS
    <3> QED  BY <1>1, <2>2, <3>1, <3>2
  <2>6. PICK d \in Int : d = Latest(q, p, k - 1) /\ (F # {} => d <= q[x].deadline)
    <3>1. CASE k = 1
      <4>1. F = {}  BY <2>3, <3>1 DEF Seen
      <4>2. Latest(q, p, k - 1) = 0  BY <3>1 DEF Latest
      <4> QED  BY <4>1, <4>2
    <3>2. CASE k # 1
      <4>1. k - 1 \in 1 .. n /\ p[k - 1] \in 1 .. n  BY <1>3, <3>2
      <4>2. Latest(q, p, k - 1) = q[p[k - 1]].deadline  BY <4>1 DEF Latest
      <4>3. q[p[k - 1]].deadline \in Int /\ q[x].deadline \in Int
        BY <4>1, JobFacts DEF JobsOK
      <4>4. ByDeadline(q[p[k - 1]], q[x])  BY <1>1, <2>2, <4>1
      <4>5. q[p[k - 1]].deadline <= q[x].deadline  BY <4>3, <4>4 DEF ByDeadline
      <4> QED  BY <4>2, <4>3, <4>5
    <3> QED  BY <3>1, <3>2
  <2>7. Walked(acc, q, F, d, A)  BY <2>1, <2>3, <2>6
  <2>8. PICK C : Walked(Accept(now, rate, acc, q[x]), q, F \cup {x}, q[x].deadline, C)
    BY <2>4, <2>5, <2>6, <2>7, WalkStep
  <2>9. Latest(q, p, k) = q[x].deadline  BY <2>2 DEF Latest
  <2>10. Accept(now, rate, acc, t[k]) \in WalkState  BY <2>2, <2>8 DEF Walked
  <2> QED  BY <2>2, <2>4, <2>8, <2>9, <2>10
<1>7. /\ \A k \in 0 .. n : V[k] \subseteq WalkState
      /\ none \in V[0]
      /\ \A k \in 1 .. n : \A acc \in V[k - 1] : G[k][acc] \in V[k]
  <2>1. \A k \in 0 .. n : V[k] \subseteq WalkState  OBVIOUS
  <2>2. none \in V[0]  BY <1>5
  <2>3. ASSUME NEW k \in 1 .. n, NEW acc \in V[k - 1] PROVE G[k][acc] \in V[k]
    <3>1. acc \in Valid(k - 1) /\ acc \in WalkState  BY k - 1 \in 0 .. n
    <3>2. Accept(now, rate, acc, t[k]) \in Valid(k)
      <4> HIDE DEF Valid
      <4> QED  BY <1>6, <3>1
    <3> QED  BY <3>1, <3>2
  <2> QED  BY <2>1, <2>2, <2>3
<1>8. PICK g \in [0 .. n -> WalkState] : Scans(g, none, n, G)
  <2> HIDE DEF none, G, V, walk, Valid
  <2> QED  BY <1>7, ScanExists
<1>9. g[0] = none /\ \A k \in 1 .. n : g[k] = Accept(now, rate, g[k - 1], t[k])
  <2>1. g[0] = none  BY <1>8 DEF Scans
  <2>2. ASSUME NEW k \in 1 .. n PROVE g[k] = Accept(now, rate, g[k - 1], t[k])
    <3>1. g[k] = G[k][g[k - 1]]  BY <1>8 DEF Scans
    <3>2. g[k - 1] \in WalkState  OBVIOUS
    <3> QED  BY <3>1, <3>2
  <2> QED  BY <2>1, <2>2
<1> HIDE DEF none
<1>10. g = [k \in 0 .. Len(q) |->
              IF k = 0 THEN none ELSE Accept(now, rate, g[k - 1], t[k])]
  BY <1>9
<1>11. walk = [k \in 0 .. Len(q) |->
                 IF k = 0 THEN none ELSE Accept(now, rate, walk[k - 1], t[k])]
  BY <1>10
<1>12. MooreHodgson(q, now, rate)
         = [on_time |-> JobIds(walk[n].accepted),
            demoted |-> JobIds(SortJobs(walk[n].demoted, ByDeadline))]
  BY <1>1, <1>2 DEF MooreHodgson, none
<1> HIDE DEF walk
<1>13. /\ walk[0] = none
       /\ \A k \in 1 .. n : walk[k] = Accept(now, rate, walk[k - 1], t[k])
  BY <1>11
<1> DEFINE T == {k \in 0 .. n : walk[k] \in Valid(k)}
<1> HIDE DEF Valid
<1>14. 0 \in T  BY <1>5, <1>13
<1>15. ASSUME NEW k \in 1 .. n, k - 1 \in T PROVE k \in T
  <2>1. PICK acc \in Valid(k - 1) : acc = walk[k - 1]  BY <1>15
  <2>2. Accept(now, rate, acc, t[k]) \in Valid(k)  BY <1>6
  <2> QED  BY <1>13, <2>1, <2>2
<1>16. 0 .. n \subseteq T
  <2> HIDE DEF T
  <2> QED  BY <1>14, <1>15, SetInduction
<1>17. walk[n] \in Valid(n)  BY <1>16
<1>18. PICK A : Walked(walk[n], q, Seen(p, n), Latest(q, p, n), A)  BY <1>17 DEF Valid
<1>19. Seen(p, n) = 1 .. n  BY <1>1, SeenAll
<1>20. A \in SUBSET (1 .. n)  BY <1>18, <1>19 DEF Walked, Best
<1> QED  BY <1>12, <1>18, <1>19, <1>20

(* The ids of jobs.                                                        *)
LEMMA JobIdsFacts ==
  ASSUME NEW s \in Seq(Job)
  PROVE  /\ JobIds(s) \in Seq(Nat) /\ Len(JobIds(s)) = Len(s)
         /\ \A i \in 1 .. Len(s) : JobIds(s)[i] = s[i].id
<1>1. PICK n \in Nat : n = Len(s) /\ DOMAIN s = 1 .. n  BY JobFacts
<1>2. \A i \in 1 .. n : s[i].id \in Nat  BY <1>1, JobFacts
<1>3. JobIds(s) = [i \in 1 .. n |-> s[i].id]  BY <1>1 DEF JobIds
<1>4. JobIds(s) \in Seq(Nat)
  <2>1. [i \in 1 .. n |-> s[i].id] \in [1 .. n -> Nat]  BY <1>2
  <2> QED  BY <1>3, <2>1, SeqDef
<1>5. Len(JobIds(s)) = n  BY <1>3, <1>4, LenProperties
<1> QED  BY <1>1, <1>3, <1>4, <1>5

(* Sorting does not change what is listed.                                 *)
LEMMA ListsSorted ==
  ASSUME NEW q, JobsOK(q), NEW E \in SUBSET (1 .. Len(q)), NEW s, Lists(s, q, E),
         NEW n \in Nat, n = Len(s), NEW p, Places(p, n),
         NEW t, t = [i \in 1 .. n |-> s[p[i]]]
  PROVE  Lists(t, q, E)
<1>1. s \in Seq(Job) /\ \A i \in 1 .. n : s[i] \in Job  BY JobFacts DEF Lists, JobsOK
<1>2. p \in [1 .. n -> 1 .. n]  BY DEF Places
<1>3. t \in Seq(Job)
  <2>1. [i \in 1 .. n |-> s[p[i]]] \in [1 .. n -> Job]  BY <1>1, <1>2
  <2> QED  BY <2>1, SeqDef
<1>4. Len(t) = n /\ \A i \in 1 .. n : t[i] = s[p[i]]  BY <1>3, LenProperties
<1>5. \A i, j \in 1 .. n : t[i].id = t[j].id => i = j
  <2> SUFFICES ASSUME NEW i \in 1 .. n, NEW j \in 1 .. n, t[i].id = t[j].id, i # j
               PROVE  FALSE
    OBVIOUS
  <2>1. PICK a \in 1 .. n, b \in 1 .. n : a = p[i] /\ b = p[j]  BY <1>2
  <2>2. a # b  BY <2>1 DEF Places
  <2>3. s[a].id # s[b].id  BY <2>2 DEF Lists, JobsOK
  <2> QED  BY <1>4, <2>1, <2>3
<1>6. \A m \in 1 .. n : \E i \in E : t[m] = q[i]  BY <1>2, <1>4 DEF Lists
<1>7. ASSUME NEW i \in E PROVE \E m \in 1 .. n : t[m] = q[i]
  <2>1. PICK k \in 1 .. n : s[k] = q[i]  BY DEF Lists
  <2>2. PICK m \in 1 .. n : p[m] = k  BY DEF Places
  <2> QED  BY <1>4, <2>1, <2>2
<1> QED  BY <1>3, <1>4, <1>5, <1>6, <1>7 DEF Lists, JobsOK

LEMMA ListsAll ==
  ASSUME NEW q, JobsOK(q)
  PROVE  Lists(q, q, 1 .. Len(q)) /\ Lists(<<>>, q, {})
<1>1. Len(q) \in Nat  BY JobFacts DEF JobsOK
<1>2. Cardinality(1 .. Len(q)) = Len(q)
  <2>1. PICK n \in Nat : n = Len(q)  BY <1>1
  <2>2. Cardinality(1 .. n) = IF 1 > n THEN 0 ELSE n - 1 + 1  BY FS_Interval
  <2>3. (IF 1 > n THEN 0 ELSE n - 1 + 1) = n  OBVIOUS
  <2> QED  BY <2>1, <2>2, <2>3
<1>3. Lists(q, q, 1 .. Len(q))  BY <1>2 DEF Lists
<1>4. <<>> \in Seq(Job) /\ Len(<<>>) = 0 /\ Cardinality({}) = 0  BY FS_EmptySet
<1>5. Lists(<<>>, q, {})  BY <1>4 DEF Lists, JobsOK
<1> QED  BY <1>3, <1>5

(* An ordering splits the queue in two, whatever the policy.               *)
Splits(o, q, A, a, m) ==
  /\ A \in SUBSET (1 .. Len(q))
  /\ Lists(a, q, A) /\ Lists(m, q, (1 .. Len(q)) \ A)
  /\ o.on_time = JobIds(a) /\ o.demoted = JobIds(m)

LEMMA OrderSplits ==
  ASSUME ClockOK, NEW q, JobsOK(q), NEW pol \in Policies
  PROVE  \E A, a, m : Splits(OrderJobs(q, now, rate, pol), q, A, a, m)
<1>1. PICK n \in Nat : n = Len(q)  BY JobFacts DEF JobsOK
<1>2. PICK D : D = 1 .. n  OBVIOUS
<1>3. Lists(q, q, D) /\ Lists(<<>>, q, {}) /\ D \ D = {} /\ D \in SUBSET (1 .. Len(q))
  BY <1>1, <1>2, ListsAll
<1>8. PICK nil : nil = <<>>  OBVIOUS
<1>4. JobIds(nil) = <<>> /\ Lists(nil, q, {})
  <2>1. JobIds(<<>>) \in Seq(Nat) /\ Len(JobIds(<<>>)) = 0
    BY JobIdsFacts, <<>> \in Seq(Job)
  <2> QED  BY <1>3, <1>8, <2>1
<1>9. PICK none : none = (1 .. Len(q)) \ D  OBVIOUS
<1>10. none = {}  BY <1>1, <1>2, <1>9
<1>5. CASE pol = "Fcfs"
  <2>1. PICK p : Places(p, n) /\ SortJobs(q, ByArrival) = [i \in 1 .. n |-> q[p[i]]]
    BY <1>1, SortedByArrival
  <2>2. PICK t : t = SortJobs(q, ByArrival)  OBVIOUS
  <2>3. Lists(t, q, D)  BY <1>1, <1>3, <2>1, <2>2, ListsSorted
  <2>4. OrderJobs(q, now, rate, pol) = [on_time |-> JobIds(t), demoted |-> <<>>]
    BY <1>5, <2>2 DEF OrderJobs
  <2>5. PICK o : o = OrderJobs(q, now, rate, pol)  OBVIOUS
  <2>6. o.on_time = JobIds(t) /\ o.demoted = JobIds(nil)  BY <1>4, <2>4, <2>5
  <2>7. Splits(o, q, D, t, nil)  BY <1>3, <1>4, <1>9, <1>10, <2>3, <2>6 DEF Splits
  <2> QED  BY <2>5, <2>7
<1>6. CASE pol = "Edf"
  <2>1. PICK p : /\ Places(p, n)
                /\ SortJobs(q, ByDeadline) = [i \in 1 .. n |-> q[p[i]]]
                /\ \A i, j \in 1 .. n : i < j => ByDeadline(q[p[i]], q[p[j]])
    BY <1>1, SortedByDeadline
  <2>2. PICK t : t = SortJobs(q, ByDeadline)  OBVIOUS
  <2>3. Lists(t, q, D)  BY <1>1, <1>3, <2>1, <2>2, ListsSorted
  <2>4. OrderJobs(q, now, rate, pol) = [on_time |-> JobIds(t), demoted |-> <<>>]
    BY <1>6, <2>2 DEF OrderJobs
  <2>5. PICK o : o = OrderJobs(q, now, rate, pol)  OBVIOUS
  <2>6. o.on_time = JobIds(t) /\ o.demoted = JobIds(nil)  BY <1>4, <2>4, <2>5
  <2>7. Splits(o, q, D, t, nil)  BY <1>3, <1>4, <1>9, <1>10, <2>3, <2>6 DEF Splits
  <2> QED  BY <2>5, <2>7
<1>7. CASE pol = "MooreHodgson"
  <2>a. PICK A \in SUBSET (1 .. n) : \E acc :
          /\ MooreHodgson(q, now, rate)
               = [on_time |-> JobIds(acc.accepted),
                  demoted |-> JobIds(SortJobs(acc.demoted, ByDeadline))]
          /\ \E d : Walked(acc, q, 1 .. n, d, A)
    BY <1>1, WalkOutcome
  <2>1. PICK acc :
          /\ MooreHodgson(q, now, rate)
               = [on_time |-> JobIds(acc.accepted),
                  demoted |-> JobIds(SortJobs(acc.demoted, ByDeadline))]
          /\ \E d : Walked(acc, q, 1 .. n, d, A)
    BY <2>a
  <2>2. PICK a, m : a = acc.accepted /\ m = acc.demoted  OBVIOUS
  <2>3. PICK E : E = (1 .. n) \ A  OBVIOUS
  <2>4. Lists(a, q, A) /\ Lists(m, q, E)  BY <2>1, <2>2, <2>3 DEF Walked
  <2>5. JobsOK(m)  BY <2>4 DEF Lists
  <2>6. PICK l \in Nat : l = Len(m)  BY <2>5, JobFacts DEF JobsOK
  <2>7. PICK p : /\ Places(p, l)
                /\ SortJobs(m, ByDeadline) = [i \in 1 .. l |-> m[p[i]]]
                /\ \A i, j \in 1 .. l : i < j => ByDeadline(m[p[i]], m[p[j]])
    BY <2>5, <2>6, SortedByDeadline
  <2>8. PICK t : t = SortJobs(m, ByDeadline)  OBVIOUS
  <2>9. E \in SUBSET (1 .. Len(q))  BY <1>1, <2>3
  <2>10. Lists(t, q, E)  BY <2>4, <2>6, <2>7, <2>8, <2>9, ListsSorted
  <2>11. OrderJobs(q, now, rate, pol) = [on_time |-> JobIds(a), demoted |-> JobIds(t)]
    BY <1>7, <2>1, <2>2, <2>8 DEF OrderJobs
  <2>12. Splits(OrderJobs(q, now, rate, pol), q, A, a, t)
    BY <1>1, <2>3, <2>4, <2>10, <2>11 DEF Splits
  <2> QED  BY <2>12
<1> QED  BY <1>5, <1>6, <1>7 DEF Policies

-------------------------------------------------------------------------------
(* The inductive invariant of the prefill worker.                          *)
Once(s) == \A i, j \in 1 .. Len(s) : s[i] = s[j] => i = j

PrefillTypes ==
  /\ now \in 0 .. MaxNow /\ policy \in Policies /\ pool \in Pools
  /\ prompt \in Prompts /\ rate \in Rates
  /\ pc \in {"top", "plan", "engine", "stopped"}
  /\ done \in [Req -> Nat] /\ \A r \in Req : done[r] <= prompt[r]
  /\ free \in Nat /\ held \in [Req -> Nat]
  /\ computed \in [Req -> SUBSET Nat]
  /\ \A r \in Req : computed[r] \subseteq 0 .. prompt[r] - 1
  /\ sent \subseteq Req

(* A submitted prompt is in the channel or in the queue at most once.      *)
InLine ==
  /\ jobs \in Seq(Req) /\ Once(jobs)
  /\ order \in Seq(Req) /\ Once(order)
  /\ Queued \cap ToSet(jobs) = {} /\ Queued \cup ToSet(jobs) \subseteq Submitted
  /\ Submitted \subseteq Req /\ arrival \in [Submitted -> Nat]
  /\ \A r \in Submitted : arrival[r] + Ttft < MaxNow
  /\ demoted \subseteq Queued

LEMMA RequestFacts ==
  ASSUME PrefillTypes
  PROVE  /\ NumReq \in Nat /\ Req = 1 .. NumReq
         /\ \A r \in Req : prompt[r] \in Nat /\ done[r] \in Nat /\ Remaining(r) \in Nat
         /\ ClockOK /\ now <= MaxNow /\ pool \in Nat /\ Reserve <= pool /\ Reserve \in Nat
<1>1. prompt \in [Req -> Nat] /\ NumReq \in Nat /\ MaxNow \in Nat
  BY PrefillAssumption DEF PrefillTypes
<1>2. ASSUME NEW r \in Req
      PROVE  prompt[r] \in Nat /\ done[r] \in Nat /\ Remaining(r) \in Nat
  <2>1. prompt[r] \in Nat /\ done[r] \in Nat /\ done[r] <= prompt[r]
    BY <1>1 DEF PrefillTypes
  <2> QED  BY <2>1 DEF Remaining
<1>3. ClockOK /\ now <= MaxNow  BY <1>1, PrefillAssumption DEF PrefillTypes, ClockOK
<1>4. pool \in Nat /\ Reserve <= pool /\ Reserve \in Nat
  BY PrefillAssumption DEF PrefillTypes
<1> QED  BY <1>1, <1>2, <1>3, <1>4 DEF Req

(* The queue that plan() orders is one of jobs, each prompt once.          *)
QueueDue(due) ==
  [i \in DOMAIN order |->
    [id |-> order[i], arrival |-> arrival[order[i]],
     deadline |-> due[i], service |-> Remaining(order[i])]]

LEMMA QueueOK ==
  ASSUME PrefillTypes, InLine, NEW due, NEW n \in Nat, n = Len(order),
         \A i \in 1 .. n : due[i] \in Int,
         NEW q, q = QueueDue(due)
  PROVE  /\ JobsOK(q) /\ Len(q) = n
         /\ \A i \in 1 .. n : q[i].id = order[i] /\ q[i].deadline = due[i]
<1>1. DOMAIN order = 1 .. n /\ \A i \in 1 .. n : order[i] \in Req  BY DEF InLine
<1>2. \A i \in 1 .. n : order[i] \in Submitted
  <2>1. Queued = {order[i] : i \in 1 .. n}  BY <1>1 DEF Queued, ToSet
  <2>2. Queued \subseteq Submitted  BY DEF InLine
  <2> QED  BY <2>1, <2>2
<1>3. ASSUME NEW i \in 1 .. n
      PROVE  /\ [id |-> order[i], arrival |-> arrival[order[i]],
                 deadline |-> due[i], service |-> Remaining(order[i])] \in Job
  <2>1. order[i] \in Nat  BY <1>1, RequestFacts
  <2>2. arrival[order[i]] \in Int  BY <1>2 DEF InLine
  <2>3. Remaining(order[i]) \in Nat  BY <1>1, RequestFacts
  <2> QED  BY <2>1, <2>2, <2>3 DEF Job
<1>4. q \in Seq(Job)
  <2>1. q \in [1 .. n -> Job]  BY <1>1, <1>3 DEF QueueDue
  <2> QED  BY <2>1, SeqDef
<1>5. Len(q) = n  BY <1>1, <1>4, LenProperties DEF QueueDue
<1>6. \A i \in 1 .. n : q[i].id = order[i] /\ q[i].deadline = due[i]
  BY <1>1 DEF QueueDue
<1>7. \A i, j \in 1 .. n : q[i].id = q[j].id => i = j  BY <1>6 DEF InLine, Once
<1> QED  BY <1>4, <1>5, <1>6, <1>7 DEF JobsOK

LEMMA DeadlineFacts ==
  ASSUME PrefillTypes, InLine, NEW r \in Submitted
  PROVE  Deadline(r) \in Int /\ Deadline(r) < MaxNow
<1>1. arrival[r] \in Nat /\ Ttft \in Nat  BY PrefillAssumption DEF InLine
<1>2. arrival[r] + Ttft < MaxNow  BY DEF InLine
<1> QED  BY <1>1, <1>2 DEF Deadline

(* What an ordering of the queue is made of.                               *)
LEMMA OrderingFacts ==
  ASSUME PrefillTypes, InLine, NEW o, o = Ordering
  PROVE  /\ o.on_time \in Seq(Req) /\ o.demoted \in Seq(Req)
         /\ Once(o.on_time) /\ Once(o.demoted)
         /\ ToSet(o.on_time) \cap ToSet(o.demoted) = {}
         /\ ToSet(o.on_time) \cup ToSet(o.demoted) = Queued
         /\ Len(o.on_time) + Len(o.demoted) = Len(order)
<1>1. PICK n \in Nat : n = Len(order)  BY DEF InLine
<1>2. DOMAIN order = 1 .. n /\ \A i \in 1 .. n : order[i] \in Req /\ order[i] \in Submitted
  <2>1. DOMAIN order = 1 .. n /\ \A i \in 1 .. n : order[i] \in Req  BY <1>1 DEF InLine
  <2>2. Queued = {order[i] : i \in 1 .. n}  BY <2>1 DEF Queued, ToSet
  <2>3. Queued \subseteq Submitted  BY DEF InLine
  <2> QED  BY <2>1, <2>2, <2>3
<1>3. PICK due : due = [i \in 1 .. n |-> Deadline(order[i])]  OBVIOUS
<1>4. \A i \in 1 .. n : due[i] \in Int  BY <1>2, <1>3, DeadlineFacts
<1>5. PICK q : q = QueueDue(due)  OBVIOUS
<1>6. JobsOK(q) /\ Len(q) = n /\ \A i \in 1 .. n : q[i].id = order[i] /\ q[i].deadline = due[i]
  BY <1>1, <1>4, <1>5, QueueOK
<1>7. QueuedJobs = q  BY <1>2, <1>3, <1>5 DEF QueuedJobs, QueueDue
<1>8. o = OrderJobs(q, now, rate, policy)  BY <1>7 DEF Ordering
<1>9. PICK A, a, m : Splits(o, q, A, a, m)
  BY <1>6, <1>8, OrderSplits, RequestFacts DEF PrefillTypes
<1>10. PICK E : E = (1 .. n) \ A  OBVIOUS
<1>11. /\ A \in SUBSET (1 .. n) /\ Lists(a, q, A) /\ Lists(m, q, E)
       /\ o.on_time = JobIds(a) /\ o.demoted = JobIds(m)
  BY <1>6, <1>9, <1>10 DEF Splits
<1>12. ASSUME NEW s, NEW B \in SUBSET (1 .. n), Lists(s, q, B), NEW z, z = JobIds(s)
       PROVE  /\ z \in Seq(Req) /\ Once(z) /\ ToSet(z) = {order[i] : i \in B}
              /\ Len(z) = Cardinality(B)
  <2>1. s \in Seq(Job) /\ JobsOK(s) /\ Len(s) = Cardinality(B)  BY <1>12 DEF Lists, JobsOK
  <2>2. z \in Seq(Nat) /\ Len(z) = Len(s) /\ \A k \in 1 .. Len(s) : z[k] = s[k].id
    BY <1>12, <2>1, JobIdsFacts
  <2>3. PICK l \in Nat : l = Len(s)  BY <2>1, JobFacts
  <2>4. Once(z)  BY <2>1, <2>2 DEF Once, JobsOK
  <2>5. ASSUME NEW k \in 1 .. l PROVE \E i \in B : z[k] = order[i]
    <3>1. PICK i \in B : s[k] = q[i]  BY <1>12, <2>3 DEF Lists
    <3>2. z[k] = s[k].id /\ q[i].id = order[i]  BY <1>6, <1>12, <2>2, <2>3
    <3> QED  BY <3>1, <3>2
  <2>6. ASSUME NEW i \in B PROVE \E k \in 1 .. l : z[k] = order[i]
    <3>1. PICK k \in 1 .. l : s[k] = q[i]  BY <1>12, <2>3 DEF Lists
    <3>2. z[k] = s[k].id /\ q[i].id = order[i]  BY <1>6, <1>12, <2>2, <2>3
    <3> QED  BY <3>1, <3>2
  <2>7. DOMAIN z = 1 .. l /\ z \in [1 .. l -> Req]
    <3>1. DOMAIN z = 1 .. l /\ \A k \in 1 .. l : z[k] \in Req  BY <1>2, <2>2, <2>3, <2>5
    <3>2. z = [k \in 1 .. l |-> z[k]]  BY <2>2, <3>1, SeqDef
    <3> QED  BY <3>1, <3>2
  <2>8. z \in Seq(Req)  BY <2>7, SeqDef
  <2>9. ToSet(z) = {z[k] : k \in 1 .. l}  BY <2>7 DEF ToSet
  <2>10. ToSet(z) = {order[i] : i \in B}
    <3>1. \A k \in 1 .. l : z[k] \in {order[i] : i \in B}  BY <2>5
    <3>2. \A i \in B : order[i] \in {z[k] : k \in 1 .. l}  BY <2>6
    <3> QED  BY <2>9, <3>1, <3>2
  <2> QED  BY <2>1, <2>2, <2>4, <2>8, <2>10
<1>13. /\ o.on_time \in Seq(Req) /\ Once(o.on_time)
       /\ ToSet(o.on_time) = {order[i] : i \in A} /\ Len(o.on_time) = Cardinality(A)
  BY <1>11, <1>12
<1>14. /\ o.demoted \in Seq(Req) /\ Once(o.demoted)
       /\ ToSet(o.demoted) = {order[i] : i \in E} /\ Len(o.demoted) = Cardinality(E)
  <2>1. E \in SUBSET (1 .. n)  BY <1>10
  <2> QED  BY <1>11, <1>12, <2>1
<1>15. \A i \in A, j \in E : order[i] # order[j]
  BY <1>1, <1>10, <1>11 DEF InLine, Once
<1>16. ToSet(o.on_time) \cap ToSet(o.demoted) = {}  BY <1>13, <1>14, <1>15
<1>17. ToSet(o.on_time) \cup ToSet(o.demoted) = Queued
  <2>1. Queued = {order[i] : i \in 1 .. n}  BY <1>2 DEF Queued, ToSet
  <2>2. A \cup E = 1 .. n  BY <1>10, <1>11
  <2> QED  BY <1>13, <1>14, <2>1, <2>2
<1>18. Cardinality(A) + Cardinality(E) = n
  <2>1. IsFiniteSet(1 .. n) /\ Cardinality(1 .. n) = n  BY FS_Interval
  <2>2. IsFiniteSet(A) /\ IsFiniteSet(E)  BY <1>10, <1>11, <2>1, FS_Subset
  <2>3. A \cap E = {} /\ A \cup E = 1 .. n  BY <1>10, <1>11
  <2>4. Cardinality(A \cup E) = Cardinality(A) + Cardinality(E) - Cardinality(A \cap E)
    BY <2>2, FS_Union
  <2>5. Cardinality({}) = 0 /\ Cardinality(A) \in Nat /\ Cardinality(E) \in Nat
    BY <2>2, FS_EmptySet, FS_CardinalityType
  <2>6. n = Cardinality(A) + Cardinality(E) - Cardinality({})  BY <2>1, <2>3, <2>4
  <2> QED  BY <2>5, <2>6
<1> QED  BY <1>1, <1>13, <1>14, <1>16, <1>17, <1>18

LEMMA SetConcat ==
  ASSUME NEW S, NEW s \in Seq(S), NEW t \in Seq(S)
  PROVE  ToSet(s \o t) = ToSet(s) \cup ToSet(t)
<1>0. Len(s) \in Nat /\ Len(t) \in Nat  OBVIOUS
<1>a. PICK m \in Nat, n \in Nat : m = Len(s) /\ n = Len(t)  BY <1>0
<1>b. PICK z : z = s \o t  OBVIOUS
<1>1. m = Len(s) /\ n = Len(t) /\ z = s \o t  BY <1>a, <1>b
<1>2. DOMAIN s = 1 .. m /\ DOMAIN t = 1 .. n  BY <1>1
<1>3. /\ DOMAIN z = 1 .. m + n
      /\ \A i \in 1 .. m + n : z[i] = IF i <= m THEN s[i] ELSE t[i - m]
  BY <1>1, ConcatProperties
<1>4. ASSUME NEW i \in 1 .. m + n PROVE z[i] \in ToSet(s) \cup ToSet(t)
  <2>1. CASE i <= m
    <3>1. i \in 1 .. m /\ z[i] = s[i]  BY <1>3, <2>1
    <3> QED  BY <1>2, <3>1 DEF ToSet
  <2>2. CASE ~ (i <= m)
    <3>1. i - m \in 1 .. n  BY <2>2
    <3> QED  BY <1>2, <1>3, <2>2, <3>1 DEF ToSet
  <2> QED  BY <2>1, <2>2
<1>5. ASSUME NEW i \in 1 .. m PROVE s[i] \in ToSet(z)
  <2>1. i \in 1 .. m + n /\ i <= m  OBVIOUS
  <2> QED  BY <1>3, <2>1 DEF ToSet
<1>6. ASSUME NEW i \in 1 .. n PROVE t[i] \in ToSet(z)
  <2>1. PICK j \in 1 .. m + n : j = m + i /\ ~ (j <= m) /\ j - m = i  OBVIOUS
  <2>2. z[j] = t[i]  BY <1>3, <2>1
  <2> QED  BY <1>3, <2>2 DEF ToSet
<1>7. ToSet(z) \subseteq ToSet(s) \cup ToSet(t)
  <2>1. ToSet(z) = {z[i] : i \in 1 .. m + n}  BY <1>3 DEF ToSet
  <2> QED  BY <1>4, <2>1
<1>8. ToSet(s) = {s[i] : i \in 1 .. m} /\ ToSet(t) = {t[i] : i \in 1 .. n}
  BY <1>2 DEF ToSet
<1> QED  BY <1>1, <1>5, <1>6, <1>7, <1>8

LEMMA PermutationHolds ==
  ASSUME PrefillTypes, InLine
  PROVE  OrderingIsPermutation
<1>1. PICK o : o = Ordering  OBVIOUS
<1>2. PICK s, t : s = o.on_time /\ t = o.demoted  OBVIOUS
<1>3. /\ s \in Seq(Req) /\ t \in Seq(Req) /\ ToSet(s) \cup ToSet(t) = Queued
      /\ Len(s) + Len(t) = Len(order)
  BY <1>1, <1>2, OrderingFacts
<1>4. /\ s \o t \in Seq(Req) /\ Len(s \o t) = Len(s) + Len(t)
      /\ \A i \in 1 .. Len(s) + Len(t) :
           (s \o t)[i] = IF i <= Len(s) THEN s[i] ELSE t[i - Len(s)]
  BY <1>3, ConcatProperties
<1>5. ToSet(s \o t) = ToSet(s) \cup ToSet(t)  BY <1>3, SetConcat
<1> QED  BY <1>1, <1>2, <1>3, <1>4, <1>5 DEF OrderingIsPermutation

LEMMA MooreHodgsonHolds ==
  ASSUME PrefillTypes, InLine
  PROVE  MooreHodgsonOptimal
<1>1. PICK n \in Nat : n = Len(order)  BY DEF InLine
<1>2. DOMAIN order = 1 .. n  BY <1>1 DEF InLine
<1>3. Ttft \in Nat /\ now \in Nat /\ ClockOK
  BY PrefillAssumption, RequestFacts DEF ClockOK
<1>0. SUFFICES ASSUME NEW due \in [DOMAIN order -> now .. now + Ttft],
                    NEW q, q = [i \in DOMAIN order |->
                                  [QueuedJobs[i] EXCEPT !.deadline = due[i]]],
                    NEW kept, kept = MooreHodgson(q, now, rate).on_time
             PROVE  /\ Feasible(q, {i \in DOMAIN order : order[i] \in ToSet(kept)})
                    /\ \A i, j \in DOMAIN kept, k, l \in DOMAIN order :
                         /\ i < j /\ kept[i] = order[k] /\ kept[j] = order[l]
                         => due[k] <= due[l]
                    /\ \A set \in SUBSET DOMAIN order :
                         Feasible(q, set) => Cardinality(set) <= Len(kept)
  BY DEF MooreHodgsonOptimal
<1>4. q = QueueDue(due)  BY <1>0, <1>2 DEF QueuedJobs, QueueDue
<1>5. \A i \in 1 .. n : due[i] \in Int  BY <1>2, <1>3
<1>6. JobsOK(q) /\ Len(q) = n /\ \A i \in 1 .. n : q[i].id = order[i] /\ q[i].deadline = due[i]
  BY <1>1, <1>4, <1>5, QueueOK
<1>a. PICK A \in SUBSET (1 .. n) : \E acc :
        /\ MooreHodgson(q, now, rate)
             = [on_time |-> JobIds(acc.accepted),
                demoted |-> JobIds(SortJobs(acc.demoted, ByDeadline))]
        /\ \E d : Walked(acc, q, 1 .. n, d, A)
  BY <1>3, <1>6, WalkOutcome
<1>7. PICK acc :
        /\ MooreHodgson(q, now, rate)
             = [on_time |-> JobIds(acc.accepted),
                demoted |-> JobIds(SortJobs(acc.demoted, ByDeadline))]
        /\ \E d : Walked(acc, q, 1 .. n, d, A)
  BY <1>a
<1>8. PICK s : s = acc.accepted  OBVIOUS
<1>9. kept = JobIds(s)  BY <1>0, <1>7, <1>8
<1>10. PICK d : Best(q, 1 .. n, d, A) /\ Lists(s, q, A) /\ InDeadlineOrder(s)
  BY <1>7, <1>8 DEF Walked
<1>11. s \in Seq(Job) /\ Len(s) = Cardinality(A)  BY <1>10 DEF Lists, JobsOK
<1>12. PICK l \in Nat : l = Len(s)  BY <1>11, JobFacts
<1>13. /\ kept \in Seq(Nat) /\ Len(kept) = l /\ DOMAIN kept = 1 .. l
       /\ \A k \in 1 .. l : kept[k] = s[k].id
  <2>1. /\ kept \in Seq(Nat) /\ Len(kept) = l /\ \A k \in 1 .. l : kept[k] = s[k].id
    BY <1>9, <1>11, <1>12, JobIdsFacts
  <2> QED  BY <2>1
<1>14. \A i, j \in 1 .. n : order[i] = order[j] => i = j  BY <1>1 DEF InLine, Once
<1>15. ASSUME NEW k \in 1 .. l PROVE \E i \in A : s[k] = q[i] /\ kept[k] = order[i]
  <2>1. PICK i \in A : s[k] = q[i]  BY <1>10, <1>12 DEF Lists
  <2>2. kept[k] = s[k].id /\ q[i].id = order[i]  BY <1>6, <1>13
  <2> QED  BY <2>1, <2>2
<1>16. ASSUME NEW i \in A PROVE \E k \in 1 .. l : kept[k] = order[i]
  <2>1. PICK k \in 1 .. l : s[k] = q[i]  BY <1>10, <1>12 DEF Lists
  <2>2. kept[k] = s[k].id /\ q[i].id = order[i]  BY <1>6, <1>13
  <2> QED  BY <2>1, <2>2
<1>17. {i \in DOMAIN order : order[i] \in ToSet(kept)} = A
  <2>1. ToSet(kept) = {kept[k] : k \in 1 .. l}  BY <1>13 DEF ToSet
  <2>2. ASSUME NEW i \in A PROVE order[i] \in ToSet(kept)  BY <1>16, <2>1
  <2>3. ASSUME NEW i \in 1 .. n, order[i] \in ToSet(kept) PROVE i \in A
    <3>1. PICK k \in 1 .. l : order[i] = kept[k]  BY <2>1, <2>3
    <3>2. PICK j \in A : kept[k] = order[j]  BY <1>15
    <3> QED  BY <1>14, <3>1, <3>2
  <2> QED  BY <1>2, <2>2, <2>3
<1>18. Feasible(q, {i \in DOMAIN order : order[i] \in ToSet(kept)})
  BY <1>10, <1>17 DEF Best
<1>19. ASSUME NEW i \in DOMAIN kept, NEW j \in DOMAIN kept,
              NEW k \in DOMAIN order, NEW m \in DOMAIN order,
              i < j, kept[i] = order[k], kept[j] = order[m]
       PROVE  due[k] <= due[m]
  <2>1. PICK a \in A : s[i] = q[a] /\ kept[i] = order[a]  BY <1>13, <1>15
  <2>2. PICK b \in A : s[j] = q[b] /\ kept[j] = order[b]  BY <1>13, <1>15
  <2>3. a = k /\ b = m  BY <1>2, <1>14, <1>19, <2>1, <2>2
  <2>4. ByDeadline(s[i], s[j])  BY <1>10, <1>12, <1>13, <1>19 DEF InDeadlineOrder
  <2>5. q[k].deadline = due[k] /\ q[m].deadline = due[m] /\ due[k] \in Int /\ due[m] \in Int
    BY <1>2, <1>5, <1>6
  <2>6. ByDeadline(q[k], q[m])  BY <2>1, <2>2, <2>3, <2>4
  <2> QED  BY <2>5, <2>6 DEF ByDeadline
<1>20. ASSUME NEW set \in SUBSET DOMAIN order, Feasible(q, set)
       PROVE  Cardinality(set) <= Len(kept)
  <2>1. AsGood(q, A, set)  BY <1>2, <1>10, <1>20 DEF Best
  <2>2. PICK T \in SUBSET A : Cardinality(T) = Cardinality(set)  BY <2>1 DEF AsGood
  <2>3. IsFiniteSet(A)  BY <1>6, IndexFinite DEF JobsOK
  <2>4. Cardinality(T) <= Cardinality(A)  BY <2>3, FS_Subset
  <2> QED  BY <1>11, <1>12, <1>13, <2>2, <2>4
<1> QED  BY <1>18, <1>19, <1>20

LEMMA BlocksType ==
  ASSUME NEW t \in Nat
  PROVE  BlocksFor(t) \in Nat
<1>1. PICK d \in Nat \ {0} : d = BlockSize  BY PrefillAssumption
<1>2. PICK x \in Nat : x = t + d - 1  BY t + d - 1 \in Nat
<1>3. x \div d \in Nat  OBVIOUS
<1> QED  BY <1>1, <1>2, <1>3 DEF BlocksFor

LEMMA DivGrows ==
  ASSUME NEW x \in Nat, NEW y \in Nat, NEW d \in Nat \ {0}, x <= y
  PROVE  x \div d <= y \div d
<1>1. PICK a \in Nat : a = x \div d  BY x \div d \in Nat
<1>2. PICK b \in Nat : b = y \div d  BY y \div d \in Nat
<1>3. x = d * a + (x % d) /\ x % d \in 0 .. d - 1  BY <1>1
<1>4. y = d * b + (y % d) /\ y % d \in 0 .. d - 1  BY <1>2
<1>5. PICK s \in 0 .. d - 1, t \in 0 .. d - 1 : x = d * a + s /\ y = d * b + t  BY <1>3, <1>4
<1>6. ASSUME b < a PROVE FALSE
  <2>1. PICK c \in Nat : a = b + 1 + c  BY <1>6, a - b - 1 \in Nat
  <2>2. d * a = d * b + d + d * c /\ d * c \in Nat /\ d * b \in Nat  BY <2>1
  <2>3. PICK u \in Nat, v \in Nat : u = d * b /\ v = d * c  BY <2>2
  <2>4. x = u + d + v + s /\ y = u + t  BY <1>5, <2>2, <2>3
  <2> QED  BY <2>4
<1> QED  BY <1>1, <1>2, <1>6

-------------------------------------------------------------------------------
(* plan(): what a batch under construction is, after the prompts of S have *)
(* been considered, of which those of H were given up on.                  *)
Batch == [chunks : Seq(Chunk), total : Nat, deadline : Int, stop : BOOLEAN]

NextChunk(c) ==
  /\ c.start = done[c.id]
  /\ c.start + c.tokens <= prompt[c.id]
  /\ c.completes <=> c.start + c.tokens = prompt[c.id]

Chunked(chunks) ==
  /\ chunks \in Seq(Chunk)
  /\ \A i, j \in 1 .. Len(chunks) : chunks[i].id = chunks[j].id => i = j
  /\ \A i \in 1 .. Len(chunks) : NextChunk(chunks[i])

BatchOK(b, S, H) ==
  /\ b \in Batch /\ b.total <= ChunkTokens /\ b.deadline <= NoBatch.deadline
  /\ Chunked(b.chunks)
  /\ \A i \in 1 .. Len(b.chunks) :
       /\ b.chunks[i].id \in S
       /\ \/ b.chunks[i].id \in H
          \/ b.deadline <= Deadline(b.chunks[i].id) /\ b.deadline < NoBatch.deadline
  /\ Len(b.chunks) > 1 /\ b.deadline < NoBatch.deadline
       => ~ Late(now, rate, b.total, b.deadline)

LEMMA ChunkFacts ==
  ASSUME NEW c \in Chunk
  PROVE  c.id \in Req /\ c.start \in Nat /\ c.tokens \in Nat /\ c.completes \in BOOLEAN
BY DEF Chunk

LEMMA BatchKept ==
  ASSUME NEW b, NEW S, NEW H, BatchOK(b, S, H), NEW r, NEW flag \in BOOLEAN
  PROVE  BatchOK(b, S \cup {r}, H) /\ BatchOK([b EXCEPT !.stop = flag], S \cup {r}, H)
<1>1. BatchOK(b, S \cup {r}, H)  BY DEF BatchOK
<1>2. PICK e : e = [b EXCEPT !.stop = flag]  OBVIOUS
<1>3. /\ e \in Batch /\ e.chunks = b.chunks /\ e.total = b.total /\ e.deadline = b.deadline
  BY <1>2 DEF BatchOK, Batch
<1>4. BatchOK(e, S \cup {r}, H)  BY <1>1, <1>3 DEF BatchOK
<1> QED  BY <1>1, <1>2, <1>4

LEMMA ChunkedAppend ==
  ASSUME PrefillTypes, NEW s, Chunked(s), NEW c \in Chunk,
         \A i \in 1 .. Len(s) : s[i].id # c.id,
         NextChunk(c)
  PROVE  Chunked(Append(s, c))
<1>1. s \in Seq(Chunk) /\ Len(s) \in Nat  BY DEF Chunked
<1>a. PICK n \in Nat : n = Len(s)  BY <1>1
<1>b. PICK t : t = Append(s, c)  OBVIOUS
<1>7. n = Len(s) /\ t = Append(s, c)  BY <1>a, <1>b
<1>2. /\ t \in Seq(Chunk) /\ Len(t) = n + 1 /\ t[n + 1] = c
      /\ \A i \in 1 .. n : t[i] = s[i]
  BY <1>1, <1>7
<1>3. \A i \in 1 .. n + 1 : i = n + 1 \/ i \in 1 .. n  OBVIOUS
<1>4. ASSUME NEW i \in 1 .. n + 1, NEW j \in 1 .. n + 1, t[i].id = t[j].id PROVE i = j
  <2>1. CASE i = n + 1 /\ j = n + 1  BY <2>1
  <2>2. CASE i = n + 1 /\ j \in 1 .. n  BY <1>2, <1>4, <1>7, <2>2
  <2>3. CASE i \in 1 .. n /\ j = n + 1  BY <1>2, <1>4, <1>7, <2>3
  <2>4. CASE i \in 1 .. n /\ j \in 1 .. n  BY <1>2, <1>7, <1>4, <2>4 DEF Chunked
  <2> QED  BY <1>3, <2>1, <2>2, <2>3, <2>4
<1>5. ASSUME NEW i \in 1 .. n + 1 PROVE NextChunk(t[i])
  <2>1. CASE i = n + 1  BY <1>2, <2>1
  <2>2. CASE i \in 1 .. n
    <3>1. t[i] = s[i] /\ NextChunk(s[i])  BY <1>2, <1>7, <2>2 DEF Chunked
    <3> QED  BY <3>1
  <2> QED  BY <1>3, <2>1, <2>2
<1>6. Chunked(t)  BY <1>2, <1>4, <1>5 DEF Chunked
<1> QED  BY <1>6, <1>7

(* One candidate keeps the batch in order.                                 *)
LEMMA AddStep ==
  ASSUME PrefillTypes, InLine, NEW pass \in BOOLEAN, NEW b, NEW H,
         NEW S \in SUBSET Queued, BatchOK(b, S, H), NEW r \in Queued, r \notin S, pass => r \in H
  PROVE  BatchOK(AddChunk(pass, b, r), S \cup {r}, H)
<1> DEFINE budget == ChunkTokens - b.total
           want == IF Remaining(r) < budget THEN Remaining(r) ELSE budget
           deadline == IF ~ pass /\ Deadline(r) < b.deadline
                         THEN Deadline(r) ELSE b.deadline
           c == [id |-> r, start |-> done[r], tokens |-> want,
                 completes |-> want = Remaining(r)]
           e == [chunks |-> Append(b.chunks, c), total |-> b.total + want,
                 deadline |-> deadline, stop |-> FALSE]
<1>1. r \in Submitted /\ r \in Req  BY DEF InLine
<1>2. /\ Deadline(r) \in Int /\ Deadline(r) < MaxNow /\ MaxNow \in Nat /\ Ttft \in Nat
      /\ ChunkTokens \in Nat
  BY <1>1, DeadlineFacts, PrefillAssumption
<1>3. NoBatch.deadline = MaxNow + Ttft  BY DEF NoBatch
<1>4. /\ b.chunks \in Seq(Chunk) /\ b.total \in Nat /\ b.deadline \in Int
      /\ b.stop \in BOOLEAN /\ b.total <= ChunkTokens /\ b.deadline <= NoBatch.deadline
  BY DEF BatchOK, Batch
<1>5. prompt[r] \in Nat /\ done[r] \in Nat /\ Remaining(r) \in Nat
      /\ Remaining(r) = prompt[r] - done[r]
  BY <1>1, RequestFacts DEF Remaining
<1>6. /\ want \in Nat /\ want <= Remaining(r) /\ b.total + want <= ChunkTokens
      /\ b.total + want \in Nat
  BY <1>2, <1>4, <1>5, SMTT(30)
<1>7. /\ deadline \in Int /\ deadline <= b.deadline
      /\ ~ pass => deadline <= Deadline(r) /\ deadline < NoBatch.deadline
  BY <1>2, <1>3, <1>4
<1>8. c \in Chunk /\ c.id = r /\ c.start = done[r] /\ c.tokens = want
      /\ c.completes = (want = Remaining(r))
  <2> HIDE DEF want
  <2> QED  BY <1>1, <1>5, <1>6 DEF Chunk
<1>9. CASE b.stop \/ Len(b.chunks) >= MaxSeqs \/ want = 0
  BY <1>9, BatchKept DEF AddChunk
<1>10. CASE /\ ~ (b.stop \/ Len(b.chunks) >= MaxSeqs \/ want = 0)
            /\ b.chunks # <<>> /\ deadline # NoBatch.deadline
            /\ Late(now, rate, b.total + want, deadline)
  <2>1. AddChunk(pass, b, r) = [b EXCEPT !.stop = pass]  BY <1>10 DEF AddChunk
  <2>2. BatchOK([b EXCEPT !.stop = pass], S \cup {r}, H)  BY BatchKept
  <2> QED  BY <2>1, <2>2
<1>11. CASE /\ ~ (b.stop \/ Len(b.chunks) >= MaxSeqs \/ want = 0)
            /\ ~ (/\ b.chunks # <<>> /\ deadline # NoBatch.deadline
                  /\ Late(now, rate, b.total + want, deadline))
  <2>1. AddChunk(pass, b, r) = e  BY <1>11 DEF AddChunk
  <2>13. Len(b.chunks) \in Nat  BY <1>4
  <2>14. PICK n \in Nat : n = Len(b.chunks)  BY <2>13
  <2>15. PICK s : s = b.chunks  OBVIOUS
  <2>16. PICK t : t = Append(s, c)  OBVIOUS
  <2>2. s = b.chunks /\ n = Len(s) /\ t = Append(s, c)  BY <2>14, <2>15, <2>16
  <2>3. e.chunks = t /\ e.total = b.total + want /\ e.deadline = deadline
    BY <2>2
  <2>4. ~ (b.chunks # <<>> /\ deadline < NoBatch.deadline
           /\ Late(now, rate, b.total + want, deadline))
    <3> HIDE DEF deadline, want
    <3> QED  BY <1>2, <1>3, <1>7, <1>11
  <2>5. want \in Nat /\ (want = Remaining(r) <=> done[r] + want = prompt[r])
        /\ done[r] + want <= prompt[r]
    <3> HIDE DEF want
    <3> QED  BY <1>5, <1>6
  <2> HIDE DEF want, deadline
  <2>6. e \in Batch
    <3>1. t \in Seq(Chunk)  BY <1>4, <1>8, <2>2
    <3> QED  BY <1>6, <1>7, <2>2, <3>1 DEF Batch
  <2> HIDE DEF c, e
  <2>7. Chunked(s) /\ \A i \in 1 .. n : s[i].id # c.id  BY <1>8, <2>2 DEF BatchOK
  <2>8. /\ Chunked(t) /\ Len(t) = n + 1 /\ t[n + 1] = c
        /\ \A i \in 1 .. n : t[i] = s[i]
    <3>1. NextChunk(c)  BY <1>8, <2>5 DEF NextChunk
    <3>2. c \in Chunk  BY <1>8
    <3>3. t = Append(s, c) /\ n = Len(s)  BY <2>2
    <3>4. Chunked(s) /\ \A i \in 1 .. Len(s) : s[i].id # c.id  BY <2>7, <3>3
    <3>5. PICK k : k = c  OBVIOUS
    <3>6. /\ k \in Chunk /\ NextChunk(k) /\ t = Append(s, k)
          /\ \A i \in 1 .. Len(s) : s[i].id # k.id
      BY <3>1, <3>2, <3>3, <3>4, <3>5
    <3>7. Chunked(Append(s, k))  BY <3>4, <3>6, ChunkedAppend
    <3>8. Len(t) = n + 1 /\ t[n + 1] = k /\ \A i \in 1 .. n : t[i] = s[i]
      BY <3>3, <3>4, <3>6 DEF Chunked
    <3> QED  BY <3>5, <3>6, <3>7, <3>8
  <2>9. ASSUME NEW i \in 1 .. n + 1
        PROVE  /\ t[i].id \in S \cup {r}
               /\ \/ t[i].id \in H
                  \/ deadline <= Deadline(t[i].id) /\ deadline < NoBatch.deadline
    <3>1. CASE i = n + 1  BY <1>7, <1>8, <2>8, <3>1
    <3>2. CASE i # n + 1
      <4>1. i \in 1 .. n /\ t[i] = s[i]  BY <2>8, <3>2
      <4>2. s[i].id \in S /\ s \in Seq(Chunk)  BY <2>2, <4>1 DEF BatchOK, Chunked
      <4>3. CASE s[i].id \in H  BY <4>1, <4>2, <4>3
      <4>4. CASE s[i].id \notin H
        <5>1. b.deadline <= Deadline(s[i].id) /\ b.deadline < NoBatch.deadline
          BY <2>2, <4>1, <4>4 DEF BatchOK
        <5>2. PICK x \in Int : x = Deadline(s[i].id)
          <6>1. s[i].id \in Submitted  BY <4>2 DEF InLine
          <6> QED  BY <6>1, DeadlineFacts
        <5>3. deadline <= x /\ deadline < NoBatch.deadline
          BY <1>2, <1>3, <1>4, <1>7, <5>1, <5>2
        <5> QED  BY <4>1, <4>2, <5>2, <5>3
      <4> QED  BY <4>3, <4>4
    <3> QED  BY <3>1, <3>2
  <2>10. n + 1 > 1 /\ deadline < NoBatch.deadline
           => ~ Late(now, rate, b.total + want, deadline)
    BY <2>2, <2>4
  <2>11. deadline <= NoBatch.deadline  BY <1>2, <1>3, <1>4, <1>7
  <2>12. BatchOK(e, S \cup {r}, H)
    BY <1>6, <2>3, <2>6, <2>8, <2>9, <2>10, <2>11 DEF BatchOK
  <2> QED  BY <2>1, <2>12
<1> QED  BY <1>9, <1>10, <1>11

(* A pass over candidates keeps the batch in order.                        *)
LEMMA PassOK ==
  ASSUME PrefillTypes, InLine, NEW pass \in BOOLEAN, NEW b, NEW H,
         NEW S \in SUBSET Queued, BatchOK(b, S, H),
         NEW ids \in Seq(Req), Once(ids), ToSet(ids) \subseteq Queued \ S,
         pass => ToSet(ids) \subseteq H
  PROVE  BatchOK(Pass(pass, b, ids), S \cup ToSet(ids), H)
<1>0. Len(ids) \in Nat  OBVIOUS
<1>1. PICK n \in Nat : n = Len(ids)  BY <1>0
<1>2. ToSet(ids) = {ids[i] : i \in 1 .. n}  BY <1>1 DEF ToSet
<1> DEFINE Prior(k) == S \cup {ids[i] : i \in 1 .. k}
           after[k \in 0 .. Len(ids)] ==
             IF k = 0 THEN b ELSE AddChunk(pass, after[k - 1], ids[k])
           G == [k \in 1 .. n |-> [d \in Batch |-> AddChunk(pass, d, ids[k])]]
           Valid(k) == {d \in Batch : BatchOK(d, Prior(k), H)}
           V == [k \in 0 .. n |-> Valid(k)]
<1>3. b \in Valid(0)
  <2>1. Prior(0) = S  OBVIOUS
  <2> QED  BY <2>1 DEF BatchOK
<1>4. ASSUME NEW k \in 1 .. n, NEW d \in Valid(k - 1)
      PROVE  AddChunk(pass, d, ids[k]) \in Valid(k)
  <2>1. PICK r \in Queued : r = ids[k]  BY <1>2
  <2>2. PICK P : P = Prior(k - 1)  OBVIOUS
  <2>3. P \in SUBSET Queued /\ r \notin P /\ Prior(k) = P \cup {r}
    <3>1. \A i \in 1 .. k - 1 : i \in 1 .. n /\ i # k  OBVIOUS
    <3>2. \A i \in 1 .. k - 1 : ids[i] \in Queued /\ ids[i] # r
      BY <1>1, <1>2, <2>1, <3>1 DEF Once
    <3>3. 1 .. k = (1 .. k - 1) \cup {k}  OBVIOUS
    <3>4. r \notin S  BY <1>2, <2>1
    <3> QED  BY <2>1, <2>2, <3>2, <3>3, <3>4
  <2>4. BatchOK(d, P, H)  BY <2>2
  <2>5. pass => r \in H  BY <1>2, <2>1
  <2>6. BatchOK(AddChunk(pass, d, r), P \cup {r}, H)
    BY <2>3, <2>4, <2>5, AddStep
  <2>7. AddChunk(pass, d, r) \in Batch  BY <2>6 DEF BatchOK
  <2> QED  BY <2>1, <2>3, <2>6, <2>7
<1>7. /\ \A k \in 0 .. n : V[k] \subseteq Batch
      /\ b \in V[0]
      /\ \A k \in 1 .. n : \A d \in V[k - 1] : G[k][d] \in V[k]
  <2>1. \A k \in 0 .. n : V[k] \subseteq Batch  OBVIOUS
  <2>2. b \in V[0]  BY <1>3
  <2>3. ASSUME NEW k \in 1 .. n, NEW d \in V[k - 1] PROVE G[k][d] \in V[k]
    <3>1. d \in Valid(k - 1) /\ d \in Batch  BY k - 1 \in 0 .. n
    <3>2. AddChunk(pass, d, ids[k]) \in Valid(k)
      <4> HIDE DEF Valid
      <4> QED  BY <1>4, <3>1
    <3> QED  BY <3>1, <3>2
  <2> QED  BY <2>1, <2>2, <2>3
<1>8. PICK g \in [0 .. n -> Batch] : Scans(g, b, n, G)
  <2> HIDE DEF G, V, after, Valid
  <2> QED  BY <1>7, ScanExists
<1>9. g[0] = b /\ \A k \in 1 .. n : g[k] = AddChunk(pass, g[k - 1], ids[k])
  <2>1. g[0] = b  BY <1>8 DEF Scans
  <2>2. ASSUME NEW k \in 1 .. n PROVE g[k] = AddChunk(pass, g[k - 1], ids[k])
    <3>1. g[k] = G[k][g[k - 1]]  BY <1>8 DEF Scans
    <3>2. g[k - 1] \in Batch  OBVIOUS
    <3> QED  BY <3>1, <3>2
  <2> QED  BY <2>1, <2>2
<1>10. g = [k \in 0 .. Len(ids) |->
              IF k = 0 THEN b ELSE AddChunk(pass, g[k - 1], ids[k])]
  BY <1>1, <1>9
<1>11. after = [k \in 0 .. Len(ids) |->
                  IF k = 0 THEN b ELSE AddChunk(pass, after[k - 1], ids[k])]
  BY <1>10
<1>12. Pass(pass, b, ids) = after[n]  BY <1>1 DEF Pass
<1> HIDE DEF after
<1>13. /\ after[0] = b
       /\ \A k \in 1 .. n : after[k] = AddChunk(pass, after[k - 1], ids[k])
  BY <1>1, <1>11
<1> DEFINE T == {k \in 0 .. n : after[k] \in Valid(k)}
<1> HIDE DEF Valid
<1>14. 0 \in T  BY <1>3, <1>13
<1>15. ASSUME NEW k \in 1 .. n, k - 1 \in T PROVE k \in T
  <2>1. PICK d \in Valid(k - 1) : d = after[k - 1]  BY <1>15
  <2>2. AddChunk(pass, d, ids[k]) \in Valid(k)  BY <1>4
  <2> QED  BY <1>13, <2>1, <2>2
<1>16. 0 .. n \subseteq T
  <2> HIDE DEF T
  <2> QED  BY <1>14, <1>15, SetInduction
<1>17. after[n] \in Valid(n)  BY <1>16
<1>18. BatchOK(after[n], Prior(n), H)  BY <1>17 DEF Valid
<1>19. Prior(n) = S \cup ToSet(ids)  BY <1>2
<1> QED  BY <1>12, <1>18, <1>19

(* The batch that plan() returns.                                          *)
LEMMA PlannedOK ==
  ASSUME PrefillTypes, InLine, NEW o, o = Ordering
  PROVE  /\ BatchOK(Planned(o), Queued, ToSet(HopelessOf(o)))
         /\ ToSet(HopelessOf(o)) \subseteq Queued
<1>1. PICK s, h, F, H : s = o.on_time /\ h = HopelessOf(o) /\ F = FALSE /\ H = ToSet(h)
  OBVIOUS
<1>2. /\ s \in Seq(Req) /\ Once(s) /\ o.demoted \in Seq(Req) /\ Once(o.demoted)
      /\ ToSet(s) \cap ToSet(o.demoted) = {}
      /\ ToSet(s) \cup ToSet(o.demoted) = Queued
  BY <1>1, OrderingFacts
<1>3. h \in Seq(Req) /\ Once(h) /\ ToSet(h) \subseteq Queued \ ToSet(s)
  <2>1. CASE DemoteHopeless  BY <1>1, <1>2, <2>1 DEF HopelessOf
  <2>2. CASE ~ DemoteHopeless
    <3>1. h = <<>>  BY <1>1, <2>2 DEF HopelessOf
    <3>2. Len(<<>>) = 0 /\ <<>> \in Seq(Req) /\ ToSet(<<>>) = {}  BY DEF ToSet
    <3> QED  BY <3>1, <3>2 DEF Once
  <2> QED  BY <2>1, <2>2
<1>4. PICK b, E : b = NoBatch /\ E = {}  OBVIOUS
<1>5. BatchOK(b, E, H)
  <2>1. /\ b.chunks = <<>> /\ b.total = 0 /\ b.deadline = MaxNow + Ttft
        /\ b.deadline = NoBatch.deadline /\ MaxNow + Ttft \in Int
        /\ ChunkTokens \in Nat
    BY <1>4, PrefillAssumption DEF NoBatch
  <2>2. <<>> \in Seq(Chunk) /\ Len(<<>>) = 0  OBVIOUS
  <2>3. b \in Batch  BY <1>4, <2>1, <2>2 DEF NoBatch, Batch
  <2> QED  BY <2>1, <2>2, <2>3 DEF BatchOK, Chunked
<1>6. E \in SUBSET Queued /\ ToSet(s) \subseteq Queued \ E  BY <1>2, <1>4
<1>7. F \in BOOLEAN /\ (F => ToSet(s) \subseteq H)  BY <1>1
<1>8. BatchOK(Pass(F, b, s), E \cup ToSet(s), H)  BY <1>2, <1>5, <1>6, <1>7, PassOK
<1>9. PICK d, T, W : d = Pass(F, b, s) /\ T = TRUE /\ W = ToSet(s)  OBVIOUS
<1>10. BatchOK(d, W, H) /\ W \in SUBSET Queued  BY <1>2, <1>4, <1>8, <1>9
<1>11. T \in BOOLEAN /\ (T => ToSet(h) \subseteq H)  BY <1>1, <1>9
<1>12. ToSet(h) \subseteq Queued \ W  BY <1>3, <1>9
<1>13. BatchOK(Pass(T, d, h), W \cup ToSet(h), H)  BY <1>3, <1>10, <1>11, <1>12, PassOK
<1>14. Planned(o) = Pass(T, d, h)  BY <1>1, <1>4, <1>9 DEF Planned
<1>15. BatchOK(Planned(o), Queued, H)
  <2>1. W \cup ToSet(h) \subseteq Queued  BY <1>10, <1>12
  <2> QED  BY <1>13, <1>14, <2>1 DEF BatchOK
<1> QED  BY <1>1, <1>12, <1>15

-------------------------------------------------------------------------------
(* The search for pages, after the first k chunks of a batch.              *)
Pages == [free : Nat, held : [Req -> Nat], work : Seq(Chunk), stop : BOOLEAN]

WithinPrompts(h) == \A r \in Req : h[r] <= BlocksFor(prompt[r])

PagesOK(acc, chunks, k) ==
  /\ acc \in Pages
  /\ acc.free + Sum(NumReq, acc.held) = pool /\ acc.free >= Reserve
  /\ \A r \in Req : acc.held[r] # held[r] => \E i \in 1 .. k : chunks[i].id = r
  /\ \A j \in 1 .. Len(acc.work) : \E i \in 1 .. k : acc.work[j] = chunks[i]
  /\ Ample /\ WithinPrompts(held)
       => /\ ~ acc.stop /\ WithinPrompts(acc.held)
          /\ Len(acc.work) = k /\ \A i \in 1 .. k : acc.work[i] = chunks[i]

(* With pages for every prompt there are pages for a chunk.                *)
LEMMA AmpleFor ==
  ASSUME PrefillTypes, Ample, NEW h \in [Req -> Nat], NEW f \in Nat,
         f + Sum(NumReq, h) = pool, WithinPrompts(h),
         NEW r \in Req, NEW x \in Nat, h[r] + x <= BlocksFor(prompt[r])
  PROVE  f >= x + Reserve /\ WithinPrompts([h EXCEPT ![r] = @ + x])
<1>1. PICK n \in Nat : n = NumReq /\ Req = 1 .. n  BY RequestFacts
<1>2. PICK most : most = [q \in Req |-> BlocksFor(prompt[q])]  OBVIOUS
<1>3. most \in [1 .. n -> Nat]  BY <1>1, <1>2, BlocksType, RequestFacts
<1>4. PICK g : g = [h EXCEPT ![r] = @ + x]  OBVIOUS
<1>5. h \in [1 .. n -> Nat] /\ r \in 1 .. n  BY <1>1
<1>14. g \in [1 .. n -> Nat] /\ g[r] = h[r] + x /\ \A i \in 1 .. n : i # r => g[i] = h[i]
  BY <1>4, <1>5
<1>6. g \in [1 .. n -> Nat] /\ Sum(n, g) = Sum(n, h) + x  BY <1>5, <1>14, SumAt
<1>7. \A q \in 1 .. n : g[q] <= most[q]
  <2> SUFFICES ASSUME NEW q \in 1 .. n PROVE g[q] <= most[q]  OBVIOUS
  <2>1. CASE q = r  BY <1>1, <1>2, <1>4, <1>5, <2>1
  <2>2. CASE q # r  BY <1>1, <1>2, <1>4, <1>5, <2>2 DEF WithinPrompts
  <2> QED  BY <2>1, <2>2
<1>8. Sum(n, g) <= Sum(n, most)  BY <1>3, <1>6, <1>7, SumGrows
<1>9. pool >= Reserve + Sum(n, most)  BY <1>1, <1>2 DEF Ample
<1>10. /\ Sum(n, h) \in Nat /\ Sum(n, g) \in Nat /\ Sum(n, most) \in Nat
       /\ pool \in Nat /\ Reserve \in Nat
  BY <1>3, <1>5, <1>6, SumFacts, RequestFacts
<1>11. f + Sum(n, h) = pool  BY <1>1
<1>12. f >= x + Reserve  BY <1>6, <1>8, <1>9, <1>10, <1>11
<1>13. WithinPrompts(g)  BY <1>1, <1>2, <1>7 DEF WithinPrompts
<1> QED  BY <1>4, <1>12, <1>13

(* A chunk needs no more pages than its prompt.                            *)
LEMMA BlocksWithin ==
  ASSUME PrefillTypes, NEW chunks, Chunked(chunks), NEW k \in 1 .. Len(chunks),
         NEW c \in Chunk, c = chunks[k]
  PROVE  BlocksFor(c.start + c.tokens) <= BlocksFor(prompt[c.id])
<1>1. c.start + c.tokens <= prompt[c.id]  BY DEF Chunked, NextChunk
<1>2. c.start + c.tokens \in Nat /\ prompt[c.id] \in Nat  BY ChunkFacts, RequestFacts
<1>3. PICK d \in Nat \ {0} : d = BlockSize  BY PrefillAssumption
<1>4. PICK x \in Nat, y \in Nat : x = c.start + c.tokens + d - 1 /\ y = prompt[c.id] + d - 1
  BY <1>2, c.start + c.tokens + d - 1 \in Nat, prompt[c.id] + d - 1 \in Nat
<1>5. x <= y  BY <1>1, <1>2, <1>4
<1>6. x \div d <= y \div d  BY <1>5, DivGrows
<1> QED  BY <1>3, <1>4, <1>6 DEF BlocksFor

LEMMA FindStep ==
  ASSUME PrefillTypes, NEW chunks, Chunked(chunks), NEW k \in 1 .. Len(chunks),
         NEW acc, PagesOK(acc, chunks, k - 1)
  PROVE  PagesOK(FindPages(acc, chunks[k]), chunks, k)
<1>1. PICK c \in Chunk : c = chunks[k]  BY DEF Chunked
<1>2. c.id \in Req /\ c.start \in Nat /\ c.tokens \in Nat /\ c.completes \in BOOLEAN
  BY <1>1, ChunkFacts
<1>3. PICK r \in Req : r = c.id  BY <1>2
<1>4. PICK n \in Nat : n = NumReq /\ Req = 1 .. n  BY RequestFacts
<1>5. /\ acc.free \in Nat /\ acc.held \in [Req -> Nat] /\ acc.work \in Seq(Chunk)
      /\ acc.stop \in BOOLEAN
  BY DEF PagesOK, Pages
<1>12. PICK end \in Nat : end = c.start + c.tokens  BY <1>2, c.start + c.tokens \in Nat
<1>13. BlocksFor(end) \in Nat  BY BlocksType
<1>6. PICK want \in Nat : want = BlocksFor(c.start + c.tokens)  BY <1>12, <1>13
<1>7. PICK have \in Nat : have = acc.held[r]  BY <1>5
<1>8. (IF want > have THEN want - have ELSE 0) \in Nat  OBVIOUS
<1>9. PICK extra \in Nat : extra = IF want > have THEN want - have ELSE 0  BY <1>8
<1>10. CASE acc.stop \/ (extra > 0 /\ acc.free < extra + Reserve)
  <2>1. PICK e : e = [acc EXCEPT !.stop = TRUE]  OBVIOUS
  <2>2. FindPages(acc, c) = e
    BY <1>3, <1>6, <1>7, <1>9, <1>10, <2>1 DEF FindPages
  <2>3. e \in Pages /\ e.free = acc.free /\ e.held = acc.held /\ e.work = acc.work
    BY <2>1 DEF PagesOK, Pages
  <2>4. ~ (Ample /\ WithinPrompts(held))
    <3> SUFFICES ASSUME Ample, WithinPrompts(held) PROVE FALSE  OBVIOUS
    <3>1. ~ acc.stop /\ WithinPrompts(acc.held)  BY DEF PagesOK
    <3>2. extra > 0 /\ acc.free < extra + Reserve  BY <1>10, <3>1
    <3>3. have + extra = want  BY <1>9, <3>2
    <3>4. want <= BlocksFor(prompt[r])  BY <1>1, <1>3, <1>6, BlocksWithin
    <3>5. PICK f \in Nat, h \in [Req -> Nat] : f = acc.free /\ h = acc.held  BY <1>5
    <3>6. f + Sum(NumReq, h) = pool /\ WithinPrompts(h) /\ h[r] + extra <= BlocksFor(prompt[r])
      BY <1>7, <3>1, <3>3, <3>4, <3>5 DEF PagesOK
    <3>7. f >= extra + Reserve  BY <3>6, AmpleFor
    <3>8. Reserve \in Nat  BY PrefillAssumption
    <3> QED  BY <3>2, <3>5, <3>7, <3>8
  <2>5. \A i \in 1 .. k - 1 : i \in 1 .. k  OBVIOUS
  <2>6. PagesOK(e, chunks, k)  BY <2>3, <2>4, <2>5 DEF PagesOK
  <2> QED  BY <1>1, <2>2, <2>6
<1>11. CASE ~ (acc.stop \/ (extra > 0 /\ acc.free < extra + Reserve))
  <2>1. PICK e : e = [acc EXCEPT !.free = @ - extra, !.held[r] = @ + extra,
                                 !.work = Append(@, c)]
    OBVIOUS
  <2>2. FindPages(acc, c) = e
    BY <1>3, <1>6, <1>7, <1>9, <1>11, <2>1 DEF FindPages
  <2>3. /\ e.free = acc.free - extra /\ e.held = [acc.held EXCEPT ![r] = @ + extra]
        /\ e.work = Append(acc.work, c) /\ e.stop = acc.stop
        /\ e = [free |-> e.free, held |-> e.held, work |-> e.work, stop |-> e.stop]
    BY <2>1 DEF PagesOK, Pages
  <2>19. Reserve \in Nat  BY PrefillAssumption
  <2>4. Reserve \in Nat /\ acc.free >= Reserve  BY <2>19 DEF PagesOK
  <2>5. e.free \in Nat /\ e.free >= Reserve
    <3>1. PICK a \in Nat : a = acc.free  BY <1>5
    <3>2. a >= Reserve /\ (extra = 0 \/ ~ (a < extra + Reserve))  BY <1>11, <2>4, <3>1
    <3>3. a - extra \in Nat /\ a - extra >= Reserve  BY <2>19, <3>2
    <3> QED  BY <2>3, <3>1, <3>3
  <2>6. acc.held \in [1 .. n -> Nat] /\ r \in 1 .. n  BY <1>4, <1>5
  <2>7. PICK h, f : h = acc.held /\ f = e.held  OBVIOUS
  <2>18. /\ f \in [1 .. n -> Nat] /\ h \in [1 .. n -> Nat] /\ f[r] = h[r] + extra
         /\ \A i \in 1 .. n : i # r => f[i] = h[i]
    <3>1. f = [h EXCEPT ![r] = @ + extra] /\ h \in [1 .. n -> Nat] /\ r \in 1 .. n
      BY <2>3, <2>6, <2>7
    <3>2. h[r] \in Nat  BY <3>1
    <3>3. f[r] = h[r] + extra /\ \A i \in 1 .. n : i # r => f[i] = h[i]  BY <3>1
    <3>4. f \in [1 .. n -> Nat]  BY <3>1, <3>2
    <3> QED  BY <3>1, <3>3, <3>4
  <2>8. f \in [1 .. n -> Nat] /\ Sum(n, f) = Sum(n, h) + extra
    BY <2>6, <2>18, SumAt
  <2>9. e.free + Sum(NumReq, e.held) = pool
    <3>1. acc.free + Sum(n, h) = pool /\ Sum(n, h) \in Nat
      BY <1>4, <2>6, <2>7, SumFacts DEF PagesOK
    <3> QED  BY <1>4, <1>5, <2>3, <2>7, <2>8, <3>1
  <2>10. \A q \in Req : e.held[q] # held[q] => \E i \in 1 .. k : chunks[i].id = q
    <3> SUFFICES ASSUME NEW q \in Req, e.held[q] # held[q]
                 PROVE  \E i \in 1 .. k : chunks[i].id = q
      OBVIOUS
    <3>1. CASE q = r
      <4>1. k \in 1 .. k  OBVIOUS
      <4> QED  BY <1>1, <1>3, <3>1, <4>1
    <3>2. CASE q # r
      <4>1. acc.held[q] # held[q]  BY <1>5, <2>3, <3>2
      <4>2. PICK i \in 1 .. k - 1 : chunks[i].id = q  BY <4>1 DEF PagesOK
      <4> QED  BY <4>2, i \in 1 .. k
    <3> QED  BY <3>1, <3>2
  <2>11. PICK s, t : s = acc.work /\ t = e.work  OBVIOUS
  <2>12. PICK m \in Nat : m = Len(s)  BY <1>5, <2>11
  <2>13. /\ t \in Seq(Chunk) /\ Len(t) = m + 1 /\ t[m + 1] = c
         /\ \A j \in 1 .. m : t[j] = s[j]
    BY <1>5, <2>3, <2>11, <2>12
  <2>14. \A j \in 1 .. m + 1 : \E i \in 1 .. k : t[j] = chunks[i]
    <3> SUFFICES ASSUME NEW j \in 1 .. m + 1 PROVE \E i \in 1 .. k : t[j] = chunks[i]
      OBVIOUS
    <3>1. CASE j = m + 1  BY <1>1, <2>13, <3>1, k \in 1 .. k
    <3>2. CASE j # m + 1
      <4>1. j \in 1 .. m  BY <3>2
      <4>2. PICK i \in 1 .. k - 1 : s[j] = chunks[i]  BY <2>11, <2>12, <4>1 DEF PagesOK
      <4> QED  BY <2>13, <4>1, <4>2, i \in 1 .. k
    <3> QED  BY <3>1, <3>2
  <2>15. ASSUME Ample, WithinPrompts(held)
         PROVE  /\ ~ e.stop /\ WithinPrompts(e.held)
                /\ m + 1 = k /\ \A i \in 1 .. k : t[i] = chunks[i]
    <3>1. /\ ~ acc.stop /\ WithinPrompts(h) /\ m = k - 1
          /\ \A i \in 1 .. k - 1 : s[i] = chunks[i]
      BY <2>7, <2>11, <2>12, <2>15 DEF PagesOK
    <3>2. WithinPrompts(e.held)
      <4>1. CASE extra = 0
        <5>1. \A q \in 1 .. n : f[q] = h[q]  BY <2>18, <4>1
        <5> QED  BY <1>4, <2>7, <3>1, <5>1 DEF WithinPrompts
      <4>2. CASE extra # 0
        <5>1. have + extra = want  BY <1>9, <4>2
        <5>2. want <= BlocksFor(prompt[r])  BY <1>1, <1>3, <1>6, BlocksWithin
        <5>3. PICK a \in Nat : a = acc.free  BY <1>5
        <5>4. /\ h \in [Req -> Nat] /\ a + Sum(NumReq, h) = pool
              /\ h[r] + extra <= BlocksFor(prompt[r])
          BY <1>5, <1>7, <2>7, <5>1, <5>2, <5>3 DEF PagesOK
        <5>5. WithinPrompts([h EXCEPT ![r] = @ + extra])
          BY <2>15, <3>1, <5>4, AmpleFor
        <5> QED  BY <2>3, <2>7, <5>5
      <4> QED  BY <4>1, <4>2
    <3>3. ASSUME NEW i \in 1 .. k PROVE t[i] = chunks[i]
      <4>1. CASE i = k  BY <1>1, <2>13, <3>1, <4>1
      <4>2. CASE i # k
        <5>1. i \in 1 .. k - 1  BY <4>2
        <5> QED  BY <2>13, <3>1, <5>1
      <4> QED  BY <4>1, <4>2
    <3> QED  BY <2>3, <3>1, <3>2, <3>3
  <2>16. e \in Pages  BY <1>4, <1>5, <2>3, <2>5, <2>7, <2>8, <2>11, <2>13 DEF Pages
  <2>17. PagesOK(e, chunks, k)
    BY <2>5, <2>9, <2>10, <2>11, <2>13, <2>14, <2>15, <2>16 DEF PagesOK
  <2> QED  BY <1>1, <2>2, <2>17
<1> QED  BY <1>10, <1>11

LEMMA FoundOK ==
  ASSUME PrefillTypes, free + Sum(NumReq, held) = pool, free >= Reserve,
         NEW chunks, Chunked(chunks)
  PROVE  PagesOK(Found(chunks), chunks, Len(chunks))
<1>0. Len(chunks) \in Nat  BY DEF Chunked
<1>1. PICK n \in Nat : n = Len(chunks)  BY <1>0
<1> DEFINE b == [free |-> free, held |-> held, work |-> <<>>, stop |-> FALSE]
           after[k \in 0 .. Len(chunks)] ==
             IF k = 0 THEN b ELSE FindPages(after[k - 1], chunks[k])
           G == [k \in 1 .. n |-> [d \in Pages |-> FindPages(d, chunks[k])]]
           Valid(k) == {d \in Pages : PagesOK(d, chunks, k)}
           V == [k \in 0 .. n |-> Valid(k)]
<1>3. b \in Valid(0)
  <2>1. <<>> \in Seq(Chunk) /\ Len(<<>>) = 0  OBVIOUS
  <2>2. b \in Pages  BY <2>1 DEF Pages, PrefillTypes
  <2>3. b.free = free /\ b.held = held /\ b.work = <<>> /\ b.stop = FALSE  OBVIOUS
  <2> HIDE DEF b
  <2>4. PagesOK(b, chunks, 0)  BY <2>1, <2>2, <2>3 DEF PagesOK
  <2> QED  BY <2>2, <2>4
<1> HIDE DEF b
<1>4. ASSUME NEW k \in 1 .. n, NEW d \in Valid(k - 1)
      PROVE  FindPages(d, chunks[k]) \in Valid(k)
  <2>1. k \in 1 .. Len(chunks) /\ PagesOK(d, chunks, k - 1)  BY <1>1
  <2>2. PagesOK(FindPages(d, chunks[k]), chunks, k)  BY <2>1, FindStep
  <2> QED  BY <2>2 DEF PagesOK
<1>7. /\ \A k \in 0 .. n : V[k] \subseteq Pages
      /\ b \in V[0]
      /\ \A k \in 1 .. n : \A d \in V[k - 1] : G[k][d] \in V[k]
  <2>1. \A k \in 0 .. n : V[k] \subseteq Pages  OBVIOUS
  <2>2. b \in V[0]  BY <1>3
  <2>3. ASSUME NEW k \in 1 .. n, NEW d \in V[k - 1] PROVE G[k][d] \in V[k]
    <3>1. d \in Valid(k - 1) /\ d \in Pages  BY k - 1 \in 0 .. n
    <3>2. FindPages(d, chunks[k]) \in Valid(k)
      <4> HIDE DEF Valid
      <4> QED  BY <1>4, <3>1
    <3> QED  BY <3>1, <3>2
  <2> QED  BY <2>1, <2>2, <2>3
<1>8. PICK g \in [0 .. n -> Pages] : Scans(g, b, n, G)
  <2> HIDE DEF G, V, after, Valid
  <2> QED  BY <1>7, ScanExists
<1>9. g[0] = b /\ \A k \in 1 .. n : g[k] = FindPages(g[k - 1], chunks[k])
  <2>1. g[0] = b  BY <1>8 DEF Scans
  <2>2. ASSUME NEW k \in 1 .. n PROVE g[k] = FindPages(g[k - 1], chunks[k])
    <3>1. g[k] = G[k][g[k - 1]]  BY <1>8 DEF Scans
    <3>2. g[k - 1] \in Pages  OBVIOUS
    <3> QED  BY <3>1, <3>2
  <2> QED  BY <2>1, <2>2
<1>10. g = [k \in 0 .. Len(chunks) |->
              IF k = 0 THEN b ELSE FindPages(g[k - 1], chunks[k])]
  BY <1>1, <1>9
<1>11. after = [k \in 0 .. Len(chunks) |->
                  IF k = 0 THEN b ELSE FindPages(after[k - 1], chunks[k])]
  BY <1>10
<1>12. Found(chunks) = after[n]  BY <1>1 DEF Found, b
<1> HIDE DEF after
<1>13. /\ after[0] = b
       /\ \A k \in 1 .. n : after[k] = FindPages(after[k - 1], chunks[k])
  BY <1>1, <1>11
<1> DEFINE T == {k \in 0 .. n : after[k] \in Valid(k)}
<1> HIDE DEF Valid
<1>14. 0 \in T  BY <1>3, <1>13
<1>15. ASSUME NEW k \in 1 .. n, k - 1 \in T PROVE k \in T
  <2>1. PICK d \in Valid(k - 1) : d = after[k - 1]  BY <1>15
  <2>2. FindPages(d, chunks[k]) \in Valid(k)  BY <1>4
  <2> QED  BY <1>13, <2>1, <2>2
<1>16. 0 .. n \subseteq T
  <2> HIDE DEF T
  <2> QED  BY <1>14, <1>15, SetInduction
<1>17. after[n] \in Valid(n)  BY <1>16
<1>18. PagesOK(after[n], chunks, n)  BY <1>17 DEF Valid
<1> QED  BY <1>1, <1>12, <1>18

AppendOnce(s, x) ==
  /\ Append(s, x) \in Seq(Req) /\ Once(Append(s, x))
  /\ ToSet(Append(s, x)) = ToSet(s) \cup {x}

LEMMA AppendOnceFacts ==
  ASSUME NEW s \in Seq(Req), Once(s), NEW x \in Req, x \notin ToSet(s)
  PROVE  AppendOnce(s, x)
<1>0. Len(s) \in Nat /\ DOMAIN s = 1 .. Len(s)  OBVIOUS
<1>a. PICK n \in Nat : n = Len(s)  BY <1>0
<1>b. PICK t : t = Append(s, x)  OBVIOUS
<1>1. n = Len(s) /\ t = Append(s, x)  BY <1>a, <1>b
<1>2. /\ t \in Seq(Req) /\ Len(t) = n + 1 /\ t[n + 1] = x
      /\ \A i \in 1 .. n : t[i] = s[i]
  BY <1>1
<1>3. ToSet(s) = {s[i] : i \in 1 .. n}  BY <1>0, <1>1 DEF ToSet
<1>4. ToSet(t) = {t[i] : i \in 1 .. n + 1}  BY <1>2 DEF ToSet
<1>5. \A i \in 1 .. n + 1 : i = n + 1 \/ i \in 1 .. n  OBVIOUS
<1>6. n + 1 \in 1 .. n + 1 /\ \A i \in 1 .. n : i \in 1 .. n + 1  OBVIOUS
<1>7. ToSet(t) = ToSet(s) \cup {x}
  <2>1. \A i \in 1 .. n + 1 : t[i] \in ToSet(s) \cup {x}  BY <1>2, <1>3, <1>5
  <2>2. x \in ToSet(t) /\ \A i \in 1 .. n : s[i] \in ToSet(t)  BY <1>2, <1>4, <1>6
  <2> QED  BY <1>3, <1>4, <2>1, <2>2
<1>8. ASSUME NEW i \in 1 .. n + 1, NEW j \in 1 .. n + 1, t[i] = t[j] PROVE i = j
  <2>1. \A k \in 1 .. n : t[k] # x  BY <1>2, <1>3
  <2>2. CASE i = n + 1 \/ j = n + 1  BY <1>2, <1>5, <1>8, <2>1, <2>2
  <2>3. CASE i \in 1 .. n /\ j \in 1 .. n  BY <1>1, <1>2, <1>8, <2>3 DEF Once
  <2> QED  BY <1>5, <2>2, <2>3
<1>9. Once(t)  BY <1>2, <1>8 DEF Once
<1> QED  BY <1>1, <1>2, <1>7, <1>9 DEF AppendOnce

(* What is left of a queue when some have left it.                         *)
LEMMA WithoutOK ==
  ASSUME NEW s \in Seq(Req), Once(s), NEW S
  PROVE  Without(s, S) \in Seq(Req) /\ Once(Without(s, S)) /\ ToSet(Without(s, S)) = ToSet(s) \ S
<1>0. Len(s) \in Nat /\ DOMAIN s = 1 .. Len(s) /\ \A i \in 1 .. Len(s) : s[i] \in Req
  OBVIOUS
<1>1. PICK n \in Nat : n = Len(s)  BY <1>0
<1> DEFINE b == <<>>
           Turn(d, k) == IF s[k] \in S THEN d ELSE Append(d, s[k])
           kept[k \in 0 .. Len(s)] ==
             IF k = 0 THEN b ELSE Turn(kept[k - 1], k)
           G == [k \in 1 .. n |-> [d \in Seq(Req) |-> Turn(d, k)]]
           Valid(k) == {d \in Seq(Req) : Once(d) /\ ToSet(d) = {s[i] : i \in 1 .. k} \ S}
           V == [k \in 0 .. n |-> Valid(k)]
<1>3. b \in Valid(0)
  <2>1. <<>> \in Seq(Req) /\ Len(<<>>) = 0 /\ ToSet(<<>>) = {}  BY DEF ToSet
  <2>2. Once(<<>>)  BY <2>1 DEF Once
  <2> QED  BY <2>1, <2>2
<1> HIDE DEF b
<1>4. ASSUME NEW k \in 1 .. n, NEW d \in Valid(k - 1)
      PROVE  Turn(d, k) \in Valid(k)
  <2>1. d \in Seq(Req) /\ Once(d) /\ ToSet(d) = {s[i] : i \in 1 .. k - 1} \ S  OBVIOUS
  <2>2. PICK x \in Req : x = s[k]  BY <1>0, <1>1
  <2>3. 1 .. k = (1 .. k - 1) \cup {k}  OBVIOUS
  <2>4. {s[i] : i \in 1 .. k} = {s[i] : i \in 1 .. k - 1} \cup {x}  BY <2>2, <2>3
  <2>5. x \notin {s[i] : i \in 1 .. k - 1}
    <3>1. \A i \in 1 .. k - 1 : i \in 1 .. n /\ i # k  OBVIOUS
    <3> QED  BY <1>1, <2>2, <3>1 DEF Once
  <2>6. CASE x \in S  BY <2>1, <2>2, <2>4, <2>6
  <2>7. CASE x \notin S
    <3>1. AppendOnce(d, x)  BY <2>1, <2>5, AppendOnceFacts
    <3> QED  BY <2>1, <2>2, <2>4, <2>7, <3>1 DEF AppendOnce
  <2> QED  BY <2>6, <2>7
<1>7. /\ \A k \in 0 .. n : V[k] \subseteq Seq(Req)
      /\ b \in V[0]
      /\ \A k \in 1 .. n : \A d \in V[k - 1] : G[k][d] \in V[k]
  <2> HIDE DEF Turn
  <2>1. \A k \in 0 .. n : V[k] \subseteq Seq(Req)  OBVIOUS
  <2>2. b \in V[0]  BY <1>3
  <2>3. ASSUME NEW k \in 1 .. n, NEW d \in V[k - 1] PROVE G[k][d] \in V[k]
    <3>1. d \in Valid(k - 1) /\ d \in Seq(Req)  BY k - 1 \in 0 .. n
    <3>2. Turn(d, k) \in Valid(k)
      <4> HIDE DEF Valid
      <4> QED  BY <1>4, <3>1
    <3> QED  BY <3>1, <3>2
  <2> QED  BY <2>1, <2>2, <2>3
<1>8. PICK g \in [0 .. n -> Seq(Req)] : Scans(g, b, n, G)
  <2> HIDE DEF G, V, kept, Valid
  <2> QED  BY <1>7, ScanExists
<1>9. g[0] = b /\ \A k \in 1 .. n : g[k] = Turn(g[k - 1], k)
  <2> HIDE DEF Turn
  <2>1. g[0] = b  BY <1>8 DEF Scans
  <2>2. ASSUME NEW k \in 1 .. n PROVE g[k] = Turn(g[k - 1], k)
    <3>1. g[k] = G[k][g[k - 1]]  BY <1>8 DEF Scans
    <3>2. g[k - 1] \in Seq(Req)  OBVIOUS
    <3> QED  BY <3>1, <3>2
  <2> QED  BY <2>1, <2>2
<1>10. g = [k \in 0 .. Len(s) |-> IF k = 0 THEN b ELSE Turn(g[k - 1], k)]
  <2> HIDE DEF Turn
  <2> QED  BY <1>1, <1>9
<1>11. kept = [k \in 0 .. Len(s) |-> IF k = 0 THEN b ELSE Turn(kept[k - 1], k)]
  <2> HIDE DEF Turn
  <2> QED  BY <1>10
<1>12. Without(s, S) = kept[n]  BY <1>1 DEF Without, b
<1> HIDE DEF kept, Turn
<1>20. kept[0] = b  BY <1>1, <1>11
<1>21. ASSUME NEW k \in 1 .. n PROVE kept[k] = Turn(kept[k - 1], k)
  <2>1. k \in 0 .. Len(s) /\ k # 0  BY <1>1
  <2> QED  BY <1>11, <2>1
<1>13. kept[0] = b /\ \A k \in 1 .. n : kept[k] = Turn(kept[k - 1], k)
  BY <1>20, <1>21
<1> DEFINE T == {k \in 0 .. n : kept[k] \in Valid(k)}
<1> HIDE DEF Valid
<1>14. 0 \in T  BY <1>3, <1>13
<1>15. ASSUME NEW k \in 1 .. n, k - 1 \in T PROVE k \in T
  <2>1. PICK d \in Valid(k - 1) : d = kept[k - 1]  BY <1>15
  <2>2. Turn(d, k) \in Valid(k)  BY <1>4
  <2> QED  BY <1>13, <2>1, <2>2
<1>16. 0 .. n \subseteq T
  <2> HIDE DEF T
  <2> QED  BY <1>14, <1>15, SetInduction
<1>17. kept[n] \in Valid(n)  BY <1>16
<1>18. kept[n] \in Seq(Req) /\ Once(kept[n]) /\ ToSet(kept[n]) = {s[i] : i \in 1 .. n} \ S
  BY <1>17 DEF Valid
<1>19. ToSet(s) = {s[i] : i \in 1 .. n}  BY <1>0, <1>1 DEF ToSet
<1> QED  BY <1>12, <1>18, <1>19

(* The batch at the engine continues queued prompts where they stand, and  *)
(* the engine was given chunks of it.                                      *)
BatchFits ==
  /\ Chunked(batch.chunks) /\ \A i \in 1 .. Len(batch.chunks) : batch.chunks[i].id \in Queued
  /\ work \in Seq(Chunk)
  /\ \A j \in 1 .. Len(work) : \E i \in 1 .. Len(batch.chunks) : work[j] = batch.chunks[i]

(* With pages for every prompt the engine is given the whole batch, so     *)
(* what is booked was computed and nobody leaves unserved.                 *)
AllComputed == \A r \in Req : computed[r] = 0 .. done[r] - 1
AllGiven ==
  Len(work) = Len(batch.chunks) /\ \A i \in 1 .. Len(work) : work[i] = batch.chunks[i]
AllServed == Submitted \subseteq Queued \cup ToSet(jobs) \cup sent
ServedWhenAmple ==
  Ample /\ pc # "stopped" => WithinPrompts(held) /\ AllComputed /\ AllGiven /\ AllServed

PrefillInv == PrefillTypes /\ InLine /\ BatchFits /\ PagesBalanced /\ ServedWhenAmple

LEMMA NothingBatched ==
  ASSUME batch' = NoBatch, work' = <<>>
  PROVE  BatchFits' /\ AllGiven'
<1>1. batch'.chunks = <<>>  BY DEF NoBatch
<1>2. <<>> \in Seq(Chunk) /\ Len(<<>>) = 0  OBVIOUS
<1>3. Chunked(batch.chunks)'  BY <1>1, <1>2 DEF Chunked
<1>4. BatchFits'  BY <1>1, <1>2, <1>3 DEF BatchFits
<1>5. AllGiven'  BY <1>1, <1>2 DEF AllGiven
<1> QED  BY <1>4, <1>5

LEMMA PrefillInitHolds == PrefillInit => PrefillInv
<1> SUFFICES ASSUME PrefillInit PROVE PrefillInv  OBVIOUS
<1>1. prompt \in [Req -> Nat] /\ NumReq \in Nat /\ MaxNow \in Nat /\ pool \in Nat
      /\ Reserve \in Nat /\ Reserve <= pool
  BY PrefillAssumption DEF PrefillInit
<1>2. PrefillTypes
  <2>1. \A r \in Req : prompt[r] \in Nat /\ 0 <= prompt[r]  BY <1>1
  <2> QED  BY <1>1, <2>1 DEF PrefillInit, PrefillTypes
<1>3. <<>> \in Seq(Req) /\ <<>> \in Seq(Chunk) /\ Len(<<>>) = 0 /\ ToSet(<<>>) = {}
  BY DEF ToSet
<1>4. InLine
  <2>1. Submitted = {} /\ arrival \in [{} -> Nat]  BY DEF PrefillInit, Submitted
  <2>2. Queued = {}  BY <1>3 DEF PrefillInit, Queued
  <2> QED  BY <1>3, <2>1, <2>2 DEF PrefillInit, InLine, Once
<1>5. batch.chunks = <<>> /\ work = <<>>  BY DEF PrefillInit, NoBatch
<1>6. BatchFits  BY <1>3, <1>5 DEF BatchFits, Chunked
<1>7. PagesBalanced
  <2>1. PICK n \in Nat : n = NumReq /\ Req = 1 .. n  BY <1>1 DEF Req
  <2>2. held \in [1 .. n -> Nat] /\ \A r \in 1 .. n : held[r] = 0  BY <2>1 DEF PrefillInit
  <2>3. PICK h : h = held  OBVIOUS
  <2>4. Sum(n, h) = 0  BY <2>2, <2>3, SumFacts
  <2> QED  BY <1>1, <2>1, <2>2, <2>3, <2>4 DEF PrefillInit, PagesBalanced
<1>8. ServedWhenAmple
  <2>1. WithinPrompts(held)
    <3>1. \A r \in Req : BlocksFor(prompt[r]) \in Nat  BY <1>1, BlocksType
    <3>2. \A r \in Req : held[r] = 0  BY DEF PrefillInit
    <3> QED  BY <3>1, <3>2 DEF WithinPrompts
  <2>2. AllComputed  BY DEF AllComputed, PrefillInit
  <2>3. AllGiven  BY <1>3, <1>5 DEF AllGiven
  <2>4. AllServed  BY DEF AllServed, PrefillInit, Submitted
  <2> QED  BY <2>1, <2>2, <2>3, <2>4 DEF ServedWhenAmple
<1> QED  BY <1>2, <1>4, <1>6, <1>7, <1>8 DEF PrefillInv

(* What pages for every prompt means does not change.                      *)
LEMMA AmpleFixed ==
  ASSUME UNCHANGED fixed
  PROVE  Ample' = Ample
BY DEF Ample, fixed

LEMMA TickKeeps ==
  ASSUME PrefillInv, Tick
  PROVE  PrefillInv'
<1>1. PrefillTypes'
  <2>1. now' \in 0 .. MaxNow  BY PrefillAssumption DEF PrefillInv, PrefillTypes, Tick
  <2> QED  BY <2>1 DEF PrefillInv, PrefillTypes, Tick, fixed, sched, kv
<1>2. InLine'  BY DEF PrefillInv, InLine, Queued, Submitted, Tick, sched
<1>3. BatchFits'
  BY DEF PrefillInv, BatchFits, Chunked, NextChunk, Queued, Tick, sched, fixed
<1>4. PagesBalanced'  BY DEF PrefillInv, PagesBalanced, Queued, Tick, sched, kv, fixed
<1>5. ServedWhenAmple'
  <2>1. Ample' = Ample  BY AmpleFixed DEF Tick
  <2> QED  BY <2>1 DEF PrefillInv, ServedWhenAmple, WithinPrompts, AllComputed, AllGiven,
                       AllServed, Queued, Submitted, Tick, sched, kv, fixed
<1> QED  BY <1>1, <1>2, <1>3, <1>4, <1>5 DEF PrefillInv

LEMMA SubmitKeeps ==
  ASSUME PrefillInv, NEW r \in Req, Submit(r)
  PROVE  PrefillInv'
<1>1. PrefillTypes'  BY DEF PrefillInv, PrefillTypes, Submit, fixed, sched, kv
<1>2. Submitted' = Submitted \cup {r}  BY DEF Submit, Submitted
<1>3. AppendOnce(jobs, r)
  <2>1. r \notin ToSet(jobs)  BY DEF PrefillInv, InLine, Submit
  <2>2. PICK s \in Seq(Req) : s = jobs  BY DEF PrefillInv, InLine
  <2>3. Once(s) /\ r \notin ToSet(s)  BY <2>1, <2>2 DEF PrefillInv, InLine
  <2>4. AppendOnce(s, r)  BY <2>3, AppendOnceFacts
  <2> QED  BY <2>2, <2>4
<1>4. InLine'
  <2>1. jobs' \in Seq(Req) /\ Once(jobs') /\ ToSet(jobs') = ToSet(jobs) \cup {r}
    BY <1>3 DEF AppendOnce, Submit
  <2>2. order' = order /\ Queued' = Queued /\ demoted' = demoted
    BY DEF Submit, sched, Queued
  <2>3. r \notin Queued  BY DEF PrefillInv, InLine, Submit
  <2>4. now \in Nat  BY RequestFacts DEF PrefillInv, ClockOK
  <2>5. arrival' \in [Submitted' -> Nat]
    BY <1>2, <2>4 DEF PrefillInv, InLine, Submit
  <2>6. \A q \in Submitted' : arrival'[q] + Ttft < MaxNow
    BY <1>2 DEF PrefillInv, InLine, Submit
  <2> QED  BY <1>2, <2>1, <2>2, <2>3, <2>5, <2>6 DEF PrefillInv, InLine
<1>5. BatchFits'
  BY DEF PrefillInv, BatchFits, Chunked, NextChunk, Queued, Submit, sched, fixed
<1>6. PagesBalanced'  BY DEF PrefillInv, PagesBalanced, Queued, Submit, sched, kv, fixed
<1>7. ServedWhenAmple'
  <2>1. Ample' = Ample  BY AmpleFixed DEF Submit
  <2>2. ToSet(jobs') = ToSet(jobs) \cup {r}  BY <1>3 DEF AppendOnce, Submit
  <2>3. AllServed => AllServed'
    BY <1>2, <2>2 DEF AllServed, Queued, Submit, sched
  <2> QED  BY <2>1, <2>3 DEF PrefillInv, ServedWhenAmple, WithinPrompts, AllComputed,
                       AllGiven, Submit, sched, kv, fixed
<1> QED  BY <1>1, <1>4, <1>5, <1>6, <1>7 DEF PrefillInv

LEMMA ConcatOnce ==
  ASSUME NEW s \in Seq(Req), NEW t \in Seq(Req), Once(s), Once(t),
         ToSet(s) \cap ToSet(t) = {}
  PROVE  s \o t \in Seq(Req) /\ Once(s \o t) /\ ToSet(s \o t) = ToSet(s) \cup ToSet(t)
<1>0. Len(s) \in Nat /\ Len(t) \in Nat  OBVIOUS
<1>a. PICK m \in Nat, n \in Nat : m = Len(s) /\ n = Len(t)  BY <1>0
<1>b. PICK z : z = s \o t  OBVIOUS
<1>1. m = Len(s) /\ n = Len(t) /\ z = s \o t  BY <1>a, <1>b
<1>2. /\ z \in Seq(Req) /\ Len(z) = m + n
      /\ \A i \in 1 .. m + n : z[i] = IF i <= m THEN s[i] ELSE t[i - m]
  BY <1>1, ConcatProperties
<1>8. DOMAIN s = 1 .. m /\ DOMAIN t = 1 .. n  BY <1>1
<1>3. ToSet(s) = {s[i] : i \in 1 .. m} /\ ToSet(t) = {t[i] : i \in 1 .. n}
  BY <1>8 DEF ToSet
<1>4. \A i \in 1 .. m, j \in 1 .. n : s[i] # t[j]  BY <1>3
<1>5. ASSUME NEW i \in 1 .. m + n, NEW j \in 1 .. m + n, z[i] = z[j] PROVE i = j
  <2>1. CASE i <= m /\ j <= m
    <3>1. i \in 1 .. m /\ j \in 1 .. m /\ s[i] = s[j]  BY <1>2, <1>5, <2>1
    <3> QED  BY <1>1, <3>1 DEF Once
  <2>2. CASE i <= m /\ ~ (j <= m)
    <3>1. i \in 1 .. m /\ j - m \in 1 .. n /\ s[i] = t[j - m]  BY <1>2, <1>5, <2>2
    <3> QED  BY <1>4, <3>1
  <2>3. CASE ~ (i <= m) /\ j <= m
    <3>1. j \in 1 .. m /\ i - m \in 1 .. n /\ s[j] = t[i - m]  BY <1>2, <1>5, <2>3
    <3> QED  BY <1>4, <3>1
  <2>4. CASE ~ (i <= m) /\ ~ (j <= m)
    <3>1. i - m \in 1 .. n /\ j - m \in 1 .. n /\ t[i - m] = t[j - m]  BY <1>2, <1>5, <2>4
    <3>2. i - m = j - m  BY <1>1, <3>1 DEF Once
    <3> QED  BY <3>2
  <2> QED  BY <2>1, <2>2, <2>3, <2>4
<1>6. Once(z)  BY <1>2, <1>5 DEF Once
<1>7. ToSet(s \o t) = ToSet(s) \cup ToSet(t)  BY SetConcat
<1> QED  BY <1>1, <1>2, <1>6, <1>7

LEMMA GatherKeeps ==
  ASSUME PrefillInv, Gather
  PROVE  PrefillInv'
<1>1. PrefillTypes'  BY DEF PrefillInv, PrefillTypes, Gather, fixed, kv
<1>2. PICK s \in Seq(Req), t \in Seq(Req) : s = order /\ t = jobs
  BY DEF PrefillInv, InLine
<1>3. s \o t \in Seq(Req) /\ Once(s \o t) /\ ToSet(s \o t) = ToSet(s) \cup ToSet(t)
  <2>1. Once(s) /\ Once(t) /\ ToSet(s) \cap ToSet(t) = {}
    BY <1>2 DEF PrefillInv, InLine, Queued
  <2> QED  BY <2>1, ConcatOnce
<1>4. order' \in Seq(Req) /\ Once(order') /\ Queued' = Queued \cup ToSet(jobs)
  BY <1>2, <1>3 DEF Gather, Queued
<1>5. jobs' = <<>> /\ <<>> \in Seq(Req) /\ Len(<<>>) = 0 /\ ToSet(<<>>) = {}
  BY DEF Gather, ToSet
<1>6. InLine'
  BY <1>4, <1>5 DEF PrefillInv, InLine, Submitted, Once, Gather
<1>7. BatchFits'
  BY <1>4 DEF PrefillInv, BatchFits, Chunked, NextChunk, Gather, fixed
<1>8. PagesBalanced'  BY <1>4 DEF PrefillInv, PagesBalanced, Gather, kv, fixed
<1>9. ServedWhenAmple'
  <2>1. Ample' = Ample  BY AmpleFixed DEF Gather
  <2>2. AllServed => AllServed'
    BY <1>4, <1>5 DEF AllServed, Submitted, Gather
  <2> QED  BY <2>1, <2>2 DEF PrefillInv, ServedWhenAmple, WithinPrompts, AllComputed,
                       AllGiven, Gather, kv, fixed
<1> QED  BY <1>1, <1>6, <1>7, <1>8, <1>9 DEF PrefillInv

LEMMA ShutKeeps ==
  ASSUME PrefillInv, Shut
  PROVE  PrefillInv'
<1>1. PrefillTypes'  BY DEF PrefillInv, PrefillTypes, Shut, fixed, sched, kv
<1>2. InLine'  BY DEF PrefillInv, InLine, Queued, Submitted, Shut, sched
<1>3. BatchFits'
  BY DEF PrefillInv, BatchFits, Chunked, NextChunk, Queued, Shut, sched, fixed
<1>4. PagesBalanced'  BY DEF PrefillInv, PagesBalanced, Queued, Shut, sched, kv, fixed
<1>5. ServedWhenAmple'  BY DEF ServedWhenAmple, Shut
<1> QED  BY <1>1, <1>2, <1>3, <1>4, <1>5 DEF PrefillInv

LEMMA EngineFailsKeeps ==
  ASSUME PrefillInv, EngineFails
  PROVE  PrefillInv'
<1>1. PrefillTypes'  BY DEF PrefillInv, PrefillTypes, EngineFails, fixed, sched, kv
<1>2. InLine'  BY DEF PrefillInv, InLine, Queued, Submitted, EngineFails, sched
<1>3. BatchFits' /\ AllGiven'  BY NothingBatched DEF EngineFails
<1>4. PagesBalanced'
  BY DEF PrefillInv, PagesBalanced, Queued, EngineFails, sched, kv, fixed
<1>5. ServedWhenAmple'
  <2>1. Ample' = Ample  BY AmpleFixed DEF EngineFails
  <2> QED  BY <1>3, <2>1 DEF PrefillInv, ServedWhenAmple, WithinPrompts, AllComputed,
                       AllServed, Queued, Submitted, EngineFails, sched, kv, fixed
<1> QED  BY <1>1, <1>2, <1>3, <1>4, <1>5 DEF PrefillInv

LEMMA PlanKeeps ==
  ASSUME PrefillInv, Plan
  PROVE  PrefillInv'
<1>1. PICK o : o = Ordering  OBVIOUS
<1>2. PICK b : b = Planned(o)  OBVIOUS
<1>3. PICK found : found = Found(b.chunks)  OBVIOUS
<1>4. /\ pc = "plan" /\ demoted' = ToSet(HopelessOf(o))
      /\ free' = found.free /\ held' = found.held
      /\ IF found.work = <<>>
           THEN pc' = "top" /\ UNCHANGED <<batch, work>>
           ELSE pc' = "engine" /\ batch' = b /\ work' = found.work
      /\ UNCHANGED <<now, fixed, jobs, arrival, rate, order, done, computed, sent>>
  BY <1>1, <1>2, <1>3 DEF Plan
<1>5. BatchOK(b, Queued, ToSet(HopelessOf(o))) /\ ToSet(HopelessOf(o)) \subseteq Queued
  BY <1>1, <1>2, PlannedOK DEF PrefillInv
<1>6. Chunked(b.chunks) /\ \A i \in 1 .. Len(b.chunks) : b.chunks[i].id \in Queued
  BY <1>5 DEF BatchOK
<1>7. PICK cs, n : cs = b.chunks /\ n = Len(cs)  OBVIOUS
<1>8. PagesOK(found, cs, n)
  <2>1. free + Sum(NumReq, held) = pool /\ free >= Reserve  BY DEF PrefillInv, PagesBalanced
  <2>2. Chunked(cs)  BY <1>6, <1>7
  <2>3. PagesOK(Found(cs), cs, Len(cs))  BY <2>1, <2>2, FoundOK DEF PrefillInv
  <2> QED  BY <1>3, <1>7, <2>3
<1>9. Queued' = Queued /\ Ample' = Ample /\ Submitted' = Submitted
  BY <1>4, AmpleFixed DEF Queued, Submitted
<1>10. PrefillTypes'
  <2>1. free' \in Nat /\ held' \in [Req -> Nat]  BY <1>4, <1>8 DEF PagesOK, Pages
  <2>2. pc' \in {"top", "plan", "engine", "stopped"}  BY <1>4
  <2> QED  BY <1>4, <2>1, <2>2 DEF PrefillInv, PrefillTypes, fixed
<1>11. InLine'  BY <1>4, <1>5, <1>9 DEF PrefillInv, InLine
<1>12. BatchFits'
  <2>1. CASE found.work = <<>>
    <3>1. UNCHANGED <<batch, work, done, prompt>>  BY <1>4, <2>1 DEF fixed
    <3> QED  BY <1>9, <3>1 DEF PrefillInv, BatchFits, Chunked, NextChunk
  <2>2. CASE found.work # <<>>
    <3>1. /\ batch'.chunks = cs /\ work' = found.work /\ UNCHANGED <<done, prompt>>
      BY <1>4, <1>7, <2>2 DEF fixed
    <3>2. Chunked(batch.chunks)'
      BY <1>6, <1>7, <3>1 DEF Chunked, NextChunk
    <3>3. \A i \in 1 .. Len(cs) : cs[i].id \in Queued  BY <1>6, <1>7
    <3>4. /\ found.work \in Seq(Chunk)
          /\ \A j \in 1 .. Len(found.work) : \E i \in 1 .. Len(cs) : found.work[j] = cs[i]
      BY <1>7, <1>8 DEF PagesOK, Pages
    <3> QED  BY <1>9, <3>1, <3>2, <3>3, <3>4 DEF BatchFits
  <2> QED  BY <2>1, <2>2
<1>13. PagesBalanced'
  <2>1. free' + Sum(NumReq, held') = pool /\ free' >= Reserve
    BY <1>4, <1>8 DEF PagesOK
  <2>2. ASSUME NEW r \in Req \ Queued PROVE held'[r] = 0
    <3>1. held[r] = 0  BY <1>4 DEF PrefillInv, PagesBalanced
    <3>2. \A i \in 1 .. n : cs[i].id # r  BY <1>6, <1>7
    <3>3. held'[r] = held[r]  BY <1>4, <1>8, <3>2 DEF PagesOK
    <3> QED  BY <3>1, <3>3
  <2>3. pool' = pool  BY <1>4 DEF fixed
  <2> QED  BY <1>9, <2>1, <2>2, <2>3 DEF PagesBalanced
<1>14. ServedWhenAmple'
  <2> SUFFICES ASSUME Ample
               PROVE  WithinPrompts(held)' /\ AllComputed' /\ AllGiven' /\ AllServed'
    BY <1>9 DEF ServedWhenAmple
  <2>1. WithinPrompts(held) /\ AllComputed /\ AllGiven /\ AllServed
    BY <1>4 DEF PrefillInv, ServedWhenAmple
  <2>2. /\ WithinPrompts(found.held) /\ Len(found.work) = n
        /\ \A i \in 1 .. n : found.work[i] = cs[i]
    BY <1>8, <2>1 DEF PagesOK
  <2>3. WithinPrompts(held)'  BY <1>4, <2>2 DEF WithinPrompts, fixed
  <2>4. AllComputed'  BY <1>4, <2>1 DEF AllComputed
  <2>5. AllServed'  BY <1>4, <1>9, <2>1 DEF AllServed
  <2>6. AllGiven'
    <3>1. CASE found.work = <<>>
      BY <1>4, <2>1, <3>1 DEF AllGiven
    <3>2. CASE found.work # <<>>
      <4>1. batch'.chunks = cs /\ work' = found.work  BY <1>4, <1>7, <3>2
      <4> QED  BY <1>7, <2>2, <4>1 DEF AllGiven
    <3> QED  BY <3>1, <3>2
  <2> QED  BY <2>3, <2>4, <2>5, <2>6
<1> QED  BY <1>10, <1>11, <1>12, <1>13, <1>14 DEF PrefillInv

(* What complete() books for a prompt: the tokens of its chunk, if any.    *)
LEMMA DoneAfterFacts ==
  ASSUME PrefillTypes, Chunked(batch.chunks), NEW r \in Req
  PROVE  /\ DoneAfter(r) \in Nat /\ DoneAfter(r) <= prompt[r]
         /\ (\A i \in 1 .. Len(batch.chunks) : batch.chunks[i].id # r) => DoneAfter(r) = done[r]
         /\ \A i \in 1 .. Len(batch.chunks) : batch.chunks[i].id = r =>
              DoneAfter(r) = done[r] + batch.chunks[i].tokens
<1>1. PICK cs : cs = batch.chunks  OBVIOUS
<1>2. cs \in Seq(Chunk) /\ Len(cs) \in Nat  BY <1>1 DEF Chunked
<1>3. PICK n \in Nat : n = Len(cs) /\ DOMAIN cs = 1 .. n  BY <1>2
<1>4. PICK f : f = [i \in 1 .. n |-> IF cs[i].id = r THEN cs[i].tokens ELSE 0]  OBVIOUS
<1>5. f \in [1 .. n -> Nat]
  <2>1. \A i \in 1 .. n : cs[i].tokens \in Nat  BY <1>2, <1>3, ChunkFacts
  <2> QED  BY <1>4, <2>1
<1>6. PICK booked \in Nat : booked = Sum(n, f)  BY <1>5, SumFacts
<1>7. DoneAfter(r) = IF done[r] + booked < prompt[r] THEN done[r] + booked ELSE prompt[r]
  BY <1>1, <1>3, <1>4, <1>6 DEF DoneAfter
<1>8. done[r] \in Nat /\ prompt[r] \in Nat /\ done[r] <= prompt[r]
  BY RequestFacts DEF PrefillTypes
<1>9. DoneAfter(r) \in Nat /\ DoneAfter(r) <= prompt[r]  BY <1>7, <1>8
<1>10. ASSUME \A i \in 1 .. n : cs[i].id # r PROVE DoneAfter(r) = done[r]
  <2>1. \A i \in 1 .. n : f[i] = 0  BY <1>4, <1>10
  <2>2. booked = 0  BY <1>5, <1>6, <2>1, SumFacts
  <2> QED  BY <1>7, <1>8, <2>2
<1>11. ASSUME NEW i \in 1 .. n, cs[i].id = r PROVE DoneAfter(r) = done[r] + cs[i].tokens
  <2>1. \A j \in 1 .. n : cs[j].id = cs[i].id => j = i  BY <1>1, <1>3 DEF Chunked
  <2>2. \A j \in 1 .. n : j # i => f[j] = 0  BY <1>4, <1>11, <2>1
  <2>3. Sum(n, f) = f[i]  BY <1>5, <2>2, SumSingle
  <2>4. booked = cs[i].tokens  BY <1>4, <1>6, <1>11, <2>3
  <2>5. NextChunk(cs[i])  BY <1>1, <1>3 DEF Chunked
  <2>6. done[r] + cs[i].tokens <= prompt[r]  BY <1>11, <2>5 DEF NextChunk
  <2> QED  BY <1>6, <1>7, <1>8, <2>4, <2>6
<1> QED  BY <1>1, <1>3, <1>9, <1>10, <1>11

(* What is finished was at the engine, in a chunk that completes it.       *)
LEMMA FinishedFacts ==
  ASSUME PrefillInv
  PROVE  /\ FinishedNow \subseteq Req /\ FinishedNow \subseteq Queued
         /\ \A r \in FinishedNow : \E i \in 1 .. Len(batch.chunks) :
              batch.chunks[i].id = r /\ batch.chunks[i].completes
<1>1. PICK cs : cs = batch.chunks  OBVIOUS
<1>2. Chunked(cs) /\ cs \in Seq(Chunk) /\ DOMAIN cs = 1 .. Len(cs)
  BY <1>1 DEF PrefillInv, BatchFits, Chunked
<1>3. ASSUME NEW r \in FinishedNow
      PROVE  /\ r \in Req /\ r \in Queued
             /\ \E i \in 1 .. Len(cs) : cs[i].id = r /\ cs[i].completes
  <2>1. r \in Req /\ DoneAfter(r) = prompt[r]  BY DEF FinishedNow
  <2>2. PICK i \in 1 .. Len(cs) : cs[i].id = r  BY <1>1, <1>2 DEF FinishedNow
  <2>3. DoneAfter(r) = done[r] + cs[i].tokens
    BY <1>1, <1>2, <2>1, <2>2, DoneAfterFacts DEF PrefillInv
  <2>4. NextChunk(cs[i])  BY <1>2 DEF Chunked
  <2>5. cs[i].completes  BY <2>1, <2>2, <2>3, <2>4 DEF NextChunk
  <2>6. r \in Queued  BY <1>1, <2>2 DEF PrefillInv, BatchFits
  <2> QED  BY <2>1, <2>2, <2>5, <2>6
<1> QED  BY <1>1, <1>3

(* The scheduler's books after complete().                                 *)
LEMMA BookedFacts ==
  ASSUME PrefillInv, Booked, UNCHANGED prompt
  PROVE  /\ rate' \in Rates
         /\ done' \in [Req -> Nat] /\ \A r \in Req : done'[r] <= prompt[r]
         /\ computed' \in [Req -> SUBSET Nat]
         /\ \A r \in Req : computed'[r] \subseteq 0 .. prompt[r] - 1
         /\ order' \in Seq(Req) /\ Once(order') /\ Queued' = Queued \ FinishedNow
         /\ demoted' \subseteq Queued'
<1>1. rate' \in Rates  BY DEF Booked
<1>2. done' \in [Req -> Nat] /\ \A r \in Req : done'[r] <= prompt[r]
  <2>1. \A r \in Req : DoneAfter(r) \in Nat /\ DoneAfter(r) <= prompt[r]
    BY DoneAfterFacts DEF PrefillInv, BatchFits
  <2>2. done' = [r \in Req |-> DoneAfter(r)]  BY DEF Booked
  <2> QED  BY <2>1, <2>2
<1>3. ASSUME NEW r \in Req, NEW c \in {d \in ToSet(work) : d.id = r}
      PROVE  c.start .. c.start + c.tokens - 1 \subseteq 0 .. prompt[r] - 1
  <2>1. c \in Chunk /\ c.id = r /\ NextChunk(c)
    <3>1. PICK j \in 1 .. Len(work) : c = work[j]
      BY DEF ToSet, PrefillInv, BatchFits
    <3>2. PICK i \in 1 .. Len(batch.chunks) : work[j] = batch.chunks[i]
      BY DEF PrefillInv, BatchFits
    <3>3. c \in Chunk  BY <3>1 DEF PrefillInv, BatchFits
    <3> QED  BY <3>1, <3>2, <3>3 DEF PrefillInv, BatchFits, Chunked
  <2>2. c.start \in Nat /\ c.tokens \in Nat /\ prompt[r] \in Nat
    BY <2>1, ChunkFacts, RequestFacts DEF PrefillInv
  <2>3. c.start + c.tokens <= prompt[r]  BY <2>1 DEF NextChunk
  <2> QED  BY <2>2, <2>3
<1>4. ASSUME NEW r \in Req
      PROVE  computed'[r] \subseteq 0 .. prompt[r] - 1
  <2>1. PICK U : U = UNION {c.start .. c.start + c.tokens - 1 :
                              c \in {d \in ToSet(work) : d.id = r}}
    OBVIOUS
  <2>2. computed'[r] = computed[r] \cup U  BY <2>1 DEF Booked
  <2>3. U \subseteq 0 .. prompt[r] - 1  BY <1>3, <2>1
  <2>4. computed[r] \subseteq 0 .. prompt[r] - 1  BY DEF PrefillInv, PrefillTypes
  <2> QED  BY <2>2, <2>3, <2>4
<1>5. computed' \in [Req -> SUBSET Nat]
  <2>1. \A r \in Req : 0 .. prompt[r] - 1 \subseteq Nat  OBVIOUS
  <2>2. computed' = [r \in Req |-> computed'[r]]  BY DEF Booked
  <2>3. \A r \in Req : computed'[r] \in SUBSET Nat  BY <1>4, <2>1
  <2> QED  BY <2>2, <2>3
<1>6. order' \in Seq(Req) /\ Once(order') /\ Queued' = Queued \ FinishedNow
  <2>a. PICK s \in Seq(Req) : s = order  BY DEF PrefillInv, InLine
  <2>b. PICK F : F = FinishedNow  OBVIOUS
  <2>1. s = order /\ F = FinishedNow  BY <2>a, <2>b
  <2>2. Once(s)  BY <2>1 DEF PrefillInv, InLine
  <2>3. /\ Without(s, F) \in Seq(Req) /\ Once(Without(s, F))
        /\ ToSet(Without(s, F)) = ToSet(s) \ F
    BY <2>2, WithoutOK
  <2>4. order' = Without(s, F)  BY <2>1 DEF Booked
  <2> QED  BY <2>1, <2>3, <2>4 DEF Queued
<1>7. demoted' \subseteq Queued'  BY <1>6 DEF Booked, PrefillInv, InLine
<1> QED  BY <1>1, <1>2, <1>4, <1>5, <1>6, <1>7

LEMMA InLineAfter ==
  ASSUME PrefillInv, Booked, UNCHANGED <<prompt, jobs, arrival>>
  PROVE  InLine'
<1>1. /\ order' \in Seq(Req) /\ Once(order') /\ Queued' = Queued \ FinishedNow
      /\ demoted' \subseteq Queued'
  BY BookedFacts
<1>2. Submitted' = Submitted  BY DEF Submitted
<1> QED  BY <1>1, <1>2 DEF PrefillInv, InLine

LEMMA SentTypes ==
  ASSUME PrefillInv
  PROVE  FirstTokens \subseteq Req
<1>1. \A c \in ToSet(work) : c \in Chunk  BY DEF ToSet, PrefillInv, BatchFits
<1>2. \A c \in Chunk : c.id \in Req  BY ChunkFacts
<1> QED  BY <1>1, <1>2 DEF FirstTokens

(* The pages of finished prompts are given back.                           *)
LEMMA PagesReturned ==
  ASSUME PrefillTypes, NEW F, NEW g, g = [r \in Req |-> IF r \in F THEN 0 ELSE held[r]]
  PROVE  /\ Sum(NumReq, Of(F, held)) \in Nat
         /\ g \in [Req -> Nat]
         /\ Sum(NumReq, held) = Sum(NumReq, g) + Sum(NumReq, Of(F, held))
<1>1. PICK n \in Nat : n = NumReq /\ Req = 1 .. n  BY RequestFacts
<1>2. PICK h : h = held  OBVIOUS
<1>3. h \in [1 .. n -> Nat] /\ DOMAIN h = 1 .. n  BY <1>1, <1>2 DEF PrefillTypes
<1>4. PICK u : u = [r \in 1 .. n |-> IF r \in F THEN h[r] ELSE 0]  OBVIOUS
<1>5. Of(F, held) = u  BY <1>2, <1>3, <1>4 DEF Of
<1>6. g = [r \in 1 .. n |-> IF r \in F THEN 0 ELSE h[r]]  BY <1>1, <1>2
<1>7. u \in [1 .. n -> Nat] /\ g \in [1 .. n -> Nat]  BY <1>3, <1>4, <1>6
<1>8. ASSUME NEW r \in 1 .. n PROVE h[r] = g[r] + u[r]
  <2>1. h[r] \in Nat  BY <1>3
  <2>2. CASE r \in F
    <3>1. g[r] = 0 /\ u[r] = h[r]  BY <1>4, <1>6, <2>2
    <3> QED  BY <2>1, <3>1
  <2>3. CASE r \notin F
    <3>1. g[r] = h[r] /\ u[r] = 0  BY <1>4, <1>6, <2>3
    <3> QED  BY <2>1, <3>1
  <2> QED  BY <2>2, <2>3
<1>9. Sum(n, h) = Sum(n, g) + Sum(n, u)
  <2>1. PICK w : w = g  OBVIOUS
  <2>2. w \in [1 .. n -> Nat] /\ \A r \in 1 .. n : h[r] = w[r] + u[r]  BY <1>7, <1>8, <2>1
  <2>3. Sum(n, h) = Sum(n, w) + Sum(n, u)  BY <1>3, <1>7, <2>2, SumAdds
  <2> QED  BY <2>1, <2>3
<1>10. Sum(n, u) \in Nat  BY <1>7, SumFacts
<1> QED  BY <1>1, <1>2, <1>5, <1>7, <1>9, <1>10

(* What was given to the engine in full is booked as computed.             *)
LEMMA ComputedAfter ==
  ASSUME PrefillInv, Booked, AllComputed, AllGiven
  PROVE  AllComputed'
<1>1. PICK cs : cs = batch.chunks  OBVIOUS
<1>2. Chunked(cs) /\ work \in Seq(Chunk)  BY <1>1 DEF PrefillInv, BatchFits
<1>3. Len(work) = Len(cs) /\ \A i \in 1 .. Len(cs) : work[i] = cs[i]
  BY <1>1 DEF AllGiven
<1>4. ToSet(work) = {cs[i] : i \in 1 .. Len(cs)}
  <2>1. DOMAIN work = 1 .. Len(cs)  BY <1>2, <1>3
  <2> QED  BY <1>3, <2>1 DEF ToSet
<1>5. ASSUME NEW r \in Req PROVE computed'[r] = 0 .. done'[r] - 1
  <2>1. PICK W : W = {d \in ToSet(work) : d.id = r}  OBVIOUS
  <2>2. PICK U : U = UNION {c.start .. c.start + c.tokens - 1 : c \in W}  OBVIOUS
  <2>3. computed'[r] = (0 .. done[r] - 1) \cup U
    BY <2>1, <2>2 DEF Booked, AllComputed
  <2>4. done'[r] = DoneAfter(r)  BY DEF Booked
  <2>5. done[r] \in Nat  BY RequestFacts DEF PrefillInv
  <2>6. CASE \A i \in 1 .. Len(cs) : cs[i].id # r
    <3>1. W = {}  BY <1>4, <2>1, <2>6
    <3>2. U = {}  BY <2>2, <3>1
    <3>3. DoneAfter(r) = done[r]  BY <1>1, <1>2, <2>6, DoneAfterFacts DEF PrefillInv
    <3> QED  BY <2>3, <2>4, <3>2, <3>3
  <2>7. CASE \E i \in 1 .. Len(cs) : cs[i].id = r
    <3>1. PICK i \in 1 .. Len(cs) : cs[i].id = r  BY <2>7
    <3>2. PICK c \in Chunk : c = cs[i]  BY <1>2 DEF Chunked
    <3>3. \A j \in 1 .. Len(cs) : cs[j].id = cs[i].id => j = i  BY <1>2 DEF Chunked
    <3>4. W = {c}  BY <1>4, <2>1, <3>1, <3>2, <3>3
    <3>5. U = c.start .. c.start + c.tokens - 1  BY <2>2, <3>4
    <3>6. DoneAfter(r) = done[r] + c.tokens
      BY <1>1, <1>2, <3>1, <3>2, DoneAfterFacts DEF PrefillInv
    <3>7. c.start = done[r] /\ c.tokens \in Nat
      BY <1>2, <3>1, <3>2, ChunkFacts DEF Chunked, NextChunk
    <3>8. PICK last \in Int : last = done[r] + c.tokens - 1  BY <2>5, <3>7
    <3>9. c.start + c.tokens - 1 = last /\ done'[r] - 1 = last
      BY <2>4, <2>5, <3>6, <3>7, <3>8
    <3>10. U = done[r] .. last  BY <3>5, <3>7, <3>9
    <3>11. done[r] - 1 <= last  BY <2>5, <3>7, <3>8
    <3>12. (0 .. done[r] - 1) \cup (done[r] .. last) = 0 .. last  BY <2>5, <3>11
    <3> QED  BY <2>3, <3>9, <3>10, <3>12
  <2> QED  BY <2>6, <2>7
<1> QED  BY <1>5 DEF AllComputed

LEMMA CompleteKeeps ==
  ASSUME PrefillInv, Complete
  PROVE  PrefillInv'
<1>1. /\ pc = "engine" /\ Booked /\ sent' = sent \cup FirstTokens
      /\ free' = free + Sum(NumReq, Of(FinishedNow, held))
      /\ held' = [r \in Req |-> IF r \in FinishedNow THEN 0 ELSE held[r]]
      /\ pc' = "top" /\ batch' = NoBatch /\ work' = <<>>
      /\ UNCHANGED <<now, policy, pool, prompt, jobs, arrival>>
  BY DEF Complete, fixed
<1>2. PICK F, g : F = FinishedNow /\ g = held'  OBVIOUS
<1>3. /\ Sum(NumReq, Of(F, held)) \in Nat /\ g \in [Req -> Nat]
      /\ Sum(NumReq, held) = Sum(NumReq, g) + Sum(NumReq, Of(F, held))
  <2>1. g = [r \in Req |-> IF r \in F THEN 0 ELSE held[r]]  BY <1>1, <1>2
  <2> QED  BY <2>1, PagesReturned DEF PrefillInv
<1>4. PICK back \in Nat : back = Sum(NumReq, Of(F, held))  BY <1>3
<1>5. free' = free + back /\ free \in Nat  BY <1>1, <1>2, <1>4 DEF PrefillInv, PrefillTypes
<1>6. PrefillTypes'
  <2>1. free' \in Nat /\ held' \in [Req -> Nat]  BY <1>2, <1>3, <1>5
  <2>2. sent' \subseteq Req  BY <1>1, SentTypes DEF PrefillInv, PrefillTypes
  <2>3. /\ rate' \in Rates
        /\ done' \in [Req -> Nat] /\ \A r \in Req : done'[r] <= prompt[r]
        /\ computed' \in [Req -> SUBSET Nat]
        /\ \A r \in Req : computed'[r] \subseteq 0 .. prompt[r] - 1
    BY <1>1, BookedFacts
  <2> QED  BY <1>1, <2>1, <2>2, <2>3 DEF PrefillInv, PrefillTypes
<1>7. InLine'  BY <1>1, InLineAfter
<1>8. BatchFits' /\ AllGiven'  BY <1>1, NothingBatched
<1>9. Queued' = Queued \ F  BY <1>1, <1>2, BookedFacts
<1>10. PagesBalanced'
  <2>1. free' + Sum(NumReq, held') = pool' /\ free' >= Reserve
    <3>1. PICK m \in Nat : m = Sum(NumReq, g)
      <4>1. PICK n \in Nat : n = NumReq /\ Req = 1 .. n  BY RequestFacts DEF PrefillInv
      <4>2. Sum(n, g) \in Nat  BY <1>3, <4>1, SumFacts
      <4> QED  BY <4>1, <4>2
    <3>2. free + (m + back) = pool /\ free >= Reserve /\ Reserve \in Nat
      BY <1>3, <1>4, <3>1, PrefillAssumption DEF PrefillInv, PagesBalanced
    <3>3. free' + m = pool /\ free' >= Reserve  BY <1>5, <3>2
    <3> QED  BY <1>1, <1>2, <3>1, <3>3
  <2>2. ASSUME NEW r \in Req \ Queued' PROVE held'[r] = 0
    <3>1. CASE r \in F  BY <1>1, <1>2, <3>1
    <3>2. CASE r \notin F
      <4>1. r \notin Queued  BY <1>9, <3>2
      <4>2. held[r] = 0  BY <1>1, <4>1 DEF PrefillInv, PagesBalanced
      <4> QED  BY <1>1, <1>2, <3>2, <4>2
    <3> QED  BY <3>1, <3>2
  <2> QED  BY <2>1, <2>2 DEF PagesBalanced
<1>11. ServedWhenAmple'
  <2>1. Ample' = Ample  BY <1>1, AmpleFixed DEF fixed
  <2> SUFFICES ASSUME Ample
               PROVE  WithinPrompts(held)' /\ AllComputed' /\ AllGiven' /\ AllServed'
    BY <2>1 DEF ServedWhenAmple
  <2>2. WithinPrompts(held) /\ AllComputed /\ AllGiven /\ AllServed
    BY <1>1 DEF PrefillInv, ServedWhenAmple
  <2>3. WithinPrompts(held)'
    <3> SUFFICES ASSUME NEW r \in Req PROVE held'[r] <= BlocksFor(prompt[r])
      BY <1>1 DEF WithinPrompts
    <3>1. BlocksFor(prompt[r]) \in Nat
      <4>1. PICK t \in Nat : t = prompt[r]  BY RequestFacts DEF PrefillInv
      <4> QED  BY <4>1, BlocksType
    <3>2. held[r] <= BlocksFor(prompt[r])  BY <2>2 DEF WithinPrompts
    <3>3. held'[r] = 0 \/ held'[r] = held[r]  BY <1>1
    <3> QED  BY <3>1, <3>2, <3>3
  <2>4. AllComputed'  BY <1>1, <2>2, ComputedAfter
  <2>5. F \subseteq FirstTokens
    <3> SUFFICES ASSUME NEW r \in F PROVE r \in FirstTokens  OBVIOUS
    <3>1. PICK i \in 1 .. Len(batch.chunks) :
            batch.chunks[i].id = r /\ batch.chunks[i].completes
      BY <1>2, FinishedFacts
    <3>2. i \in 1 .. Len(work) /\ work[i] = batch.chunks[i]  BY <2>2 DEF AllGiven
    <3>3. work[i] \in ToSet(work)
      <4>1. i \in DOMAIN work  BY <3>2 DEF PrefillInv, BatchFits
      <4> QED  BY <4>1 DEF ToSet
    <3> QED  BY <3>1, <3>2, <3>3 DEF FirstTokens
  <2>6. AllServed'
    BY <1>1, <1>9, <2>2, <2>5 DEF AllServed, Submitted
  <2> QED  BY <1>8, <2>3, <2>4, <2>6
<1> QED  BY <1>6, <1>7, <1>8, <1>10, <1>11 DEF PrefillInv

LEMMA HangupKeeps ==
  ASSUME PrefillInv, Hangup
  PROVE  PrefillInv'
<1>1. /\ Booked /\ \E some \in SUBSET FirstTokens : sent' = sent \cup some
      /\ pc' = "stopped" /\ batch' = NoBatch /\ work' = <<>>
      /\ UNCHANGED <<now, policy, pool, prompt, jobs, arrival, free, held>>
  BY DEF Hangup, fixed, kv
<1>2. PrefillTypes'
  <2>1. sent' \subseteq Req  BY <1>1, SentTypes DEF PrefillInv, PrefillTypes
  <2>2. /\ rate' \in Rates
        /\ done' \in [Req -> Nat] /\ \A r \in Req : done'[r] <= prompt[r]
        /\ computed' \in [Req -> SUBSET Nat]
        /\ \A r \in Req : computed'[r] \subseteq 0 .. prompt[r] - 1
    BY <1>1, BookedFacts
  <2> QED  BY <1>1, <2>1, <2>2 DEF PrefillInv, PrefillTypes
<1>3. InLine'  BY <1>1, InLineAfter
<1>4. BatchFits'  BY <1>1, NothingBatched
<1>5. PagesBalanced'  BY <1>1 DEF PrefillInv, PagesBalanced
<1>6. ServedWhenAmple'  BY <1>1 DEF ServedWhenAmple
<1> QED  BY <1>2, <1>3, <1>4, <1>5, <1>6 DEF PrefillInv

LEMMA PrefillStuttering ==
  ASSUME PrefillInv, UNCHANGED prefillVars
  PROVE  PrefillInv'
<1>1. /\ UNCHANGED <<now, policy, pool, prompt, rate, jobs, pc, arrival, order, done>>
      /\ UNCHANGED <<demoted, free, held, batch, work, computed, sent>>
  BY DEF prefillVars, fixed
<1>2. PrefillTypes'  BY <1>1 DEF PrefillInv, PrefillTypes
<1>3. InLine'  BY <1>1 DEF PrefillInv, InLine, Queued, Submitted
<1>4. BatchFits'  BY <1>1 DEF PrefillInv, BatchFits, Chunked, NextChunk, Queued
<1>5. PagesBalanced'  BY <1>1 DEF PrefillInv, PagesBalanced, Queued
<1>6. ServedWhenAmple'
  <2>1. Ample' = Ample  BY <1>1, AmpleFixed DEF fixed
  <2> QED  BY <1>1, <2>1 DEF PrefillInv, ServedWhenAmple, WithinPrompts, AllComputed,
                       AllGiven, AllServed, Queued, Submitted
<1> QED  BY <1>2, <1>3, <1>4, <1>5, <1>6 DEF PrefillInv

(***************************************************************************)
(* The inductive invariant of the prefill worker: run() of                 *)
(* prefill_worker.rs, with the scheduler's queue, the batch at the engine, *)
(* the pages and, with pages for every prompt, the progress, stay          *)
(* consistent through every step.                                          *)
(***************************************************************************)
THEOREM PrefillInvariant == PrefillSpec => []PrefillInv
<1>1. PrefillInit => PrefillInv  BY PrefillInitHolds
<1>2. PrefillInv /\ [PrefillNext]_prefillVars => PrefillInv'
  <2> SUFFICES ASSUME PrefillInv, [PrefillNext]_prefillVars PROVE PrefillInv'  OBVIOUS
  <2>1. CASE Tick  BY <2>1, TickKeeps
  <2>2. ASSUME NEW r \in Req, Submit(r) PROVE PrefillInv'  BY <2>2, SubmitKeeps
  <2>3. CASE Gather  BY <2>3, GatherKeeps
  <2>4. CASE Shut  BY <2>4, ShutKeeps
  <2>5. CASE Plan  BY <2>5, PlanKeeps
  <2>6. CASE Complete  BY <2>6, CompleteKeeps
  <2>7. CASE Hangup  BY <2>7, HangupKeeps
  <2>8. CASE EngineFails  BY <2>8, EngineFailsKeeps
  <2>9. CASE UNCHANGED prefillVars  BY <2>9, PrefillStuttering
  <2> QED  BY <2>1, <2>2, <2>3, <2>4, <2>5, <2>6, <2>7, <2>8, <2>9 DEF PrefillNext
<1> QED  BY <1>1, <1>2, PTL DEF PrefillSpec

LEMMA BooksHold ==
  ASSUME PrefillInv
  PROVE  BooksBalanced
<1>1. PICK n \in Nat : n = NumReq /\ Req = 1 .. n  BY RequestFacts DEF PrefillInv
<1>2. PICK h \in [1 .. n -> Nat] : h = held  BY <1>1 DEF PrefillInv, PrefillTypes
<1>3. /\ free + Sum(n, h) = pool /\ free \in Nat /\ pool \in Nat
      /\ Sum(n, h) \in Nat /\ \A r \in 1 .. n : h[r] <= Sum(n, h)
  BY <1>1, <1>2, SumFacts, RequestFacts DEF PrefillInv, PrefillTypes, PagesBalanced
<1>4. free \in 0 .. pool /\ \A r \in Req : held[r] \in 0 .. pool
  <2>1. free \in 0 .. pool /\ Sum(n, h) <= pool  BY <1>3
  <2>2. ASSUME NEW r \in 1 .. n PROVE h[r] \in 0 .. pool
    <3>1. h[r] \in Nat /\ h[r] <= Sum(n, h)  BY <1>3
    <3> QED  BY <1>3, <2>1, <3>1
  <2> QED  BY <1>1, <1>2, <2>1, <2>2
<1>5. \A r \in Submitted : arrival[r] \in 0 .. MaxNow
  <2> SUFFICES ASSUME NEW r \in Submitted PROVE arrival[r] \in 0 .. MaxNow  OBVIOUS
  <2>1. arrival[r] \in Nat /\ arrival[r] + Ttft < MaxNow  BY DEF PrefillInv, InLine
  <2>2. Ttft \in Nat /\ MaxNow \in Nat  BY PrefillAssumption
  <2> QED  BY <2>1, <2>2
<1>6. \A r \in Req : done[r] \in 0 .. prompt[r]
  BY RequestFacts DEF PrefillInv, PrefillTypes
<1>7. PrefillTypeOK
  BY <1>4, <1>5, <1>6 DEF PrefillTypeOK, PrefillInv, PrefillTypes, InLine, BatchFits, Chunked
<1>8. BookedWhenAmple
  <2>1. Submitted \subseteq Req  BY DEF PrefillInv, InLine
  <2> QED  BY <2>1 DEF BookedWhenAmple, BookedIsComputed, PrefillInv, ServedWhenAmple,
                       AllComputed, AllServed
<1> QED  BY <1>7, <1>8 DEF BooksBalanced, PrefillInv

(***************************************************************************)
(* Pages are neither lost nor doubled by partial chunks, failed batches,   *)
(* chunks without pages and finished prompts, the reserve is never         *)
(* touched, and with pages for every prompt complete() books just what the *)
(* engine computed and nobody leaves the queue unserved; for any prompts,  *)
(* rates, pools and bounds of a batch.                                     *)
(***************************************************************************)
THEOREM PrefillBooksTheorem == PrefillSpec => []BooksBalanced
BY PrefillInvariant, BooksHold, PTL

(***************************************************************************)
(* Every ordering of order_jobs() has every queued prompt once, and        *)
(* moore_hodgson() of policy.rs is optimal: what it keeps is on time in    *)
(* the order it gives, and no other choice from the queue keeps more; for  *)
(* any queue, deadlines and rate.                                          *)
(***************************************************************************)
THEOREM OrderingOptimalTheorem == PrefillSpec => []OrderingOptimal
<1>1. PrefillInv => OrderingOptimal
  BY PermutationHolds, MooreHodgsonHolds DEF PrefillInv, OrderingOptimal
<1> QED  BY <1>1, PrefillInvariant, PTL

LEMMA PlanMeetsDeadlines ==
  ASSUME PrefillInv, Plan, pc' = "engine", Len(batch'.chunks) > 1,
         NEW c \in ToSet(batch'.chunks)
  PROVE  c.id \in demoted' \/ ~ Late(now, rate, batch'.total, Deadline(c.id))
<1>1. PICK o : o = Ordering  OBVIOUS
<1>2. PICK b : b = Planned(o)  OBVIOUS
<1>3. batch' = b /\ demoted' = ToSet(HopelessOf(o))
  BY <1>1, <1>2 DEF Plan
<1>4. BatchOK(b, Queued, ToSet(HopelessOf(o)))
  BY <1>1, <1>2, PlannedOK DEF PrefillInv
<1>5. PICK i \in 1 .. Len(b.chunks) : c = b.chunks[i]
  BY <1>3, <1>4 DEF ToSet, BatchOK, Chunked
<1>6. CASE c.id \in ToSet(HopelessOf(o))  BY <1>3, <1>6
<1>7. CASE c.id \notin ToSet(HopelessOf(o))
  <2>1. b.deadline <= Deadline(c.id) /\ b.deadline < NoBatch.deadline /\ c.id \in Queued
    BY <1>4, <1>5, <1>7 DEF BatchOK
  <2>2. ~ Late(now, rate, b.total, b.deadline)  BY <1>3, <1>4, <2>1 DEF BatchOK
  <2>3. PICK d \in Int, t \in Nat : d = b.deadline /\ t = b.total  BY <1>4 DEF BatchOK, Batch
  <2>4. c.id \in Submitted  BY <2>1 DEF PrefillInv, InLine
  <2>5. PICK e \in Int : e = Deadline(c.id)  BY <2>4, DeadlineFacts DEF PrefillInv
  <2>6. d <= e  BY <2>1, <2>3, <2>5
  <2>7. ClockOK  BY RequestFacts DEF PrefillInv
  <2>8. Room(d) \in Int /\ Room(e) \in Int /\ Room(d) <= Room(e)  BY <2>6, <2>7, RoomGrows
  <2>9. t <= Room(d)
    <3>1. ~ (t > (d - now) * rate)  BY <2>2, <2>3 DEF Late
    <3>2. ~ (t > Room(d))  BY <3>1 DEF Room
    <3> QED  BY <2>8, <3>2
  <2>10. ~ (t > Room(e))  BY <2>8, <2>9
  <2>11. ~ Late(now, rate, t, e)  BY <2>10 DEF Late, Room
  <2> QED  BY <1>3, <2>3, <2>5, <2>11
<1> QED  BY <1>6, <1>7

(***************************************************************************)
(* plan() adds a prompt to a batch only while the batch meets the earliest *)
(* deadline in it: in a batch of several, who was not given up on is not   *)
(* made late by the others; for any queue, policy and budget.              *)
(***************************************************************************)
THEOREM BatchDeadlinesTheorem == PrefillSpec => BatchMeetsDeadlines
<1> DEFINE Meets == pc = "plan" /\ pc' = "engine" /\ Len(batch'.chunks) > 1 =>
                      \A c \in ToSet(batch'.chunks) :
                        c.id \in demoted' \/ ~ Late(now, rate, batch'.total, Deadline(c.id))
<1>1. PrefillInv /\ [PrefillNext]_prefillVars => [Meets]_prefillVars
  <2> SUFFICES ASSUME PrefillInv, PrefillNext, pc = "plan", pc' = "engine",
                      Len(batch'.chunks) > 1, NEW c \in ToSet(batch'.chunks)
               PROVE  c.id \in demoted' \/ ~ Late(now, rate, batch'.total, Deadline(c.id))
    OBVIOUS
  <2>1. Plan
    BY DEF PrefillNext, Tick, Submit, Gather, Shut, Complete, Hangup, EngineFails
  <2> QED  BY <2>1, PlanMeetsDeadlines
<1>2. PrefillSpec => [][Meets]_prefillVars
  <2> HIDE DEF Meets
  <2> QED  BY <1>1, PrefillInvariant, PTL DEF PrefillSpec
<1> QED  BY <1>2 DEF BatchMeetsDeadlines
===============================================================================
