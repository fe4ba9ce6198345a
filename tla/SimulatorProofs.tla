---------------------------- MODULE SimulatorProofs ----------------------------
(***************************************************************************)
(* Proofs about Simulator, for any number of clients, any sets of workers, *)
(* any pool and any number of transfer buffers.                            *)
(***************************************************************************)
EXTENDS Simulator, FiniteSetTheorems, SequenceTheorems, WellFoundedInduction, TLAPS

-------------------------------------------------------------------------------
(* Sequences without repetition.                                           *)
Elems(s) == {s[k] : k \in 1 .. Len(s)}
First(s, n) == {s[k] : k \in 1 .. n}
Rest(s, n) == SubSeq(s, n + 1, Len(s))
Distinct(s) == \A j, k \in 1 .. Len(s) : s[j] = s[k] => j = k

LEMMA RemoveAtFacts ==
  ASSUME NEW S, NEW s \in Seq(S), NEW i \in 1 .. Len(s)
  PROVE  /\ RemoveAt(s, i) \in Seq(S)
         /\ Len(RemoveAt(s, i)) = Len(s) - 1
         /\ \A k \in 1 .. Len(s) - 1 :
              RemoveAt(s, i)[k] = IF k < i THEN s[k] ELSE s[k + 1]
<1> DEFINE a == SubSeq(s, 1, i - 1)
           b == SubSeq(s, i + 1, Len(s))
<1>1. Len(s) \in Nat /\ \A k \in 1 .. Len(s) : s[k] \in S  OBVIOUS
<1>2. a \in Seq(S) /\ Len(a) = i - 1 /\ \A k \in 1 .. i - 1 : a[k] = s[k]
  BY <1>1
<1>3. b \in Seq(S) /\ Len(b) = Len(s) - i /\ \A k \in 1 .. Len(s) - i : b[k] = s[k + i]
  BY <1>1
<1> HIDE DEF a, b
<1>4. /\ a \o b \in Seq(S) /\ Len(a \o b) = Len(s) - 1
      /\ \A k \in 1 .. Len(s) - 1 :
           (a \o b)[k] = IF k <= i - 1 THEN a[k] ELSE b[k - (i - 1)]
  <2>1. /\ a \o b \in Seq(S) /\ Len(a \o b) = Len(a) + Len(b)
        /\ \A k \in 1 .. Len(a) + Len(b) :
             (a \o b)[k] = IF k <= Len(a) THEN a[k] ELSE b[k - Len(a)]
    BY <1>2, <1>3, ConcatProperties
  <2>2. Len(a) + Len(b) = Len(s) - 1  BY <1>1, <1>2, <1>3
  <2> QED  BY <1>2, <2>1, <2>2
<1>5. ASSUME NEW k \in 1 .. Len(s) - 1
      PROVE  (a \o b)[k] = IF k < i THEN s[k] ELSE s[k + 1]
  <2>1. CASE k < i  BY <1>1, <1>2, <1>4, <2>1
  <2>2. CASE ~ (k < i)
    <3>1. (a \o b)[k] = b[k - (i - 1)] /\ k - (i - 1) \in 1 .. Len(s) - i
      BY <1>1, <1>4, <2>2
    <3>2. b[k - (i - 1)] = s[(k - (i - 1)) + i]  BY <1>3, <3>1
    <3>3. (k - (i - 1)) + i = k + 1  BY <1>1
    <3> QED  BY <2>2, <3>1, <3>2, <3>3
  <2> QED  BY <2>1, <2>2
<1> QED  BY <1>4, <1>5 DEF RemoveAt, a, b

(* What is left of a queue when its first n have gone.                     *)
LEMMA TailFacts ==
  ASSUME NEW s \in Seq(Clients), Distinct(s), NEW n \in 0 .. Len(s),
         NEW gone, gone = First(s, n), NEW rest, rest = Rest(s, n)
  PROVE  /\ rest \in Seq(Clients) /\ Len(rest) = Len(s) - n
         /\ Distinct(rest)
         /\ Elems(rest) = Elems(s) \ gone
         /\ gone \subseteq Elems(s) /\ Elems(s) \subseteq Clients
         /\ IsFiniteSet(gone) /\ Cardinality(gone) = n
<1>1. Len(s) \in Nat /\ \A k \in 1 .. Len(s) : s[k] \in Clients  OBVIOUS
<1>2. /\ rest \in Seq(Clients) /\ Len(rest) = Len(s) - n
      /\ \A k \in 1 .. Len(s) - n : rest[k] = s[k + n]
  BY <1>1 DEF Rest
<1> USE DEF First
<1>3. Distinct(rest)  BY <1>1, <1>2 DEF Distinct
<1>4. ASSUME NEW x \in Elems(rest) PROVE x \in Elems(s) \ gone
  <2>1. PICK k \in 1 .. Len(s) - n : x = rest[k]  BY <1>2 DEF Elems
  <2>2. x = s[k + n] /\ k + n \in 1 .. Len(s) /\ k + n > n  BY <1>1, <1>2, <2>1
  <2>3. \A j \in 1 .. n : s[j] # x  BY <1>1, <2>2 DEF Distinct
  <2> QED  BY <2>2, <2>3 DEF Elems
<1>5. ASSUME NEW x \in Elems(s) \ gone PROVE x \in Elems(rest)
  <2>1. PICK k \in 1 .. Len(s) : x = s[k]  BY DEF Elems
  <2>2. k > n  BY <1>1, <2>1
  <2>3. k - n \in 1 .. Len(s) - n /\ (k - n) + n = k  BY <1>1, <2>2
  <2>4. rest[k - n] = s[k]  BY <1>2, <2>3
  <2> QED  BY <1>2, <2>1, <2>3, <2>4 DEF Elems
<1>6. gone \subseteq Elems(s) /\ Elems(s) \subseteq Clients  BY <1>1 DEF Elems
<1>7. IsFiniteSet(gone) /\ Cardinality(gone) = n
  <2> DEFINE f == [k \in 1 .. n |-> s[k]]
  <2>1. f \in Bijection(1 .. n, gone)
    <3>1. \A j, k \in 1 .. n : s[j] = s[k] => j = k  BY <1>1 DEF Distinct
    <3> QED  BY <3>1 DEF Bijection, Injection, Surjection, IsInjective
  <2>2. n \in Nat /\ IsFiniteSet(1 .. n) /\ Cardinality(1 .. n) = n
    BY FS_Interval
  <2>3. ExistsBijection(1 .. n, gone)  BY <2>1 DEF ExistsBijection
  <2> QED  BY <2>2, <2>3, FS_Bijection
<1>8. Elems(rest) = Elems(s) \ gone  BY <1>4, <1>5
<1> QED  BY <1>2, <1>3, <1>6, <1>7, <1>8

(* Two queues one after the other.                                         *)
LEMMA JoinFacts ==
  ASSUME NEW S, NEW s \in Seq(S), NEW r \in Seq(S), Distinct(s), Distinct(r),
         Elems(s) \cap Elems(r) = {}
  PROVE  /\ s \o r \in Seq(S) /\ Len(s \o r) = Len(s) + Len(r)
         /\ Distinct(s \o r) /\ Elems(s \o r) = Elems(s) \cup Elems(r)
<1> DEFINE q == s \o r
<1>1. Len(s) \in Nat /\ Len(r) \in Nat  OBVIOUS
<1>2. /\ q \in Seq(S) /\ Len(q) = Len(s) + Len(r)
      /\ \A k \in 1 .. Len(s) + Len(r) : q[k] = IF k <= Len(s) THEN s[k] ELSE r[k - Len(s)]
  OBVIOUS
<1> HIDE DEF q
<1>3. \A k \in 1 .. Len(s) : q[k] = s[k]  BY <1>1, <1>2
<1>4. \A k \in 1 .. Len(r) : q[k + Len(s)] = r[k]
  <2> TAKE k \in 1 .. Len(r)
  <2>1. k + Len(s) \in 1 .. Len(s) + Len(r) /\ ~ (k + Len(s) <= Len(s))
        /\ (k + Len(s)) - Len(s) = k
    BY <1>1
  <2> QED  BY <1>2, <2>1
<1>5. \A k \in 1 .. Len(q) : k > Len(s) => k - Len(s) \in 1 .. Len(r) /\ q[k] = r[k - Len(s)]
  BY <1>1, <1>2
<1>6. Elems(q) = Elems(s) \cup Elems(r)
  <2>1. ASSUME NEW x \in Elems(q) PROVE x \in Elems(s) \cup Elems(r)
    <3>1. PICK k \in 1 .. Len(q) : x = q[k]  BY DEF Elems
    <3>2. CASE k <= Len(s)
      <4>1. k \in 1 .. Len(s)  BY <1>1, <1>2, <3>2
      <4> QED  BY <1>3, <3>1, <4>1 DEF Elems
    <3>3. CASE ~ (k <= Len(s))
      <4>1. k > Len(s)  BY <1>1, <1>2, <3>3
      <4> QED  BY <1>5, <3>1, <4>1 DEF Elems
    <3> QED  BY <3>2, <3>3
  <2>2. ASSUME NEW x \in Elems(s) PROVE x \in Elems(q)
    <3>1. PICK k \in 1 .. Len(s) : x = s[k]  BY DEF Elems
    <3>2. k \in 1 .. Len(q)  BY <1>1, <1>2
    <3> QED  BY <1>3, <3>1, <3>2 DEF Elems
  <2>3. ASSUME NEW x \in Elems(r) PROVE x \in Elems(q)
    <3>1. PICK k \in 1 .. Len(r) : x = r[k]  BY DEF Elems
    <3>2. k + Len(s) \in 1 .. Len(q)  BY <1>1, <1>2
    <3> QED  BY <1>4, <3>1, <3>2 DEF Elems
  <2> QED  BY <2>1, <2>2, <2>3
<1>7. ASSUME NEW j \in 1 .. Len(q), NEW k \in 1 .. Len(q), q[j] = q[k] PROVE j = k
  <2>1. CASE j <= Len(s) /\ k <= Len(s)
    <3>1. j \in 1 .. Len(s) /\ k \in 1 .. Len(s)  BY <1>1, <1>2, <2>1
    <3> QED  BY <1>3, <1>7, <3>1 DEF Distinct
  <2>2. CASE j > Len(s) /\ k > Len(s)
    <3>1. r[j - Len(s)] = r[k - Len(s)]  BY <1>5, <1>7, <2>2
    <3>2. j - Len(s) = k - Len(s)  BY <1>5, <2>2, <3>1 DEF Distinct
    <3> QED  BY <1>1, <1>2, <3>2
  <2>3. ASSUME NEW a \in 1 .. Len(q), NEW b \in 1 .. Len(q), a <= Len(s), b > Len(s)
        PROVE  q[a] # q[b]
    <3>1. q[a] \in Elems(s)  BY <1>1, <1>2, <1>3, <2>3 DEF Elems
    <3>2. q[b] \in Elems(r)  BY <1>5, <2>3 DEF Elems
    <3> QED  BY <3>1, <3>2
  <2> QED  BY <1>1, <1>2, <1>7, <2>1, <2>2, <2>3
<1> QED  BY <1>2, <1>6, <1>7 DEF Distinct, q

-------------------------------------------------------------------------------
(* The heap, as the set of what is scheduled.                              *)
Has(h, kind, who) == \E k \in 1 .. Len(h) : h[k].kind = kind /\ h[k].who = who
Unique(h) ==
  \A j, k \in 1 .. Len(h) : h[j].kind = h[k].kind /\ h[j].who = h[k].who => j = k

(* Events pushed after those of a.                                         *)
LEMMA JoinEvents ==
  ASSUME NEW a \in Seq(Events), NEW b \in Seq(Events), Unique(a), Unique(b),
         ~ \E kd, w : Has(a, kd, w) /\ Has(b, kd, w)
  PROVE  /\ a \o b \in Seq(Events) /\ Unique(a \o b)
         /\ \A kd, w : Has(a \o b, kd, w) <=> Has(a, kd, w) \/ Has(b, kd, w)
<1>1. PICK h : h = a \o b  OBVIOUS
<1>2. /\ h \in Seq(Events) /\ Len(h) = Len(a) + Len(b)
      /\ \A k \in 1 .. Len(a) + Len(b) :
           h[k] = IF k <= Len(a) THEN a[k] ELSE b[k - Len(a)]
  BY <1>1, ConcatProperties
<1>3. Len(a) \in Nat /\ Len(b) \in Nat  OBVIOUS
<1>4. \A k \in 1 .. Len(a) : k \in 1 .. Len(h) /\ h[k] = a[k]
  BY <1>2, <1>3
<1>5. \A k \in 1 .. Len(b) : k + Len(a) \in 1 .. Len(h) /\ h[k + Len(a)] = b[k]
  <2> TAKE k \in 1 .. Len(b)
  <2>1. /\ k + Len(a) \in 1 .. Len(a) + Len(b)
        /\ ~ (k + Len(a) <= Len(a)) /\ (k + Len(a)) - Len(a) = k
    BY <1>3
  <2> QED  BY <1>2, <2>1
<1>6. \A k \in 1 .. Len(h) :
        \/ k \in 1 .. Len(a) /\ h[k] = a[k]
        \/ k > Len(a) /\ k - Len(a) \in 1 .. Len(b) /\ h[k] = b[k - Len(a)]
  BY <1>2, <1>3
<1>7. ASSUME NEW kd, NEW w PROVE Has(h, kd, w) <=> Has(a, kd, w) \/ Has(b, kd, w)
  <2>1. Has(h, kd, w) => Has(a, kd, w) \/ Has(b, kd, w)  BY <1>6 DEF Has
  <2>2. Has(a, kd, w) => Has(h, kd, w)  BY <1>4 DEF Has
  <2>3. Has(b, kd, w) => Has(h, kd, w)  BY <1>5 DEF Has
  <2> QED  BY <2>1, <2>2, <2>3
<1>8. Unique(h)
  <2> SUFFICES ASSUME NEW j \in 1 .. Len(h), NEW k \in 1 .. Len(h),
                      h[j].kind = h[k].kind, h[j].who = h[k].who
               PROVE  j = k
    BY DEF Unique
  <2>1. CASE j \in 1 .. Len(a) /\ k \in 1 .. Len(a)
    BY <1>4, <2>1 DEF Unique
  <2>2. CASE j > Len(a) /\ k > Len(a)
    <3>1. /\ j - Len(a) \in 1 .. Len(b) /\ h[j] = b[j - Len(a)]
          /\ k - Len(a) \in 1 .. Len(b) /\ h[k] = b[k - Len(a)]
      BY <1>3, <1>6, <2>2
    <3>2. j - Len(a) = k - Len(a)  BY <3>1 DEF Unique
    <3> QED  BY <1>3, <3>2
  <2>3. ASSUME NEW x \in 1 .. Len(h), NEW y \in 1 .. Len(h), x \in 1 .. Len(a), y > Len(a)
        PROVE  ~ (h[x].kind = h[y].kind /\ h[x].who = h[y].who)
    <3>1. Has(a, h[x].kind, h[x].who)  BY <1>4, <2>3 DEF Has
    <3>2. y - Len(a) \in 1 .. Len(b) /\ h[y] = b[y - Len(a)]  BY <1>3, <1>6, <2>3
    <3>3. Has(b, h[y].kind, h[y].who)  BY <3>2 DEF Has
    <3> QED  BY <3>1, <3>3
  <2> QED  BY <1>3, <1>6, <2>1, <2>2, <2>3
<1> QED  BY <1>1, <1>2, <1>7, <1>8

(* One event for each of the first n of a queue; one event; none.          *)
EventList(ms, kind, s, n) == [k \in 1 .. n |-> Event(ms, kind, s[k])]

LEMMA EventsOf ==
  ASSUME NEW ms \in Nat, NEW kind \in {"Arrival", "KvArrived"},
         NEW s \in Seq(Clients), Distinct(s), NEW n \in 0 .. Len(s),
         NEW h, h = EventList(ms, kind, s, n)
  PROVE  /\ h \in Seq(Events) /\ Unique(h)
         /\ \A kd, w : Has(h, kd, w) <=> kd = kind /\ w \in First(s, n)
<1>1. n \in Nat /\ \A k \in 1 .. n : k \in 1 .. Len(s) /\ s[k] \in Clients  OBVIOUS
<1>2. \A k \in 1 .. n : h[k] \in Events /\ h[k].kind = kind /\ h[k].who = s[k]
  BY <1>1 DEF EventList, Event, Events
<1>3. h \in Seq(Events) /\ Len(h) = n  BY <1>1, <1>2 DEF EventList
<1>4. Unique(h)  BY <1>1, <1>2, <1>3 DEF Unique, Distinct
<1>5. \A kd, w : Has(h, kd, w) <=> kd = kind /\ w \in First(s, n)
  BY <1>2, <1>3 DEF Has, First
<1> QED  BY <1>3, <1>4, <1>5

LEMMA TransfersFacts ==
  ASSUME NEW s \in Seq(Clients), Distinct(s), NEW n \in 0 .. Len(s),
         NEW h, h = Transfers(s, n)
  PROVE  /\ h \in Seq(Events) /\ Unique(h)
         /\ \A kd, w : Has(h, kd, w) <=> kd = "KvArrived" /\ w \in First(s, n)
<1>1. h = EventList(TransferMs, "KvArrived", s, n)  BY DEF Transfers, EventList
<1>2. TransferMs \in Nat  BY SimulatorAssumption
<1> QED  BY <1>1, <1>2, EventsOf

LEMMA ArrivalsFacts ==
  ASSUME NEW ms \in Nat, NEW s \in Seq(Clients), Distinct(s),
         NEW h, h = EventList(ms, "Arrival", s, Len(s))
  PROVE  /\ h \in Seq(Events) /\ Unique(h)
         /\ \A kd, w : Has(h, kd, w) <=> kd = "Arrival" /\ w \in Elems(s)
<1>1. PICK n \in 0 .. Len(s) : n = Len(s)  OBVIOUS
<1>2. h = EventList(ms, "Arrival", s, n)  BY <1>1
<1>3. First(s, n) = Elems(s)  BY <1>1 DEF First, Elems
<1>4. /\ h \in Seq(Events) /\ Unique(h)
      /\ \A kd, w : Has(h, kd, w) <=> kd = "Arrival" /\ w \in First(s, n)
  <2>1. PICK kind \in {"Arrival", "KvArrived"} : kind = "Arrival"  OBVIOUS
  <2>2. h = EventList(ms, kind, s, n)  BY <1>2, <2>1
  <2>3. /\ h \in Seq(Events) /\ Unique(h)
        /\ \A kd, w : Has(h, kd, w) <=> kd = kind /\ w \in First(s, n)
    BY <2>2, EventsOf
  <2> QED  BY <2>1, <2>3
<1> QED  BY <1>3, <1>4

LEMMA OneEvent ==
  ASSUME NEW e \in Events
  PROVE  /\ <<e>> \in Seq(Events) /\ Unique(<<e>>)
         /\ \A kd, w : Has(<<e>>, kd, w) <=> kd = e.kind /\ w = e.who
<1>1. PICK h : h = <<e>>  OBVIOUS
<1>2. h \in Seq(Events) /\ Len(h) = 1 /\ h[1] = e  BY <1>1
<1>3. Unique(h)  BY <1>2 DEF Unique
<1>4. \A kd, w : Has(h, kd, w) <=> kd = e.kind /\ w = e.who  BY <1>2 DEF Has
<1> QED  BY <1>1, <1>2, <1>3, <1>4

LEMMA NoEvent ==
  /\ <<>> \in Seq(Events) /\ Unique(<<>>)
  /\ \A kd, w : ~ Has(<<>>, kd, w)
<1>1. PICK h : h = <<>>  OBVIOUS
<1>2. h \in Seq(Events) /\ Len(h) = 0  BY <1>1
<1>3. Unique(h) /\ \A kd, w : ~ Has(h, kd, w)  BY <1>2 DEF Unique, Has
<1> QED  BY <1>1, <1>2, <1>3

LEMMA SmallestOf ==
  ASSUME NEW T \in SUBSET Nat, NEW a \in T
  PROVE  \E n \in T : \A m \in T : n <= m
<1> DEFINE R == OpToRel(<, Nat)
<1>1. IsWellFoundedOn(R, Nat)  BY NatLessThanWellFounded
<1>2. \A x, y \in Nat : x < y => <<x, y>> \in R  BY DEF OpToRel
<1> HIDE DEF R
<1>3. PICK n \in T : \A m \in T : ~ (<<m, n>> \in R)  BY <1>1, WFMin
<1>4. \A m \in T : m \in Nat /\ n \in Nat /\ ~ (m < n)  BY <1>2, <1>3
<1>5. \A m \in T : n <= m  BY <1>4
<1> QED  BY <1>5

LEMMA EarliestFacts ==
  ASSUME heap \in Seq(Events), heap # <<>>
  PROVE  /\ Earliest \in 1 .. Len(heap)
         /\ \A j \in 1 .. Len(heap) : heap[Earliest].delay <= heap[j].delay
<1>1. Len(heap) \in Nat /\ Len(heap) # 0  OBVIOUS
<1>2. \A k \in 1 .. Len(heap) : heap[k] \in Events /\ heap[k].delay \in Nat
  BY DEF Events
<1> DEFINE D == {heap[k].delay : k \in 1 .. Len(heap)}
<1>3. heap[1].delay \in D /\ D \in SUBSET Nat  BY <1>1, <1>2
<1>4. PICK m \in D : \A x \in D : m <= x  BY <1>3, SmallestOf
<1> DEFINE K == {k \in 1 .. Len(heap) : heap[k].delay = m}
<1>5. PICK k0 \in K : TRUE  BY <1>4
<1>6. K \in SUBSET Nat  OBVIOUS
<1>7. PICK k \in K : \A j \in K : k <= j  BY <1>5, <1>6, SmallestOf
<1>8. ASSUME NEW j \in 1 .. Len(heap)
      PROVE  \/ heap[k].delay < heap[j].delay
             \/ heap[k].delay = heap[j].delay /\ k <= j
  <2>1. m <= heap[j].delay /\ m \in Nat /\ heap[j].delay \in Nat
    BY <1>2, <1>3, <1>4
  <2>2. heap[k].delay = m  OBVIOUS
  <2>3. CASE heap[j].delay = m
    <3>1. j \in K  BY <2>3
    <3> HIDE DEF K
    <3> QED  BY <1>7, <2>2, <2>3, <3>1
  <2>4. CASE heap[j].delay # m
    BY <2>1, <2>2, <2>4
  <2> QED  BY <2>3, <2>4
<1>9. /\ Earliest \in 1 .. Len(heap)
      /\ \A j \in 1 .. Len(heap) : \/ heap[Earliest].delay < heap[j].delay
                                   \/ heap[Earliest].delay = heap[j].delay /\ Earliest <= j
  BY <1>8 DEF Earliest
<1> QED  BY <1>2, <1>9

LEMMA Aged ==
  ASSUME NEW e \in Events, NEW x \in Nat
  PROVE  /\ [e EXCEPT !.delay = x] \in Events
         /\ [e EXCEPT !.delay = x].kind = e.kind
         /\ [e EXCEPT !.delay = x].who = e.who
BY DEF Events

(* Handling an event takes it off the heap and puts the pushed ones there. *)
LEMMA PopFacts ==
  ASSUME heap \in Seq(Events), Unique(heap), NEW kind, NEW who,
         NEW pushed \in Seq(Events), Unique(pushed), Pop(kind, who, pushed),
         \A kd, w : Has(pushed, kd, w) /\ Has(heap, kd, w) => kd = kind /\ w = who
  PROVE  /\ heap' \in Seq(Events) /\ Unique(heap') /\ Has(heap, kind, who)
         /\ \A kd, w : Has(heap', kd, w) <=>
                         \/ Has(heap, kd, w) /\ ~ (kd = kind /\ w = who)
                         \/ Has(pushed, kd, w)
<1>0. PICK e : e = Earliest  OBVIOUS
<1> DEFINE rest == RemoveAt(heap, e)
           aged == [k \in 1 .. Len(rest) |->
                      [rest[k] EXCEPT !.delay = @ - heap[e].delay]]
           at(k) == IF k < e THEN k ELSE k + 1
<1>1. e \in 1 .. Len(heap) /\ heap[e].kind = kind /\ heap[e].who = who
  BY <1>0, EarliestFacts DEF Pop
<1>2. \A j \in 1 .. Len(heap) : /\ heap[j] \in Events /\ heap[j].delay \in Nat
                                /\ heap[e].delay <= heap[j].delay
  BY <1>0, EarliestFacts DEF Pop, Events
<1>3. /\ rest \in Seq(Events) /\ Len(rest) = Len(heap) - 1
      /\ \A k \in 1 .. Len(heap) - 1 : rest[k] = heap[at(k)] /\ at(k) \in 1 .. Len(heap)
  <2>1. /\ rest \in Seq(Events) /\ Len(rest) = Len(heap) - 1
        /\ \A k \in 1 .. Len(heap) - 1 : rest[k] = IF k < e THEN heap[k] ELSE heap[k + 1]
    BY <1>1, RemoveAtFacts
  <2> HIDE DEF rest
  <2>2. \A k \in 1 .. Len(heap) - 1 : rest[k] = heap[at(k)] /\ at(k) \in 1 .. Len(heap)
    BY <1>1, <2>1
  <2> QED  BY <2>1, <2>2
<1> HIDE DEF rest
<1>4. ASSUME NEW k \in 1 .. Len(heap) - 1
      PROVE  /\ aged[k] \in Events
             /\ aged[k].kind = heap[at(k)].kind /\ aged[k].who = heap[at(k)].who
  <2>1. rest[k] \in Events /\ rest[k].delay - heap[e].delay \in Nat
    <3>1. at(k) \in 1 .. Len(heap) /\ rest[k] = heap[at(k)]  BY <1>3
    <3> HIDE DEF at
    <3>2. heap[at(k)].delay \in Nat /\ heap[e].delay \in Nat
          /\ heap[e].delay <= heap[at(k)].delay /\ heap[at(k)] \in Events
      BY <1>1, <1>2, <3>1
    <3> QED  BY <3>1, <3>2
  <2>2. aged[k] = [rest[k] EXCEPT !.delay = rest[k].delay - heap[e].delay]
    BY <1>3
  <2>3. PICK x \in Nat : x = rest[k].delay - heap[e].delay  BY <2>1
  <2> HIDE DEF aged, at
  <2>4. rest[k] = heap[at(k)]  BY <1>3
  <2> QED  BY <2>1, <2>2, <2>3, <2>4, Aged
<1>5. Len(aged) = Len(heap) - 1 /\ aged \in Seq(Events)
  BY <1>3, <1>4
<1> HIDE DEF aged
<1>6. heap' = aged \o pushed  BY <1>0 DEF Pop, aged, rest
<1>8. \A kd, w : Has(aged, kd, w) <=> Has(heap, kd, w) /\ ~ (kd = kind /\ w = who)
  <2> TAKE kd, w
  <2>1. ASSUME Has(aged, kd, w) PROVE Has(heap, kd, w) /\ ~ (kd = kind /\ w = who)
    <3>1. PICK k \in 1 .. Len(heap) - 1 : aged[k].kind = kd /\ aged[k].who = w
      BY <1>5, <2>1 DEF Has
    <3>2. at(k) \in 1 .. Len(heap) /\ at(k) # e
          /\ heap[at(k)].kind = kd /\ heap[at(k)].who = w
      BY <1>1, <1>3, <1>4, <3>1
    <3> QED  BY <1>1, <3>2 DEF Has, Unique
  <2>2. ASSUME Has(heap, kd, w), ~ (kd = kind /\ w = who) PROVE Has(aged, kd, w)
    <3>1. PICK j \in 1 .. Len(heap) : heap[j].kind = kd /\ heap[j].who = w
      BY <2>2 DEF Has
    <3>2. j # e  BY <1>1, <2>2, <3>1
    <3>3. PICK k \in 1 .. Len(heap) - 1 : at(k) = j
      <4>1. CASE j < e  BY <1>1, <4>1
      <4>2. CASE j > e
        <5>1. j - 1 \in 1 .. Len(heap) - 1 /\ ~ (j - 1 < e)  BY <1>1, <4>2
        <5> QED  BY <5>1
      <4> QED  BY <1>1, <3>2, <4>1, <4>2
    <3> QED  BY <1>4, <1>5, <3>1, <3>3 DEF Has
  <2> QED  BY <2>1, <2>2
<1>9. Unique(aged)
  <2> SUFFICES ASSUME NEW j \in 1 .. Len(heap) - 1, NEW k \in 1 .. Len(heap) - 1,
                      aged[j].kind = aged[k].kind, aged[j].who = aged[k].who
               PROVE  j = k
    BY <1>5 DEF Unique
  <2>1. heap[at(j)].kind = heap[at(k)].kind /\ heap[at(j)].who = heap[at(k)].who
    BY <1>4
  <2>2. at(j) = at(k)  BY <1>3, <2>1 DEF Unique
  <2> QED  BY <1>1, <2>2
<1>10. ~ \E kd, w : Has(aged, kd, w) /\ Has(pushed, kd, w)  BY <1>8
<1>11. /\ heap' \in Seq(Events) /\ Unique(heap')
       /\ \A kd, w : Has(heap', kd, w) <=> Has(aged, kd, w) \/ Has(pushed, kd, w)
  BY <1>5, <1>6, <1>9, <1>10, JoinEvents
<1>12. Has(heap, kind, who)  BY <1>1 DEF Has
<1> QED  BY <1>8, <1>11, <1>12
-------------------------------------------------------------------------------
(* Where the request of client c is: about to arrive, in the queue of the  *)
(* prefill worker w, waiting for a transfer buffer, flying, pending or     *)
(* running on the decode worker w.                                         *)
Home(c, t, w) ==
  /\ t \in {"arriving", "queued", "waiting", "flying", "pending", "running"}
  /\ t = "queued" => w \in PrefillWorkers
  /\ t \in {"pending", "running"} => w \in DecodeWorkers
  /\ Has(heap, "Arrival", c) <=> t = "arriving"
  /\ Has(heap, "KvArrived", c) <=> t = "flying"
  /\ c \in Elems(xfer_queue) <=> t = "waiting"
  /\ \A p \in PrefillWorkers : c \in queue[p] <=> t = "queued" /\ w = p
  /\ \A d \in DecodeWorkers : c \in Elems(pending[d]) <=> t = "pending" /\ w = d
  /\ \A d \in DecodeWorkers : c \in Running(d) <=> t = "running" /\ w = d

Homes == \A c \in Clients : \E t, w : Home(c, t, w)

(* The type invariant but for the bound on xfer_busy, which Buffers gives. *)
Shape ==
  /\ per_step \in TokensPerStep
  /\ heap \in Seq(Events)
  /\ queue \in [PrefillWorkers -> SUBSET Clients]
  /\ batch \in [PrefillWorkers -> SUBSET Clients]
  /\ left \in [Clients -> 0 .. Chunks]
  /\ dest \in [Clients -> DecodeWorkers]
  /\ xfer_queue \in Seq(Clients)
  /\ pending \in [DecodeWorkers -> Seq(Clients)]
  /\ stepping \in [DecodeWorkers -> BOOLEAN]
  /\ free \in [DecodeWorkers -> 0 .. TotalBlocks]
  /\ held \in [DecodeWorkers -> SUBSET Clients]
  /\ emitted \in [DecodeWorkers -> UNION {[S -> 1 .. Osl] : S \in SUBSET Clients}]

(* No event is scheduled twice and no request is twice in a queue.         *)
Once ==
  /\ Unique(heap) /\ Distinct(xfer_queue)
  /\ \A d \in DecodeWorkers : Distinct(pending[d])

(* A queued request has chunks left, so that a batch finishes once.        *)
ChunksLeft == \A p \in PrefillWorkers : \A c \in queue[p] : left[c] # 0

PrefillAwake ==
  \A p \in PrefillWorkers :
    /\ queue[p] # {} <=> batch[p] # {}
    /\ batch[p] \subseteq queue[p]
    /\ Has(heap, "PrefillDone", p) <=> batch[p] # {}

DecodeAwake ==
  \A d \in DecodeWorkers :
    /\ pending[d] # <<>> \/ Running(d) # {} => stepping[d]
    /\ Has(heap, "DecodeStep", d) <=> stepping[d]

Flying == {c \in Clients : Has(heap, "KvArrived", c)}
Capacity == IF XferConcurrency > 1 THEN XferConcurrency ELSE 1

Buffers ==
  /\ xfer_busy = Cardinality(Flying) /\ xfer_busy <= Capacity
  /\ xfer_queue # <<>> => xfer_busy = Capacity

(***************************************************************************)
(* The inductive invariant.  That each request has one home is what the    *)
(* counts rest on: a request that starts to fly was not flying, one that   *)
(* is admitted held no blocks, a worker's event is pushed only when it has *)
(* none.                                                                   *)
(***************************************************************************)
IInv ==
  /\ Shape /\ Once /\ Homes /\ ChunksLeft /\ PrefillAwake /\ DecodeAwake
  /\ Buffers /\ BlocksBalanced /\ RetiresOnTime

-------------------------------------------------------------------------------
(* Facts about the operators of the model.                                 *)
LEMMA ClientsFinite == IsFiniteSet(Clients) /\ Cardinality(Clients) = Concurrency
BY SimulatorAssumption, FS_Interval DEF Clients

LEMMA MinOfTwo ==
  ASSUME NEW a \in Int, NEW b \in Int
  PROVE  Min({a, b}) = IF a <= b THEN a ELSE b
<1>1. PICK m \in {a, b} : m = (IF a <= b THEN a ELSE b) /\ \A y \in {a, b} : m <= y
  OBVIOUS
<1>2. \A x \in {a, b} : (\A y \in {a, b} : x <= y) => x = m  BY <1>1
<1>3. Min({a, b}) = m  BY <1>1, <1>2 DEF Min
<1> QED  BY <1>1, <1>3

LEMMA MaxOfTwo == Max({XferConcurrency, 1}) = Capacity
<1> DEFINE S == {XferConcurrency, 1}
<1>1. XferConcurrency \in Nat  BY SimulatorAssumption
<1>2. Capacity \in S /\ Capacity \in Nat /\ \A y \in S : Capacity >= y
  BY <1>1 DEF Capacity
<1>3. \A x \in S : (\A y \in S : x >= y) => x = Capacity  BY <1>1, <1>2
<1> HIDE DEF S
<1>4. Max(S) = Capacity  BY <1>2, <1>3 DEF Max
<1> QED  BY <1>4 DEF S

(* Transfers start while there is a buffer and someone who waits for it.   *)
LEMMA DrainedFacts ==
  ASSUME NEW busy \in Nat, busy <= Capacity, NEW S, NEW s \in Seq(S)
  PROVE  /\ Drained(busy, s) \in 0 .. Len(s)
         /\ busy + Drained(busy, s) <= Capacity
         /\ Drained(busy, s) < Len(s) => busy + Drained(busy, s) = Capacity
<1>1. PICK n \in Nat : n = Len(s)  OBVIOUS
<1>2. PICK cap \in Nat : cap = Capacity  BY SimulatorAssumption DEF Capacity
<1>3. Drained(busy, s) = IF busy >= cap THEN 0 ELSE Min({cap - busy, n})
  BY <1>1, <1>2 DEF Drained, Capacity
<1>4. Min({cap - busy, n}) = IF cap - busy <= n THEN cap - busy ELSE n
  BY MinOfTwo
<1> QED  BY <1>1, <1>2, <1>3, <1>4

LEMMA UnionCounted ==
  ASSUME NEW S, NEW T, IsFiniteSet(S), IsFiniteSet(T), S \cap T = {}
  PROVE  /\ IsFiniteSet(S \cup T)
         /\ Cardinality(S \cup T) = Cardinality(S) + Cardinality(T)
<1>1. Cardinality(S \cap T) = 0  BY FS_EmptySet
<1>2. Cardinality(S) \in Nat /\ Cardinality(T) \in Nat  BY FS_CardinalityType
<1>3. /\ IsFiniteSet(S \cup T)
      /\ Cardinality(S \cup T) = Cardinality(S) + Cardinality(T) - Cardinality(S \cap T)
  BY FS_Union
<1> QED  BY <1>1, <1>2, <1>3

(* An order of a finite set names each element once.                       *)
LEMMA OrderFacts ==
  ASSUME NEW S, S \subseteq Clients, NEW s \in SetToSeqs(S)
  PROVE  s \in Seq(Clients) /\ Distinct(s) /\ Elems(s) = S /\ Len(s) = Cardinality(S)
<1>1. IsFiniteSet(S) /\ Cardinality(S) \in Nat
  BY ClientsFinite, FS_Subset, FS_CardinalityType
<1>2. PICK n \in Nat : n = Cardinality(S)  BY <1>1
<1>3. s \in [1 .. n -> S] /\ \A i, j \in 1 .. n : i # j => s[i] # s[j]
  BY <1>2 DEF SetToSeqs
<1>4. s \in Seq(S) /\ Len(s) = n  BY <1>3
<1>5. s \in Seq(Clients)  BY <1>3, <1>4
<1>6. Distinct(s)  BY <1>3, <1>4 DEF Distinct
<1>7. s \in Injection(1 .. n, S)  BY <1>3 DEF Injection, IsInjective
<1>8. IsFiniteSet(1 .. n) /\ Cardinality(1 .. n) = n  BY FS_Interval
<1>9. s \in Surjection(1 .. n, S)  BY <1>1, <1>2, <1>7, <1>8, FS_Injection
<1>10. Elems(s) = S  BY <1>3, <1>4, <1>9 DEF Surjection, Elems
<1> QED  BY <1>2, <1>4, <1>5, <1>6, <1>10

(* The transfers in flight, counted by event and by request.               *)
LEMMA FlyingCounted ==
  ASSUME heap \in Seq(Events), Unique(heap)
  PROVE  /\ IsFiniteSet(Flying) /\ Cardinality(Flying) \in Nat
         /\ Cardinality(Flying) <= Cardinality(Clients)
         /\ Cardinality({k \in 1 .. Len(heap) : heap[k].kind = "KvArrived"})
              = Cardinality(Flying)
<1> DEFINE K == {k \in 1 .. Len(heap) : heap[k].kind = "KvArrived"}
           f == [k \in K |-> heap[k].who]
<1>1. Flying \subseteq Clients  BY DEF Flying
<1>2. /\ IsFiniteSet(Flying) /\ Cardinality(Flying) \in Nat
      /\ Cardinality(Flying) <= Cardinality(Clients)
  BY <1>1, ClientsFinite, FS_Subset, FS_CardinalityType
<1>3. Len(heap) \in Nat /\ \A k \in 1 .. Len(heap) : heap[k] \in Events  OBVIOUS
<1>4. \A k \in K : heap[k].who \in Flying
  <2> TAKE k \in K
  <2>1. heap[k].who \in Clients  BY <1>3 DEF Events
  <2> QED  BY <2>1 DEF Flying, Has
<1>5. \A j, k \in K : heap[j].who = heap[k].who => j = k  BY DEF Unique
<1>6. \A c \in Flying : \E k \in K : heap[k].who = c  BY DEF Flying, Has
<1> HIDE DEF K
<1>7. f \in Bijection(K, Flying)
  BY <1>4, <1>5, <1>6 DEF Bijection, Injection, Surjection, IsInjective
<1>8. ExistsBijection(K, Flying)  BY <1>7 DEF ExistsBijection
<1>9. IsFiniteSet(K)
  <2>1. IsFiniteSet(1 .. Len(heap))  BY <1>3, FS_Interval
  <2> QED  BY <2>1, FS_Subset DEF K
<1>10. Cardinality(Flying) = Cardinality(K)  BY <1>8, <1>9, FS_Bijection
<1> QED  BY <1>2, <1>10 DEF K

LEMMA ScheduledOnce ==
  ASSUME heap \in Seq(Events), Unique(heap), NEW kind, NEW who
  PROVE  Scheduled(kind, who) = IF Has(heap, kind, who) THEN 1 ELSE 0
<1> DEFINE K == {k \in 1 .. Len(heap) : heap[k].kind = kind /\ heap[k].who = who}
<1>1. CASE Has(heap, kind, who)
  <2>1. PICK k \in 1 .. Len(heap) : heap[k].kind = kind /\ heap[k].who = who
    BY <1>1 DEF Has
  <2>2. K = {k}  BY <2>1 DEF Unique
  <2> QED  BY <1>1, <2>2, FS_Singleton DEF Scheduled
<1>2. CASE ~ Has(heap, kind, who)
  <2>1. K = {}  BY <1>2 DEF Has
  <2> QED  BY <1>2, <2>1, FS_EmptySet DEF Scheduled
<1> QED  BY <1>1, <1>2

-------------------------------------------------------------------------------
(* What the inductive invariant says of the properties.                    *)
LEMMA RunningFacts ==
  ASSUME Shape, NEW d \in DecodeWorkers
  PROVE  /\ Running(d) \subseteq Clients
         /\ emitted[d] = [c \in Running(d) |-> emitted[d][c]]
         /\ \A c \in Running(d) : emitted[d][c] \in 1 .. Osl
<1>1. PICK S \in SUBSET Clients : emitted[d] \in [S -> 1 .. Osl]  BY DEF Shape
<1> QED  BY <1>1 DEF Running

LEMMA TypeFollows == IInv => TypeOK
<1> SUFFICES ASSUME IInv PROVE TypeOK  OBVIOUS
<1>1. xfer_busy \in 0 .. Cardinality(Clients)
  <2>1. Cardinality(Clients) \in Nat  BY ClientsFinite, FS_CardinalityType
  <2> QED  BY <2>1, FlyingCounted DEF IInv, Shape, Once, Buffers
<1> QED  BY <1>1 DEF IInv, Shape, TypeOK

LEMMA ResourcesFollow == IInv => ResourcesExact
<1> SUFFICES ASSUME IInv PROVE ResourcesExact  OBVIOUS
<1>1. BuffersConserved
  BY FlyingCounted, MaxOfTwo DEF IInv, Shape, Once, Buffers, BuffersConserved
<1> QED  BY <1>1, TypeFollows DEF IInv, ResourcesExact

LEMMA WakeupsFollow == IInv => NoLostWakeup
<1> SUFFICES ASSUME IInv PROVE NoLostWakeup  OBVIOUS
<1>1. ASSUME NEW p \in PrefillWorkers
      PROVE  Scheduled("PrefillDone", p) = Bool(batch[p] # {})
  BY ScheduledOnce DEF IInv, Shape, Once, PrefillAwake, Bool
<1>2. ASSUME NEW d \in DecodeWorkers
      PROVE  Scheduled("DecodeStep", d) = Bool(stepping[d])
  BY ScheduledOnce DEF IInv, Shape, Once, DecodeAwake, Bool
<1> QED  BY <1>1, <1>2 DEF IInv, PrefillAwake, DecodeAwake, NoLostWakeup

LEMMA OnePosition ==
  ASSUME NEW s, NEW c, Distinct(s)
  PROVE  IF c \in Elems(s) THEN \E k : Positions(s, c) = {k} ELSE Positions(s, c) = {}
<1>1. CASE c \in Elems(s)
  <2>1. PICK k \in 1 .. Len(s) : s[k] = c  BY <1>1 DEF Elems
  <2>2. Positions(s, c) = {k}  BY <2>1 DEF Positions, Distinct
  <2> QED  BY <1>1, <2>2
<1>2. CASE c \notin Elems(s)  BY <1>2 DEF Elems, Positions
<1> QED  BY <1>1, <1>2

LEMMA LoopFollows == IInv => ClosedLoop
<1> SUFFICES ASSUME IInv, NEW c \in Clients PROVE \E x : Places(c) = {x}
  BY FS_Singleton DEF ClosedLoop
<1>1. PICK t, w : Home(c, t, w)  BY DEF IInv, Homes
<1> DEFINE E == EventsFor(c)
           Q == {p \in PrefillWorkers : c \in queue[p]}
           X == Positions(xfer_queue, c)
           P(d) == Positions(pending[d], c)
           R == {d \in DecodeWorkers : c \in Running(d)}
           PP == UNION {{<<"pending", d, k>> : k \in P(d)} : d \in DecodeWorkers}
<1>2. Places(c) = UNION {{<<"heap", k>> : k \in E}, {<<"queue", p>> : p \in Q},
                         {<<"xfer_queue", k>> : k \in X}, PP,
                         {<<"running", d>> : d \in R}}
  BY DEF Places
<1>3. IF t \in {"arriving", "flying"} THEN \E k : E = {k} ELSE E = {}
  <2>1. CASE t \in {"arriving", "flying"}
    <3>1. PICK k \in E : TRUE  BY <1>1, <2>1 DEF Home, Has, EventsFor
    <3>2. ASSUME NEW j \in E PROVE heap[j].kind = heap[k].kind
      BY <1>1 DEF Home, Has, EventsFor
    <3>3. E = {k}  BY <3>1, <3>2 DEF IInv, Once, Unique, EventsFor
    <3> QED  BY <2>1, <3>3
  <2>2. CASE t \notin {"arriving", "flying"}
    BY <1>1, <2>2 DEF Home, Has, EventsFor
  <2> QED  BY <2>1, <2>2
<1>4. Q = IF t = "queued" THEN {w} ELSE {}  BY <1>1 DEF Home
<1>5. IF t = "waiting" THEN \E k : X = {k} ELSE X = {}
  BY <1>1, OnePosition DEF Home, IInv, Once
<1>6. ASSUME NEW d \in DecodeWorkers
      PROVE  IF t = "pending" /\ w = d THEN \E k : P(d) = {k} ELSE P(d) = {}
  BY <1>1, OnePosition DEF Home, IInv, Once
<1>7. R = IF t = "running" THEN {w} ELSE {}  BY <1>1 DEF Home
<1> HIDE DEF E, Q, X, R
<1>8. IF t = "pending" THEN \E k : PP = {<<"pending", w, k>>} ELSE PP = {}
  <2>1. CASE t = "pending"
    <3>1. w \in DecodeWorkers  BY <1>1, <2>1 DEF Home
    <3>2. PICK k : P(w) = {k}  BY <1>6, <2>1, <3>1
    <3>3. \A d \in DecodeWorkers : d # w => P(d) = {}  BY <1>6
    <3> HIDE DEF P
    <3>4. PP = {<<"pending", w, k>>}  BY <3>1, <3>2, <3>3
    <3> QED  BY <2>1, <3>4
  <2>2. CASE t # "pending"
    <3>1. \A d \in DecodeWorkers : P(d) = {}  BY <1>6, <2>2
    <3> HIDE DEF P
    <3> QED  BY <2>2, <3>1
  <2> QED  BY <2>1, <2>2
<1> HIDE DEF PP
<1>9. t \in {"arriving", "queued", "waiting", "flying", "pending", "running"}
  BY <1>1 DEF Home
<1>10. CASE t \in {"arriving", "flying"}
  <2>1. PICK k : E = {k}  BY <1>3, <1>10
  <2>2. Places(c) = {<<"heap", k>>}  BY <1>2, <1>4, <1>5, <1>7, <1>8, <1>10, <2>1
  <2> QED  BY <2>2
<1>11. CASE t = "queued"
  <2>1. Places(c) = {<<"queue", w>>}  BY <1>2, <1>3, <1>4, <1>5, <1>7, <1>8, <1>11
  <2> QED  BY <2>1
<1>12. CASE t = "waiting"
  <2>1. PICK k : X = {k}  BY <1>5, <1>12
  <2>2. Places(c) = {<<"xfer_queue", k>>}
    BY <1>2, <1>3, <1>4, <1>7, <1>8, <1>12, <2>1
  <2> QED  BY <2>2
<1>13. CASE t = "pending"
  <2>1. PICK k : PP = {<<"pending", w, k>>}  BY <1>8, <1>13
  <2>2. Places(c) = {<<"pending", w, k>>}
    BY <1>2, <1>3, <1>4, <1>5, <1>7, <1>13, <2>1
  <2> QED  BY <2>2
<1>14. CASE t = "running"
  <2>1. Places(c) = {<<"running", w>>}
    BY <1>2, <1>3, <1>4, <1>5, <1>7, <1>8, <1>14
  <2> QED  BY <2>1
<1> QED  BY <1>9, <1>10, <1>11, <1>12, <1>13, <1>14

-------------------------------------------------------------------------------
LEMMA InitEstablishes == Init => IInv
<1> SUFFICES ASSUME Init PROVE IInv  OBVIOUS
<1>1. Concurrency \in Nat /\ Osl \in Nat /\ TotalBlocks \in Nat
  BY SimulatorAssumption
<1>2. PICK h : h = [c \in 1 .. Concurrency |-> Event(0, "Arrival", c)]  OBVIOUS
<1>3. heap = h  BY <1>2 DEF Init, Clients
<1>4. /\ h \in Seq(Events) /\ Len(h) = Concurrency
      /\ \A k \in 1 .. Concurrency : h[k].kind = "Arrival" /\ h[k].who = k
  <2>1. \A k \in 1 .. Concurrency : Event(0, "Arrival", k) \in Events
    BY DEF Event, Events, Clients
  <2> QED  BY <1>1, <1>2, <2>1 DEF Event
<1>5. Unique(heap)  BY <1>3, <1>4 DEF Unique
<1>6. \A kd, w : Has(heap, kd, w) <=> kd = "Arrival" /\ w \in Clients
  BY <1>3, <1>4 DEF Has, Clients
<1>7. Distinct(<<>>) /\ Elems(<<>>) = {}  BY DEF Distinct, Elems
<1>8. \A d \in DecodeWorkers : emitted[d] \in [{} -> 1 .. Osl] /\ Running(d) = {}
  BY DEF Init, Running
<1>9. Shape
  <2>1. emitted \in [DecodeWorkers -> UNION {[S -> 1 .. Osl] : S \in SUBSET Clients}]
    BY <1>8 DEF Init
  <2>2. (CHOOSE d \in DecodeWorkers : TRUE) \in DecodeWorkers
    BY SimulatorAssumption
  <2>3. dest \in [Clients -> DecodeWorkers]
    <3>1. PICK e \in DecodeWorkers : e = CHOOSE d \in DecodeWorkers : TRUE
      BY <2>2
    <3>2. dest \in [Clients -> {e}]  BY <3>1 DEF Init
    <3> QED  BY <3>2
  <2>4. left \in [Clients -> 0 .. Chunks]  BY SimulatorAssumption DEF Init
  <2>5. free \in [DecodeWorkers -> 0 .. TotalBlocks]  BY <1>1 DEF Init
  <2>6. xfer_queue \in Seq(Clients) /\ pending \in [DecodeWorkers -> Seq(Clients)]
    BY DEF Init
  <2> QED  BY <1>3, <1>4, <2>1, <2>3, <2>4, <2>5, <2>6 DEF Init, Shape
<1>10. Once  BY <1>5, <1>7 DEF Init, Once
<1>11. Homes
  <2> SUFFICES ASSUME NEW c \in Clients PROVE Home(c, "arriving", c)
    BY DEF Homes
  <2> QED  BY <1>6, <1>7, <1>8 DEF Init, Home
<1>12. ChunksLeft /\ PrefillAwake
  BY <1>6 DEF Init, ChunksLeft, PrefillAwake
<1>13. DecodeAwake  BY <1>6, <1>8 DEF Init, DecodeAwake
<1>14. Buffers
  <2>1. Flying = {}  BY <1>6 DEF Flying
  <2>2. Capacity \in Nat /\ 0 <= Capacity  BY SimulatorAssumption DEF Capacity
  <2> QED  BY <2>1, <2>2, FS_EmptySet DEF Init, Buffers
<1>15. BlocksBalanced
  <2>1. NeedBlocks * 0 = 0  BY SimulatorAssumption
  <2> QED  BY <1>1, <1>8, <2>1, FS_EmptySet DEF Init, BlocksBalanced
<1>16. RetiresOnTime  BY <1>8 DEF RetiresOnTime, NeverOverstays
<1> QED  BY <1>9, <1>10, <1>11, <1>12, <1>13, <1>14, <1>15, <1>16 DEF IInv

-------------------------------------------------------------------------------
LEMMA PrefillEventsFacts ==
  ASSUME NEW p \in PrefillWorkers, NEW chosen \in SUBSET Clients
  PROVE  /\ PrefillEvents(p, chosen) \in Seq(Events) /\ Unique(PrefillEvents(p, chosen))
         /\ \A kd, w : Has(PrefillEvents(p, chosen), kd, w) <=>
                         chosen # {} /\ kd = "PrefillDone" /\ w = p
<1>1. CASE chosen = {}
  BY <1>1, NoEvent DEF PrefillEvents
<1>2. CASE chosen # {}
  <2>1. Cardinality(chosen) \in Nat
    BY ClientsFinite, FS_Subset, FS_CardinalityType
  <2>2. BatchMs(Cardinality(chosen)) \in Nat  BY <2>1 DEF BatchMs
  <2>3. PICK e : e = Event(BatchMs(Cardinality(chosen)), "PrefillDone", p)  OBVIOUS
  <2>4. e \in Events /\ e.kind = "PrefillDone" /\ e.who = p
    BY <2>2, <2>3 DEF Event, Events
  <2>5. PrefillEvents(p, chosen) = <<e>>  BY <1>2, <2>3 DEF PrefillEvents
  <2> QED  BY <1>2, <2>4, <2>5, OneEvent
<1> QED  BY <1>1, <1>2

LEMMA ArrivalPreserves ==
  ASSUME IInv, NEW c \in Clients, NEW p \in PrefillWorkers, NEW d \in DecodeWorkers,
         OnArrival(c, p, d)
  PROVE  IInv'
<1>1. PICK chosen \in SUBSET Clients :
        /\ StartsPrefill(p, chosen, queue[p] \cup {c}, batch[p] = {})
        /\ Pop("Arrival", c, PrefillEvents(p, chosen))
        /\ dest' = [dest EXCEPT ![c] = d]
        /\ queue' = [queue EXCEPT ![p] = @ \cup {c}]
        /\ left' = [left EXCEPT ![c] = Chunks]
        /\ batch' = [batch EXCEPT ![p] = IF chosen = {} THEN @ ELSE chosen]
        /\ UNCHANGED <<per_step, xfer_busy, xfer_queue, decodeVars>>
  BY DEF OnArrival
<1>2. /\ chosen # {} => batch[p] = {} /\ chosen \subseteq queue[p] \cup {c}
      /\ chosen = {} => batch[p] # {}
  BY <1>1 DEF StartsPrefill
<1>3. chosen # {} => ~ Has(heap, "PrefillDone", p)
  BY <1>2 DEF IInv, PrefillAwake
<1>4. /\ heap' \in Seq(Events) /\ Unique(heap') /\ Has(heap, "Arrival", c)
      /\ \A kd, w : Has(heap', kd, w) <=>
                      \/ Has(heap, kd, w) /\ ~ (kd = "Arrival" /\ w = c)
                      \/ chosen # {} /\ kd = "PrefillDone" /\ w = p
  <2>1. PICK pushed : pushed = PrefillEvents(p, chosen)  OBVIOUS
  <2>2. /\ pushed \in Seq(Events) /\ Unique(pushed)
        /\ \A kd, w : Has(pushed, kd, w) <=> chosen # {} /\ kd = "PrefillDone" /\ w = p
    BY <2>1, PrefillEventsFacts
  <2>3. \A kd, w : Has(pushed, kd, w) /\ Has(heap, kd, w) => kd = "Arrival" /\ w = c
    BY <1>3, <2>2
  <2>4. Pop("Arrival", c, pushed)  BY <1>1, <2>1
  <2>5. heap \in Seq(Events) /\ Unique(heap)  BY DEF IInv, Shape, Once
  <2> QED  BY <2>2, <2>3, <2>4, <2>5, PopFacts
<1>5. /\ DOMAIN queue = PrefillWorkers /\ DOMAIN batch = PrefillWorkers
      /\ queue'[p] = queue[p] \cup {c}
      /\ \A q \in PrefillWorkers : q # p => queue'[q] = queue[q] /\ batch'[q] = batch[q]
      /\ batch'[p] = IF chosen = {} THEN batch[p] ELSE chosen
  BY <1>1 DEF IInv, Shape
<1>6. UNCHANGED <<per_step, xfer_busy, xfer_queue, pending, stepping, free, held, emitted>>
  BY <1>1 DEF decodeVars
<1>7. Shape'
  <2>1. Chunks \in 0 .. Chunks  BY SimulatorAssumption
  <2> QED  BY <1>1, <1>4, <1>6, <2>1 DEF IInv, Shape
<1>8. Once'  BY <1>4, <1>6 DEF IInv, Once
<1>9. Homes'
  <2> SUFFICES ASSUME NEW b \in Clients PROVE \E t, w : Home(b, t, w)'
    BY DEF Homes
  <2>1. PICK t, w : Home(b, t, w)  BY DEF IInv, Homes
  <2>2. CASE b = c
    <3>1. t = "arriving"  BY <1>4, <2>1, <2>2 DEF Home
    <3>2. Home(b, "queued", p)'
      BY <1>4, <1>5, <1>6, <2>1, <2>2, <3>1 DEF Home, Running
    <3> QED  BY <3>2
  <2>3. CASE b # c
    <3>1. Home(b, t, w)'
      BY <1>4, <1>5, <1>6, <2>1, <2>3 DEF Home, Running
    <3> QED  BY <3>1
  <2> QED  BY <2>2, <2>3
<1>10. ChunksLeft'
  <2>1. Chunks # 0  BY SimulatorAssumption
  <2> QED  BY <1>1, <1>5, <2>1 DEF IInv, Shape, ChunksLeft
<1>11. PrefillAwake'
  <2> SUFFICES ASSUME NEW q \in PrefillWorkers
               PROVE  /\ queue'[q] # {} <=> batch'[q] # {}
                      /\ batch'[q] \subseteq queue'[q]
                      /\ Has(heap', "PrefillDone", q) <=> batch'[q] # {}
    BY DEF PrefillAwake
  <2>1. CASE q = p  BY <1>2, <1>4, <1>5, <2>1 DEF IInv, PrefillAwake
  <2>2. CASE q # p  BY <1>4, <1>5, <2>2 DEF IInv, PrefillAwake
  <2> QED  BY <2>1, <2>2
<1>12. DecodeAwake'  BY <1>4, <1>6 DEF IInv, DecodeAwake, Running
<1>13. Buffers'
  <2>1. Flying' = Flying  BY <1>4 DEF Flying
  <2> QED  BY <1>6, <2>1 DEF IInv, Buffers
<1>14. BlocksBalanced' /\ RetiresOnTime'
  BY <1>6 DEF IInv, BlocksBalanced, RetiresOnTime, NeverOverstays, Running
<1> QED  BY <1>7, <1>8, <1>9, <1>10, <1>11, <1>12, <1>13, <1>14 DEF IInv

-------------------------------------------------------------------------------
(* A batch is done: the prompts it finished queue for a buffer, and those  *)
(* at the head of the queue fly.                                           *)
LEMMA PrefillDonePreserves ==
  ASSUME IInv, NEW p \in PrefillWorkers, OnPrefillDone(p)
  PROVE  IInv'
<1>1. PICK finished : finished = {c \in batch[p] : left[c] = 1}  OBVIOUS
<1>2. PICK chosen \in SUBSET Clients, order \in SetToSeqs(finished) :
        LET waiting == xfer_queue \o order
            n == Drained(xfer_busy, waiting)
        IN /\ StartsPrefill(p, chosen, queue[p] \ finished, TRUE)
           /\ Pop("PrefillDone", p, Transfers(waiting, n) \o PrefillEvents(p, chosen))
           /\ left' = [c \in Clients |-> IF c \in batch[p] THEN left[c] - 1 ELSE left[c]]
           /\ queue' = [queue EXCEPT ![p] = @ \ finished]
           /\ batch' = [batch EXCEPT ![p] = chosen]
           /\ xfer_busy' = xfer_busy + n
           /\ xfer_queue' = SubSeq(waiting, n + 1, Len(waiting))
           /\ UNCHANGED <<per_step, dest, decodeVars>>
  BY <1>1 DEF OnPrefillDone
<1>3. PICK waiting : waiting = xfer_queue \o order  OBVIOUS
<1>4. PICK n : n = Drained(xfer_busy, waiting)  OBVIOUS
<1>5. /\ StartsPrefill(p, chosen, queue[p] \ finished, TRUE)
      /\ Pop("PrefillDone", p, Transfers(waiting, n) \o PrefillEvents(p, chosen))
      /\ left' = [c \in Clients |-> IF c \in batch[p] THEN left[c] - 1 ELSE left[c]]
      /\ queue' = [queue EXCEPT ![p] = @ \ finished]
      /\ batch' = [batch EXCEPT ![p] = chosen]
      /\ xfer_busy' = xfer_busy + n
      /\ xfer_queue' = SubSeq(waiting, n + 1, Len(waiting))
      /\ UNCHANGED <<per_step, dest, pending, stepping, free, held, emitted>>
  BY <1>2, <1>3, <1>4 DEF decodeVars
<1>6. /\ finished \subseteq queue[p] /\ finished \subseteq Clients
      /\ batch[p] \subseteq queue[p] /\ queue[p] \subseteq Clients
  BY <1>1 DEF IInv, Shape, PrefillAwake
<1>7. order \in Seq(Clients) /\ Distinct(order) /\ Elems(order) = finished
  BY <1>6, OrderFacts
<1>8. /\ heap \in Seq(Events) /\ Unique(heap) /\ xfer_queue \in Seq(Clients)
      /\ Distinct(xfer_queue) /\ Elems(xfer_queue) \subseteq Clients
  BY DEF IInv, Shape, Once, Elems
<1>9. \A c \in finished : c \notin Elems(xfer_queue) /\ ~ Has(heap, "KvArrived", c)
  <2> TAKE c \in finished
  <2>1. c \in Clients /\ c \in queue[p]  BY <1>6
  <2>2. PICK t, w : Home(c, t, w)  BY <2>1 DEF IInv, Homes
  <2>3. t = "queued"  BY <2>1, <2>2 DEF Home
  <2> QED  BY <2>2, <2>3 DEF Home
<1>10. /\ waiting \in Seq(Clients) /\ Distinct(waiting)
       /\ Elems(waiting) = Elems(xfer_queue) \cup finished
  <2>1. Elems(xfer_queue) \cap Elems(order) = {}  BY <1>7, <1>9
  <2> QED  BY <1>3, <1>7, <1>8, <2>1, JoinFacts
<1>11. /\ xfer_busy \in Nat /\ xfer_busy <= Capacity /\ n \in 0 .. Len(waiting)
       /\ xfer_busy + n <= Capacity
       /\ n < Len(waiting) => xfer_busy + n = Capacity
  <2>1. xfer_busy \in Nat /\ xfer_busy <= Capacity
    BY <1>8, FlyingCounted DEF IInv, Buffers
  <2> QED  BY <1>4, <1>10, <2>1, DrainedFacts
<1>12. PICK gone : gone = First(waiting, n)  OBVIOUS
<1>13. /\ xfer_queue' \in Seq(Clients) /\ Len(xfer_queue') = Len(waiting) - n
       /\ Distinct(xfer_queue') /\ Elems(xfer_queue') = Elems(waiting) \ gone
       /\ gone \subseteq Elems(waiting) /\ gone \subseteq Clients
       /\ IsFiniteSet(gone) /\ Cardinality(gone) = n
  <2>1. n \in 0 .. Len(waiting)  BY <1>11
  <2>2. PICK rest : rest = xfer_queue'  OBVIOUS
  <2>3. rest = Rest(waiting, n)  BY <1>5, <2>2 DEF Rest
  <2>4. /\ rest \in Seq(Clients) /\ Len(rest) = Len(waiting) - n
        /\ Distinct(rest) /\ Elems(rest) = Elems(waiting) \ gone
        /\ gone \subseteq Elems(waiting) /\ Elems(waiting) \subseteq Clients
        /\ IsFiniteSet(gone) /\ Cardinality(gone) = n
    BY <1>10, <1>12, <2>1, <2>3, TailFacts
  <2> QED  BY <2>2, <2>4
<1>14. \A c \in gone : ~ Has(heap, "KvArrived", c)
  <2> TAKE c \in gone
  <2>1. c \in Clients /\ (c \in Elems(xfer_queue) \/ c \in finished)
    BY <1>10, <1>13
  <2>2. ASSUME c \in Elems(xfer_queue) PROVE ~ Has(heap, "KvArrived", c)
    <3>1. PICK t, w : Home(c, t, w)  BY <2>1 DEF IInv, Homes
    <3> QED  BY <2>2, <3>1 DEF Home
  <2> QED  BY <1>9, <2>1, <2>2
<1>15. /\ heap' \in Seq(Events) /\ Unique(heap') /\ Has(heap, "PrefillDone", p)
       /\ \A kd, w : Has(heap', kd, w) <=>
                       \/ Has(heap, kd, w) /\ ~ (kd = "PrefillDone" /\ w = p)
                       \/ kd = "KvArrived" /\ w \in gone
                       \/ chosen # {} /\ kd = "PrefillDone" /\ w = p
  <2>1. PICK a : a = Transfers(waiting, n)  OBVIOUS
  <2>2. PICK b : b = PrefillEvents(p, chosen)  OBVIOUS
  <2>3. /\ a \in Seq(Events) /\ Unique(a)
        /\ \A kd, w : Has(a, kd, w) <=> kd = "KvArrived" /\ w \in gone
    BY <1>10, <1>11, <1>12, <2>1, TransfersFacts
  <2>4. /\ b \in Seq(Events) /\ Unique(b)
        /\ \A kd, w : Has(b, kd, w) <=> chosen # {} /\ kd = "PrefillDone" /\ w = p
    BY <2>2, PrefillEventsFacts
  <2>5. PICK pushed : pushed = a \o b  OBVIOUS
  <2>6. /\ pushed \in Seq(Events) /\ Unique(pushed)
        /\ \A kd, w : Has(pushed, kd, w) <=> Has(a, kd, w) \/ Has(b, kd, w)
    BY <2>3, <2>4, <2>5, JoinEvents
  <2>7. \A kd, w : Has(pushed, kd, w) /\ Has(heap, kd, w) => kd = "PrefillDone" /\ w = p
    BY <1>14, <2>3, <2>4, <2>6
  <2>8. Pop("PrefillDone", p, pushed)  BY <1>5, <2>1, <2>2, <2>5
  <2>9. /\ heap' \in Seq(Events) /\ Unique(heap') /\ Has(heap, "PrefillDone", p)
        /\ \A kd, w : Has(heap', kd, w) <=>
                        \/ Has(heap, kd, w) /\ ~ (kd = "PrefillDone" /\ w = p)
                        \/ Has(pushed, kd, w)
    BY <1>8, <2>6, <2>7, <2>8, PopFacts
  <2> QED  BY <2>3, <2>4, <2>6, <2>9
<1>16. /\ queue'[p] = queue[p] \ finished /\ batch'[p] = chosen
       /\ \A q \in PrefillWorkers : q # p => queue'[q] = queue[q] /\ batch'[q] = batch[q]
  BY <1>5 DEF IInv, Shape
<1>17. /\ queue[p] \ finished # {} => chosen # {} /\ chosen \subseteq queue[p] \ finished
       /\ queue[p] \ finished = {} => chosen = {}
  BY <1>5 DEF StartsPrefill
<1>18. Shape'
  <2>1. ASSUME NEW c \in Clients PROVE left'[c] \in 0 .. Chunks
    <3>1. left[c] \in 0 .. Chunks  BY DEF IInv, Shape
    <3>2. CASE c \in batch[p]
      <4>1. left[c] # 0  BY <1>6, <3>2 DEF IInv, ChunksLeft
      <4> QED  BY <1>5, <3>1, <3>2, <4>1, SimulatorAssumption
    <3>3. CASE c \notin batch[p]  BY <1>5, <3>1, <3>3
    <3> QED  BY <3>2, <3>3
  <2>2. left' \in [Clients -> 0 .. Chunks]  BY <1>5, <2>1
  <2>3. queue' \in [PrefillWorkers -> SUBSET Clients]
        /\ batch' \in [PrefillWorkers -> SUBSET Clients]
    BY <1>5 DEF IInv, Shape
  <2> QED  BY <1>5, <1>13, <1>15, <2>2, <2>3 DEF IInv, Shape
<1>19. Once'  BY <1>5, <1>13, <1>15 DEF IInv, Once
<1>20. Homes'
  <2> SUFFICES ASSUME NEW b \in Clients PROVE \E t, w : Home(b, t, w)'
    BY DEF Homes
  <2>1. PICK t, w : Home(b, t, w)  BY DEF IInv, Homes
  <2>2. CASE b \in finished
    <3>1. t = "queued" /\ w = p  BY <1>6, <2>1, <2>2 DEF Home
    <3>2. CASE b \in gone
      <4>1. /\ Has(heap', "KvArrived", b) /\ b \notin Elems(xfer_queue')
            /\ ~ Has(heap', "Arrival", b)
        BY <1>13, <1>15, <2>1, <3>1, <3>2 DEF Home
      <4>2. \A q \in PrefillWorkers : b \notin queue'[q]
        BY <1>16, <2>1, <2>2, <3>1 DEF Home
      <4>3. Home(b, "flying", p)'
        BY <1>5, <2>1, <3>1, <4>1, <4>2 DEF Home, Running
      <4> QED  BY <4>3
    <3>3. CASE b \notin gone
      <4>1. Home(b, "waiting", p)'
        BY <1>5, <1>10, <1>13, <1>15, <1>16, <2>1, <2>2, <3>1, <3>3 DEF Home, Running
      <4> QED  BY <4>1
    <3> QED  BY <3>2, <3>3
  <2>3. CASE b \notin finished /\ b \in gone
    <3>1. t = "waiting"  BY <1>10, <1>13, <2>1, <2>3 DEF Home
    <3>2. Home(b, "flying", p)'
      BY <1>5, <1>10, <1>13, <1>15, <1>16, <2>1, <2>3, <3>1 DEF Home, Running
    <3> QED  BY <3>2
  <2>4. CASE b \notin finished /\ b \notin gone
    <3>1. Home(b, t, w)'
      BY <1>5, <1>10, <1>13, <1>15, <1>16, <2>1, <2>4 DEF Home, Running
    <3> QED  BY <3>1
  <2> QED  BY <2>2, <2>3, <2>4
<1>21. ChunksLeft'
  <2> SUFFICES ASSUME NEW q \in PrefillWorkers, NEW c \in queue'[q]
               PROVE  left'[c] # 0
    BY DEF ChunksLeft
  <2>1. c \in queue[q] /\ c \in Clients  BY <1>16 DEF IInv, Shape
  <2>2. left[c] \in 0 .. Chunks /\ left[c] # 0
    BY <2>1 DEF IInv, Shape, ChunksLeft
  <2>3. CASE c \in batch[p]
    <3>1. PICK t, w : Home(c, t, w)  BY <2>1 DEF IInv, Homes
    <3>2. q = p  BY <1>6, <2>1, <2>3, <3>1 DEF Home
    <3>3. c \notin finished  BY <1>16, <3>2
    <3>4. left[c] # 1  BY <1>1, <2>3, <3>3
    <3>5. left'[c] = left[c] - 1  BY <1>5, <2>1, <2>3
    <3> QED  BY <2>2, <3>4, <3>5
  <2>4. CASE c \notin batch[p]  BY <1>5, <2>1, <2>2, <2>4
  <2> QED  BY <2>3, <2>4
<1>22. PrefillAwake'
  <2> SUFFICES ASSUME NEW q \in PrefillWorkers
               PROVE  /\ queue'[q] # {} <=> batch'[q] # {}
                      /\ batch'[q] \subseteq queue'[q]
                      /\ Has(heap', "PrefillDone", q) <=> batch'[q] # {}
    BY DEF PrefillAwake
  <2>1. CASE q = p  BY <1>15, <1>16, <1>17, <2>1
  <2>2. CASE q # p  BY <1>15, <1>16, <2>2 DEF IInv, PrefillAwake
  <2> QED  BY <2>1, <2>2
<1>23. DecodeAwake'  BY <1>5, <1>15 DEF IInv, DecodeAwake, Running
<1>24. Buffers'
  <2>1. Flying' = Flying \cup gone /\ Flying \cap gone = {}
    BY <1>13, <1>14, <1>15 DEF Flying
  <2>2. IsFiniteSet(Flying) /\ Cardinality(Flying) \in Nat  BY <1>8, FlyingCounted
  <2>3. Cardinality(Flying') = Cardinality(Flying) + n
    BY <1>13, <2>1, <2>2, UnionCounted
  <2>4. xfer_queue' # <<>> => n < Len(waiting)  BY <1>10, <1>11, <1>13
  <2> QED  BY <1>5, <1>11, <2>3, <2>4 DEF IInv, Buffers, Capacity
<1>25. BlocksBalanced' /\ RetiresOnTime'
  BY <1>5 DEF IInv, BlocksBalanced, RetiresOnTime, NeverOverstays, Running
<1> QED  BY <1>18, <1>19, <1>20, <1>21, <1>22, <1>23, <1>24, <1>25 DEF IInv

-------------------------------------------------------------------------------
LEMMA AppendFacts ==
  ASSUME NEW s \in Seq(Clients), Distinct(s), NEW c \in Clients, c \notin Elems(s)
  PROVE  /\ Append(s, c) \in Seq(Clients) /\ Distinct(Append(s, c))
         /\ Elems(Append(s, c)) = Elems(s) \cup {c}
<1>1. PICK r : r = Append(s, c)  OBVIOUS
<1>2. /\ r \in Seq(Clients) /\ Len(r) = Len(s) + 1 /\ Len(s) \in Nat
      /\ r[Len(s) + 1] = c /\ \A k \in 1 .. Len(s) : r[k] = s[k]
  BY <1>1
<1>3. \A k \in 1 .. Len(r) : k \in 1 .. Len(s) \/ k = Len(s) + 1  BY <1>2
<1>4. Elems(r) = Elems(s) \cup {c}
  <2>1. \A k \in 1 .. Len(s) : k \in 1 .. Len(r)  BY <1>2
  <2>2. Len(s) + 1 \in 1 .. Len(r)  BY <1>2
  <2> QED  BY <1>2, <1>3, <2>1, <2>2 DEF Elems
<1>5. Distinct(r)
  <2>1. \A k \in 1 .. Len(s) : s[k] # c  BY DEF Elems
  <2> QED  BY <1>2, <1>3, <2>1 DEF Distinct
<1> QED  BY <1>1, <1>2, <1>4, <1>5

(* A transfer lands: its buffer goes to whoever waits for one, and its     *)
(* request joins the pending ones of a decode worker that has a step       *)
(* scheduled then.                                                         *)
LEMMA KvArrivedPreserves ==
  ASSUME IInv, NEW c \in Clients, OnKvArrived(c)
  PROVE  IInv'
<1>1. PICK d : d = dest[c]  OBVIOUS
<1>2. PICK busy : busy = IF xfer_busy > 0 THEN xfer_busy - 1 ELSE 0  OBVIOUS
<1>3. PICK n : n = Drained(busy, xfer_queue)  OBVIOUS
<1>4. PICK wake : wake = IF ~ stepping[d] THEN <<Event(0, "DecodeStep", d)>> ELSE <<>>
  OBVIOUS
<1>5. /\ Pop("KvArrived", c, Transfers(xfer_queue, n) \o wake)
      /\ xfer_busy' = busy + n
      /\ xfer_queue' = SubSeq(xfer_queue, n + 1, Len(xfer_queue))
      /\ pending' = [pending EXCEPT ![d] = Append(@, c)]
      /\ stepping' = [stepping EXCEPT ![d] = TRUE]
      /\ UNCHANGED <<per_step, queue, batch, left, dest, free, held, emitted>>
  BY <1>1, <1>2, <1>3, <1>4 DEF OnKvArrived, Wakes
<1>6. /\ heap \in Seq(Events) /\ Unique(heap) /\ xfer_queue \in Seq(Clients)
      /\ Distinct(xfer_queue) /\ Elems(xfer_queue) \subseteq Clients
      /\ d \in DecodeWorkers
  BY <1>1 DEF IInv, Shape, Once, Elems
<1>7. Has(heap, "KvArrived", c)
  BY <1>5, <1>6, EarliestFacts DEF Pop, Has
<1>8. PICK tc, wc : Home(c, tc, wc)  BY DEF IInv, Homes
<1>9. tc = "flying"  BY <1>7, <1>8 DEF Home
<1>10. /\ IsFiniteSet(Flying) /\ c \in Flying /\ xfer_busy = Cardinality(Flying)
       /\ busy \in Nat /\ busy = xfer_busy - 1 /\ busy = Cardinality(Flying \ {c})
       /\ busy <= Capacity /\ xfer_busy \in Nat /\ xfer_busy <= Capacity
  <2>1. c \in Flying  BY <1>7 DEF Flying
  <2>2. /\ IsFiniteSet(Flying) /\ Cardinality(Flying) \in Nat
        /\ xfer_busy = Cardinality(Flying) /\ xfer_busy <= Capacity
    BY <1>6, FlyingCounted DEF IInv, Buffers
  <2>3. /\ Cardinality(Flying \ {c}) = Cardinality(Flying) - 1
        /\ Cardinality(Flying \ {c}) \in Nat
    BY <2>1, <2>2, FS_RemoveElement, FS_CardinalityType
  <2>4. Capacity \in Nat  BY SimulatorAssumption DEF Capacity
  <2> QED  BY <1>2, <2>1, <2>2, <2>3, <2>4
<1>11. /\ n \in 0 .. Len(xfer_queue) /\ busy + n <= Capacity
       /\ n < Len(xfer_queue) => busy + n = Capacity
  BY <1>3, <1>6, <1>10, DrainedFacts
<1>12. PICK gone : gone = First(xfer_queue, n)  OBVIOUS
<1>13. /\ xfer_queue' \in Seq(Clients) /\ Len(xfer_queue') = Len(xfer_queue) - n
       /\ Distinct(xfer_queue') /\ Elems(xfer_queue') = Elems(xfer_queue) \ gone
       /\ gone \subseteq Elems(xfer_queue) /\ gone \subseteq Clients
       /\ IsFiniteSet(gone) /\ Cardinality(gone) = n
  <2>1. PICK waiting : waiting = xfer_queue  OBVIOUS
  <2>2. PICK rest : rest = xfer_queue'  OBVIOUS
  <2>3. rest = Rest(waiting, n) /\ gone = First(waiting, n)
    BY <1>5, <1>12, <2>1, <2>2 DEF Rest
  <2>4. waiting \in Seq(Clients) /\ Distinct(waiting) /\ n \in 0 .. Len(waiting)
    BY <1>6, <1>11, <2>1
  <2>5. /\ rest \in Seq(Clients) /\ Len(rest) = Len(waiting) - n
        /\ Distinct(rest) /\ Elems(rest) = Elems(waiting) \ gone
        /\ gone \subseteq Elems(waiting) /\ Elems(waiting) \subseteq Clients
        /\ IsFiniteSet(gone) /\ Cardinality(gone) = n
    BY <2>3, <2>4, TailFacts
  <2> QED  BY <2>1, <2>2, <2>5
<1>14. \A b \in gone : ~ Has(heap, "KvArrived", b)
  <2> TAKE b \in gone
  <2>1. b \in Clients /\ b \in Elems(xfer_queue)  BY <1>13
  <2>2. PICK t, w : Home(b, t, w)  BY <2>1 DEF IInv, Homes
  <2> QED  BY <2>1, <2>2 DEF Home
<1>15. /\ heap' \in Seq(Events) /\ Unique(heap')
       /\ \A kd, w : Has(heap', kd, w) <=>
                       \/ Has(heap, kd, w) /\ ~ (kd = "KvArrived" /\ w = c)
                       \/ kd = "KvArrived" /\ w \in gone
                       \/ ~ stepping[d] /\ kd = "DecodeStep" /\ w = d
  <2>1. PICK a : a = Transfers(xfer_queue, n)  OBVIOUS
  <2>3. /\ a \in Seq(Events) /\ Unique(a)
        /\ \A kd, w : Has(a, kd, w) <=> kd = "KvArrived" /\ w \in gone
    BY <1>6, <1>11, <1>12, <2>1, TransfersFacts
  <2>4. /\ wake \in Seq(Events) /\ Unique(wake)
        /\ \A kd, w : Has(wake, kd, w) <=> ~ stepping[d] /\ kd = "DecodeStep" /\ w = d
    <3>1. CASE stepping[d]  BY <1>4, <3>1, NoEvent
    <3>2. CASE ~ stepping[d]
      <4>1. PICK e : e = Event(0, "DecodeStep", d)  OBVIOUS
      <4>2. e \in Events /\ e.kind = "DecodeStep" /\ e.who = d
        BY <1>6, <4>1 DEF Event, Events
      <4>3. wake = <<e>>  BY <1>4, <3>2, <4>1
      <4> QED  BY <3>2, <4>2, <4>3, OneEvent
    <3> QED  BY <3>1, <3>2
  <2>5. PICK pushed : pushed = a \o wake  OBVIOUS
  <2>6. /\ pushed \in Seq(Events) /\ Unique(pushed)
        /\ \A kd, w : Has(pushed, kd, w) <=> Has(a, kd, w) \/ Has(wake, kd, w)
    BY <2>3, <2>4, <2>5, JoinEvents
  <2>7. \A kd, w : Has(pushed, kd, w) /\ Has(heap, kd, w) => kd = "KvArrived" /\ w = c
    <3>1. ~ stepping[d] => ~ Has(heap, "DecodeStep", d)
      BY <1>6 DEF IInv, DecodeAwake
    <3> QED  BY <1>14, <2>3, <2>4, <2>6, <3>1
  <2>8. Pop("KvArrived", c, pushed)  BY <1>5, <2>1, <2>5
  <2>9. /\ heap' \in Seq(Events) /\ Unique(heap')
        /\ \A kd, w : Has(heap', kd, w) <=>
                        \/ Has(heap, kd, w) /\ ~ (kd = "KvArrived" /\ w = c)
                        \/ Has(pushed, kd, w)
    BY <1>6, <2>6, <2>7, <2>8, PopFacts
  <2> QED  BY <2>3, <2>4, <2>6, <2>9
<1>16. /\ \A e \in DecodeWorkers : e # d => pending'[e] = pending[e] /\ stepping'[e] = stepping[e]
       /\ pending'[d] = Append(pending[d], c) /\ stepping'[d] = TRUE
  BY <1>5, <1>6 DEF IInv, Shape
<1>17. /\ pending'[d] \in Seq(Clients) /\ Distinct(pending'[d])
       /\ Elems(pending'[d]) = Elems(pending[d]) \cup {c}
  <2>1. PICK s \in Seq(Clients) : s = pending[d]  BY <1>6 DEF IInv, Shape
  <2>2. Distinct(s) /\ c \notin Elems(s)
    BY <1>6, <1>8, <1>9, <2>1 DEF IInv, Once, Home
  <2>3. pending'[d] = Append(s, c)  BY <1>16, <2>1
  <2> QED  BY <2>1, <2>2, <2>3, AppendFacts
<1>18. Shape'
  <2>1. pending' \in [DecodeWorkers -> Seq(Clients)]
    BY <1>5, <1>6, <1>16, <1>17 DEF IInv, Shape
  <2> QED  BY <1>5, <1>13, <1>15, <2>1 DEF IInv, Shape
<1>19. Once'  BY <1>13, <1>15, <1>16, <1>17 DEF IInv, Once
<1>20. Homes'
  <2> SUFFICES ASSUME NEW b \in Clients PROVE \E t, w : Home(b, t, w)'
    BY DEF Homes
  <2>1. PICK t, w : Home(b, t, w)  BY DEF IInv, Homes
  <2>2. CASE b = c
    <3>1. t = "flying"  BY <1>7, <2>1, <2>2 DEF Home
    <3>2. b \notin gone  BY <1>13, <2>1, <3>1 DEF Home
    <3>3. Home(b, "pending", d)'
      BY <1>5, <1>6, <1>13, <1>15, <1>16, <1>17, <2>1, <2>2, <3>1, <3>2 DEF Home, Running
    <3> QED  BY <3>3
  <2>3. CASE b # c /\ b \in gone
    <3>1. t = "waiting"  BY <1>13, <2>1, <2>3 DEF Home
    <3>2. Home(b, "flying", d)'
      BY <1>5, <1>6, <1>13, <1>15, <1>16, <1>17, <2>1, <2>3, <3>1 DEF Home, Running
    <3> QED  BY <3>2
  <2>4. CASE b # c /\ b \notin gone
    <3>1. Home(b, t, w)'
      BY <1>5, <1>6, <1>13, <1>15, <1>16, <1>17, <2>1, <2>4 DEF Home, Running
    <3> QED  BY <3>1
  <2> QED  BY <2>2, <2>3, <2>4
<1>21. ChunksLeft'  BY <1>5 DEF IInv, ChunksLeft
<1>22. PrefillAwake'  BY <1>5, <1>15 DEF IInv, PrefillAwake
<1>23. DecodeAwake'
  <2> SUFFICES ASSUME NEW e \in DecodeWorkers
               PROVE  /\ pending'[e] # <<>> \/ Running(e)' # {} => stepping'[e]
                      /\ Has(heap', "DecodeStep", e) <=> stepping'[e]
    BY DEF DecodeAwake
  <2>1. CASE e = d  BY <1>15, <1>16, <2>1 DEF IInv, DecodeAwake
  <2>2. CASE e # d  BY <1>5, <1>15, <1>16, <2>2 DEF IInv, DecodeAwake, Running
  <2> QED  BY <2>1, <2>2
<1>24. Buffers'
  <2>1. Flying' = (Flying \ {c}) \cup gone /\ (Flying \ {c}) \cap gone = {}
    BY <1>13, <1>14, <1>15 DEF Flying
  <2>2. IsFiniteSet(Flying \ {c})  BY <1>10, FS_RemoveElement
  <2>3. Cardinality(Flying') = busy + n
    BY <1>10, <1>13, <2>1, <2>2, UnionCounted
  <2>4. xfer_queue' # <<>> => n < Len(xfer_queue)  BY <1>6, <1>11, <1>13
  <2> QED  BY <1>5, <1>11, <2>3, <2>4 DEF Buffers, Capacity
<1>25. BlocksBalanced' /\ RetiresOnTime'
  BY <1>5 DEF IInv, BlocksBalanced, RetiresOnTime, NeverOverstays, Running
<1> QED  BY <1>18, <1>19, <1>20, <1>21, <1>22, <1>23, <1>24, <1>25 DEF IInv

-------------------------------------------------------------------------------
(* A step with nothing to run is retried while something is pending.       *)
LEMMA DecodeIdlePreserves ==
  ASSUME IInv, NEW d \in DecodeWorkers, OnDecodeIdle(d)
  PROVE  IInv'
<1>1. PICK pushed : pushed = IF pending[d] = <<>> THEN <<>>
                             ELSE <<Event(StepMs(1), "DecodeStep", d)>>
  OBVIOUS
<1>2. /\ Running(d) = {} /\ Pop("DecodeStep", d, pushed)
      /\ stepping' = [stepping EXCEPT ![d] = pending[d] # <<>>]
      /\ UNCHANGED <<per_step, queue, batch, left, dest, xfer_busy, xfer_queue, pending,
                     free, held, emitted>>
  BY <1>1 DEF OnDecodeIdle, prefillVars
<1>3. heap \in Seq(Events) /\ Unique(heap)  BY DEF IInv, Shape, Once
<1>4. /\ pushed \in Seq(Events) /\ Unique(pushed)
      /\ \A kd, w : Has(pushed, kd, w) <=> pending[d] # <<>> /\ kd = "DecodeStep" /\ w = d
  <2>1. CASE pending[d] = <<>>  BY <1>1, <2>1, NoEvent
  <2>2. CASE pending[d] # <<>>
    <3>1. PICK e : e = Event(StepMs(1), "DecodeStep", d)  OBVIOUS
    <3>2. e \in Events /\ e.kind = "DecodeStep" /\ e.who = d
      BY <3>1 DEF Event, Events, StepMs
    <3>3. pushed = <<e>>  BY <1>1, <2>2, <3>1
    <3> QED  BY <2>2, <3>2, <3>3, OneEvent
  <2> QED  BY <2>1, <2>2
<1>5. /\ heap' \in Seq(Events) /\ Unique(heap')
      /\ \A kd, w : Has(heap', kd, w) <=>
                      \/ Has(heap, kd, w) /\ ~ (kd = "DecodeStep" /\ w = d)
                      \/ pending[d] # <<>> /\ kd = "DecodeStep" /\ w = d
  <2>1. \A kd, w : Has(pushed, kd, w) /\ Has(heap, kd, w) => kd = "DecodeStep" /\ w = d
    BY <1>4
  <2>2. /\ heap' \in Seq(Events) /\ Unique(heap')
        /\ \A kd, w : Has(heap', kd, w) <=>
                        \/ Has(heap, kd, w) /\ ~ (kd = "DecodeStep" /\ w = d)
                        \/ Has(pushed, kd, w)
    BY <1>2, <1>3, <1>4, <2>1, PopFacts
  <2> QED  BY <1>4, <2>2
<1>6. PICK more \in BOOLEAN : more = (pending[d] # <<>>)  OBVIOUS
<1>7. stepping' \in [DecodeWorkers -> BOOLEAN] /\ stepping'[d] = more
      /\ \A e \in DecodeWorkers : e # d => stepping'[e] = stepping[e]
  BY <1>2, <1>6 DEF IInv, Shape
<1>8. Shape'  BY <1>2, <1>5, <1>7 DEF IInv, Shape
<1>9. Once'  BY <1>2, <1>5 DEF IInv, Once
<1>10. Homes'
  <2> SUFFICES ASSUME NEW b \in Clients, NEW t, NEW w, Home(b, t, w) PROVE Home(b, t, w)'
    BY DEF IInv, Homes
  <2> QED  BY <1>2, <1>5 DEF Home, Running
<1>11. ChunksLeft' /\ PrefillAwake'
  BY <1>2, <1>5 DEF IInv, ChunksLeft, PrefillAwake
<1>12. DecodeAwake'
  <2> SUFFICES ASSUME NEW e \in DecodeWorkers
               PROVE  /\ pending'[e] # <<>> \/ Running(e)' # {} => stepping'[e]
                      /\ Has(heap', "DecodeStep", e) <=> stepping'[e]
    BY DEF DecodeAwake
  <2>1. CASE e = d  BY <1>2, <1>5, <1>6, <1>7, <2>1 DEF Running
  <2>2. CASE e # d  BY <1>2, <1>5, <1>7, <2>2 DEF IInv, DecodeAwake, Running
  <2> QED  BY <2>1, <2>2
<1>13. Buffers'
  <2>1. Flying' = Flying  BY <1>5 DEF Flying
  <2> QED  BY <1>2, <2>1 DEF IInv, Buffers
<1>14. BlocksBalanced' /\ RetiresOnTime'
  BY <1>2 DEF IInv, BlocksBalanced, RetiresOnTime, NeverOverstays, Running
<1> QED  BY <1>8, <1>9, <1>10, <1>11, <1>12, <1>13, <1>14 DEF IInv

-------------------------------------------------------------------------------
(* What a decode step admits, books and gives back.                        *)
LEMMA AdmittedFacts ==
  ASSUME NEW s \in Seq(Clients), NEW n \in 0 .. Len(s)
  PROVE  ToSet(SubSeq(s, 1, n)) = First(s, n)
<1>1. PICK r : r = SubSeq(s, 1, n)  OBVIOUS
<1>2. Len(r) = n /\ DOMAIN r = 1 .. n /\ \A k \in 1 .. n : r[k] = s[k]  BY <1>1
<1>3. ToSet(r) = {r[k] : k \in 1 .. n}  BY <1>2 DEF ToSet
<1> QED  BY <1>1, <1>2, <1>3 DEF First

LEMMA BlocksArithmetic ==
  ASSUME NEW f \in Int, NEW need \in Nat, NEW h \in Nat, NEW n \in Nat, NEW r \in Nat,
         r <= h + n
  PROVE  /\ (f - n * need + r * need) + need * (h + n - r) = f + need * h
         /\ r * need >= 0 /\ need * (h + n - r) >= 0
<1>1. PICK g \in Nat : g = h + n - r  OBVIOUS
<1>2. need * g >= 0 /\ r * need >= 0
  OBVIOUS
<1>3. h = g + r - n  BY <1>1
<1>4. need * (g + r - n) = need * g + r * need - n * need  OBVIOUS
<1> QED  BY <1>1, <1>2, <1>3, <1>4

(* Admission leaves the pool at least at its watermark.                    *)
LEMMA AdmitsFacts ==
  ASSUME NEW d \in DecodeWorkers, NEW n \in Nat, Admits(d, n), free[d] \in Nat
  PROVE  free[d] - n * NeedBlocks >= 0
<1>1. CASE n = 0
  <2>1. n * NeedBlocks = 0  BY <1>1, SimulatorAssumption
  <2> QED  BY <2>1
<1>2. CASE n # 0
  <2>1. free[d] - (n - 1) * NeedBlocks >= NeedBlocks + WatermarkBlocks
    BY <1>2 DEF Admits
  <2>2. PICK need \in Nat : need = NeedBlocks  BY SimulatorAssumption
  <2>3. (n - 1) * need = n * need - need /\ n * need \in Nat  OBVIOUS
  <2>4. WatermarkBlocks \in Nat  BY SimulatorAssumption
  <2> QED  BY <2>1, <2>2, <2>3, <2>4
<1> QED  BY <1>1, <1>2

LEMMA BookedFacts ==
  ASSUME NEW S \in SUBSET Clients, NEW tokens \in [S -> 1 .. Osl],
         per_step \in TokensPerStep
  PROVE  /\ Finished(tokens) \subseteq S
         /\ DOMAIN Booked(tokens) = S \ Finished(tokens)
         /\ Booked(tokens) \in [S \ Finished(tokens) -> 1 .. Osl]
         /\ per_step = 1 => \A c \in S \ Finished(tokens) : Booked(tokens)[c] < Osl
<1>1. Osl \in Nat \ {0} /\ per_step \in Nat \ {0}  BY SimulatorAssumption
<1>2. Finished(tokens) = {c \in S : tokens[c] + 1 >= Osl}  BY DEF Finished
<1>3. Booked(tokens) = [c \in S \ Finished(tokens) |-> Min({tokens[c] + per_step, Osl})]
  BY DEF Booked
<1>4. ASSUME NEW c \in S \ Finished(tokens)
      PROVE  /\ Min({tokens[c] + per_step, Osl}) \in 1 .. Osl
             /\ per_step = 1 => Min({tokens[c] + per_step, Osl}) < Osl
  <2>1. PICK x \in 1 .. Osl : x = tokens[c]  OBVIOUS
  <2>2. x + 1 < Osl  BY <1>1, <1>2, <2>1
  <2>3. Min({x + per_step, Osl}) = IF x + per_step <= Osl THEN x + per_step ELSE Osl
    BY <1>1, MinOfTwo
  <2> QED  BY <1>1, <2>1, <2>2, <2>3
<1> QED  BY <1>2, <1>3, <1>4

(* A step admits from the head of the pending queue, books its tokens and  *)
(* sends the clients of the finished sequences back to arrive.             *)
LEMMA DecodeStepPreserves ==
  ASSUME IInv, NEW d \in DecodeWorkers, OnDecodeStep(d)
  PROVE  IInv'
<1>1. PICK n \in 0 .. Len(pending[d]) :
        LET admitted == ToSet(SubSeq(pending[d], 1, n))
            tokens == [c \in Running(d) \cup admitted |->
                         IF c \in admitted THEN 1 ELSE emitted[d][c]]
            done == Finished(tokens)
            ms == StepMs(Cardinality(DOMAIN tokens))
        IN /\ Admits(d, n)
           /\ DOMAIN tokens # {}
           /\ \E retired \in SetToSeqs(done) :
                Pop("DecodeStep", d,
                    [k \in 1 .. Len(retired) |-> Event(ms, "Arrival", retired[k])]
                      \o <<Event(ms, "DecodeStep", d)>>)
           /\ pending' = [pending EXCEPT ![d] = SubSeq(@, n + 1, Len(@))]
           /\ emitted' = [emitted EXCEPT ![d] = Booked(tokens)]
           /\ free' = [free EXCEPT ![d] = Freed(d, n, done)]
           /\ held' = [held EXCEPT ![d] = (@ \cup admitted) \ done]
           /\ UNCHANGED <<per_step, prefillVars, xfer_busy, xfer_queue, stepping>>
  BY DEF OnDecodeStep
<1>2. PICK admitted : admitted = ToSet(SubSeq(pending[d], 1, n))  OBVIOUS
<1>3. PICK S : S = Running(d) \cup admitted  OBVIOUS
<1>4. PICK tokens : tokens = [c \in S |-> IF c \in admitted THEN 1 ELSE emitted[d][c]]
  OBVIOUS
<1>5. PICK done : done = Finished(tokens)  OBVIOUS
<1>6. PICK ms : ms = StepMs(Cardinality(DOMAIN tokens))  OBVIOUS
<1>7. /\ Admits(d, n)
      /\ \E retired \in SetToSeqs(done) :
           Pop("DecodeStep", d, EventList(ms, "Arrival", retired, Len(retired))
                                  \o <<Event(ms, "DecodeStep", d)>>)
      /\ pending' = [pending EXCEPT ![d] = Rest(@, n)]
      /\ emitted' = [emitted EXCEPT ![d] = Booked(tokens)]
      /\ free' = [free EXCEPT ![d] = Freed(d, n, done)]
      /\ held' = [held EXCEPT ![d] = (@ \cup admitted) \ done]
      /\ UNCHANGED <<per_step, queue, batch, left, dest, xfer_busy, xfer_queue, stepping>>
  BY <1>1, <1>2, <1>3, <1>4, <1>5, <1>6 DEF EventList, Rest, prefillVars
<1>8. PICK line \in Seq(Clients) : line = pending[d] /\ Distinct(line)
  BY DEF IInv, Shape, Once
<1>9. n \in 0 .. Len(line) /\ n \in Nat  BY <1>8
<1>10. admitted = First(line, n)  BY <1>2, <1>8, <1>9, AdmittedFacts
<1>11. PICK rest : rest = Rest(line, n)  OBVIOUS
<1>12. /\ rest \in Seq(Clients) /\ Len(rest) = Len(line) - n /\ Distinct(rest)
       /\ Elems(rest) = Elems(line) \ admitted
       /\ admitted \subseteq Elems(line) /\ Elems(line) \subseteq Clients
       /\ IsFiniteSet(admitted) /\ Cardinality(admitted) = n
  <2>1. line \in Seq(Clients) /\ Distinct(line)  BY <1>8
  <2>2. PICK m \in 0 .. Len(line) : m = n  BY <1>9
  <2>3. admitted = First(line, m) /\ rest = Rest(line, m)  BY <1>10, <1>11, <2>2
  <2>4. /\ rest \in Seq(Clients) /\ Len(rest) = Len(line) - m /\ Distinct(rest)
        /\ Elems(rest) = Elems(line) \ admitted
        /\ admitted \subseteq Elems(line) /\ Elems(line) \subseteq Clients
        /\ IsFiniteSet(admitted) /\ Cardinality(admitted) = m
    BY <2>1, <2>3, TailFacts
  <2> QED  BY <2>2, <2>4
<1>13. /\ S \subseteq Clients /\ Running(d) \subseteq Clients
       /\ \A c \in Running(d) : emitted[d][c] \in 1 .. Osl
  BY <1>3, <1>12, RunningFacts DEF IInv
<1>14. tokens \in [S -> 1 .. Osl]
  <2>1. 1 \in 1 .. Osl  BY SimulatorAssumption
  <2> QED  BY <1>3, <1>4, <1>13, <2>1
<1>15. /\ done \subseteq S /\ DOMAIN Booked(tokens) = S \ done
       /\ Booked(tokens) \in [S \ done -> 1 .. Osl]
       /\ per_step = 1 => \A c \in S \ done : Booked(tokens)[c] < Osl
  BY <1>5, <1>13, <1>14, BookedFacts DEF IInv, Shape
<1>16. \A c \in admitted : c \notin Running(d) /\ ~ Has(heap, "Arrival", c)
  <2> TAKE c \in admitted
  <2>1. c \in Clients /\ c \in Elems(pending[d])  BY <1>8, <1>12
  <2>2. PICK t, w : Home(c, t, w)  BY <2>1 DEF IInv, Homes
  <2>3. t = "pending"  BY <2>1, <2>2 DEF Home
  <2> QED  BY <2>2, <2>3 DEF Home
<1>17. \A c \in S : ~ Has(heap, "Arrival", c)
  <2>1. ASSUME NEW c \in Running(d) PROVE ~ Has(heap, "Arrival", c)
    <3>1. PICK t, w : Home(c, t, w)  BY <1>13 DEF IInv, Homes
    <3> QED  BY <3>1 DEF Home
  <2> QED  BY <1>3, <1>16, <2>1
<1>18. heap \in Seq(Events) /\ Unique(heap)  BY DEF IInv, Shape, Once
<1>19. ms \in Nat
  <2>1. IsFiniteSet(S)  BY <1>13, ClientsFinite, FS_Subset
  <2>2. DOMAIN tokens = S /\ Cardinality(S) \in Nat  BY <1>14, <2>1, FS_CardinalityType
  <2> QED  BY <1>6, <2>2 DEF StepMs
<1>20. /\ heap' \in Seq(Events) /\ Unique(heap') /\ Has(heap, "DecodeStep", d)
       /\ \A kd, w : Has(heap', kd, w) <=>
                       \/ Has(heap, kd, w) /\ ~ (kd = "DecodeStep" /\ w = d)
                       \/ kd = "Arrival" /\ w \in done
                       \/ kd = "DecodeStep" /\ w = d
  <2>1. PICK retired \in SetToSeqs(done) :
          Pop("DecodeStep", d, EventList(ms, "Arrival", retired, Len(retired))
                                 \o <<Event(ms, "DecodeStep", d)>>)
    BY <1>7
  <2>2. /\ retired \in Seq(Clients) /\ Distinct(retired) /\ Elems(retired) = done
    <3>1. done \subseteq Clients  BY <1>13, <1>15
    <3> QED  BY <2>1, <3>1, OrderFacts
  <2>3. PICK a : a = EventList(ms, "Arrival", retired, Len(retired))  OBVIOUS
  <2>5. /\ a \in Seq(Events) /\ Unique(a)
        /\ \A kd, w : Has(a, kd, w) <=> kd = "Arrival" /\ w \in done
    BY <1>19, <2>2, <2>3, ArrivalsFacts
  <2>6. PICK e : e = Event(ms, "DecodeStep", d)  OBVIOUS
  <2>7. e \in Events /\ e.kind = "DecodeStep" /\ e.who = d
    BY <1>19, <2>6 DEF Event, Events
  <2>8. PICK b : b = <<e>>  OBVIOUS
  <2>9. /\ b \in Seq(Events) /\ Unique(b)
        /\ \A kd, w : Has(b, kd, w) <=> kd = "DecodeStep" /\ w = d
    BY <2>7, <2>8, OneEvent
  <2>10. PICK pushed : pushed = a \o b  OBVIOUS
  <2>11. /\ pushed \in Seq(Events) /\ Unique(pushed)
         /\ \A kd, w : Has(pushed, kd, w) <=> Has(a, kd, w) \/ Has(b, kd, w)
    BY <2>5, <2>9, <2>10, JoinEvents
  <2>12. \A kd, w : Has(pushed, kd, w) /\ Has(heap, kd, w) => kd = "DecodeStep" /\ w = d
    BY <1>15, <1>17, <2>5, <2>9, <2>11
  <2>13. Pop("DecodeStep", d, pushed)  BY <2>1, <2>3, <2>6, <2>8, <2>10
  <2>14. /\ heap' \in Seq(Events) /\ Unique(heap') /\ Has(heap, "DecodeStep", d)
         /\ \A kd, w : Has(heap', kd, w) <=>
                         \/ Has(heap, kd, w) /\ ~ (kd = "DecodeStep" /\ w = d)
                         \/ Has(pushed, kd, w)
    BY <1>18, <2>11, <2>12, <2>13, PopFacts
  <2> QED  BY <2>5, <2>9, <2>11, <2>14
<1>21. /\ pending'[d] = rest /\ emitted'[d] = Booked(tokens)
       /\ free'[d] = Freed(d, n, done) /\ held'[d] = (held[d] \cup admitted) \ done
       /\ Running(d)' = S \ done
  <2>1. /\ pending'[d] = rest /\ emitted'[d] = Booked(tokens)
        /\ free'[d] = Freed(d, n, done) /\ held'[d] = (held[d] \cup admitted) \ done
    BY <1>7, <1>8, <1>11 DEF IInv, Shape
  <2> QED  BY <1>15, <2>1 DEF Running
<1>22. \A e \in DecodeWorkers :
         e # d => /\ pending'[e] = pending[e] /\ emitted'[e] = emitted[e]
                  /\ free'[e] = free[e] /\ held'[e] = held[e] /\ Running(e)' = Running(e)
  BY <1>7 DEF IInv, Shape, Running
<1>23. BlocksBalanced' /\ free'[d] \in 0 .. TotalBlocks
  <2>1. held[d] = Running(d) /\ IsFiniteSet(held[d]) /\ Cardinality(held[d]) \in Nat
    BY <1>13, ClientsFinite, FS_Subset, FS_CardinalityType DEF IInv, BlocksBalanced
  <2>2. held'[d] = S \ done  BY <1>3, <1>21, <2>1
  <2>3. IsFiniteSet(S) /\ Cardinality(S) = Cardinality(held[d]) + n
    <3>1. held[d] \cap admitted = {}  BY <1>16, <2>1
    <3> QED  BY <1>3, <1>12, <2>1, <3>1, UnionCounted
  <2>4. /\ Cardinality(done) \in Nat /\ Cardinality(done) <= Cardinality(S)
        /\ Cardinality(S \ done) = Cardinality(S) - Cardinality(done)
    <3>1. S \cap done = done  BY <1>15
    <3>2. IsFiniteSet(done) /\ Cardinality(done) <= Cardinality(S)
      BY <1>15, <2>3, FS_Subset
    <3>3. Cardinality(S \ done) = Cardinality(S) - Cardinality(S \cap done)
      BY <2>3, FS_Difference
    <3> QED  BY <3>1, <3>2, <3>3, FS_CardinalityType
  <2>5. PICK h \in Nat : h = Cardinality(held[d])  BY <2>1
  <2>6. PICK r \in Nat : r = Cardinality(done)  BY <2>4
  <2>7. PICK f \in Nat : f = free[d]  BY DEF IInv, Shape
  <2>8. PICK need \in Nat : need = NeedBlocks  BY SimulatorAssumption
  <2>9. r <= h + n /\ Cardinality(held'[d]) = h + n - r
    BY <2>2, <2>3, <2>4, <2>5, <2>6
  <2>10. f + need * h = TotalBlocks  BY <2>5, <2>7, <2>8 DEF IInv, BlocksBalanced
  <2>11. free'[d] = f - n * need + r * need
    BY <1>21, <2>6, <2>7, <2>8 DEF Freed
  <2>12. /\ (f - n * need + r * need) + need * (h + n - r) = f + need * h
         /\ r * need >= 0 /\ need * (h + n - r) >= 0
    BY <1>9, <2>9, BlocksArithmetic
  <2>13. free'[d] + NeedBlocks * Cardinality(held'[d]) = TotalBlocks
    BY <2>8, <2>9, <2>10, <2>11, <2>12
  <2>14. f - n * need >= 0
    BY <1>7, <1>9, <2>7, <2>8, AdmitsFacts
  <2>15. free'[d] \in 0 .. TotalBlocks
    <3>1. PICK u \in Int : u = n * need  BY <1>9
    <3>2. PICK v \in Int : v = r * need  OBVIOUS
    <3>3. PICK x \in Int : x = need * (h + n - r)  BY <1>9
    <3>4. f - u >= 0 /\ v >= 0 /\ x >= 0 /\ (f - u + v) + x = TotalBlocks
      BY <2>10, <2>12, <2>14, <3>1, <3>2, <3>3
    <3>5. free'[d] = f - u + v  BY <2>11, <3>1, <3>2
    <3> QED  BY <3>4, <3>5, SimulatorAssumption
  <2>16. BlocksBalanced'
    <3> SUFFICES ASSUME NEW e \in DecodeWorkers
                 PROVE  /\ held'[e] = Running(e)'
                        /\ free'[e] + NeedBlocks * Cardinality(held'[e]) = TotalBlocks
      BY DEF BlocksBalanced
    <3>1. CASE e = d  BY <1>21, <2>2, <2>13, <3>1
    <3>2. CASE e # d
      <4>1. /\ held[e] = Running(e)
            /\ free[e] + NeedBlocks * Cardinality(held[e]) = TotalBlocks
        BY DEF IInv, BlocksBalanced
      <4> QED  BY <1>22, <3>2, <4>1
    <3> QED  BY <3>1, <3>2
  <2> QED  BY <2>15, <2>16
<1>24. Shape'
  <2>1. pending' \in [DecodeWorkers -> Seq(Clients)]
    BY <1>7, <1>12, <1>21, <1>22 DEF IInv, Shape
  <2>2. free' \in [DecodeWorkers -> 0 .. TotalBlocks]
    BY <1>7, <1>22, <1>23 DEF IInv, Shape
  <2>3. held' \in [DecodeWorkers -> SUBSET Clients]
    BY <1>7, <1>12, <1>21, <1>22 DEF IInv, Shape
  <2>4. emitted' \in [DecodeWorkers -> UNION {[T -> 1 .. Osl] : T \in SUBSET Clients}]
    <3>1. S \ done \in SUBSET Clients  BY <1>13
    <3>2. Booked(tokens) \in UNION {[T -> 1 .. Osl] : T \in SUBSET Clients}
      BY <1>15, <3>1
    <3> QED  BY <1>7, <3>2 DEF IInv, Shape
  <2> QED  BY <1>7, <1>20, <2>1, <2>2, <2>3, <2>4 DEF IInv, Shape
<1>25. Once'  BY <1>7, <1>12, <1>20, <1>21, <1>22 DEF IInv, Once
<1>26. Homes'
  <2> SUFFICES ASSUME NEW b \in Clients PROVE \E t, w : Home(b, t, w)'
    BY DEF Homes
  <2>1. PICK t, w : Home(b, t, w)  BY DEF IInv, Homes
  <2>2. \A e \in DecodeWorkers : b \in Elems(pending'[e]) <=>
                                   b \in Elems(pending[e]) /\ (e = d => b \notin admitted)
    BY <1>8, <1>12, <1>21, <1>22
  <2>3. \A e \in DecodeWorkers : b \in Running(e)' <=>
                                   IF e = d THEN b \in S /\ b \notin done ELSE b \in Running(e)
    BY <1>21, <1>22
  <2>4. b \in S => t \in {"pending", "running"} /\ w = d
    BY <1>3, <1>8, <1>12, <2>1 DEF Home
  <2>5. CASE b \in done
    <3>1. Home(b, "arriving", d)'
      BY <1>3, <1>7, <1>15, <1>16, <1>20, <2>1, <2>2, <2>3, <2>4, <2>5 DEF Home
    <3> QED  BY <3>1
  <2>6. CASE b \in S /\ b \notin done
    <3>1. b \in admitted \/ t = "running"  BY <1>3, <2>1, <2>6 DEF Home
    <3>2. Home(b, "running", d)'
      BY <1>3, <1>7, <1>20, <2>1, <2>2, <2>3, <2>4, <2>6, <3>1 DEF Home
    <3> QED  BY <3>2
  <2>7. CASE b \notin S
    <3>1. b \notin admitted /\ b \notin done /\ b \notin Running(d)
      BY <1>3, <1>15, <2>7
    <3>2. Home(b, t, w)'
      BY <1>7, <1>20, <2>1, <2>2, <2>3, <2>7, <3>1 DEF Home
    <3> QED  BY <3>2
  <2> QED  BY <1>15, <2>5, <2>6, <2>7
<1>27. ChunksLeft' /\ PrefillAwake'
  BY <1>7, <1>20 DEF IInv, ChunksLeft, PrefillAwake
<1>28. DecodeAwake'
  <2> SUFFICES ASSUME NEW e \in DecodeWorkers
               PROVE  /\ pending'[e] # <<>> \/ Running(e)' # {} => stepping'[e]
                      /\ Has(heap', "DecodeStep", e) <=> stepping'[e]
    BY DEF DecodeAwake
  <2>1. CASE e = d  BY <1>7, <1>20, <2>1 DEF IInv, DecodeAwake
  <2>2. CASE e # d  BY <1>7, <1>20, <1>22, <2>2 DEF IInv, DecodeAwake
  <2> QED  BY <2>1, <2>2
<1>29. Buffers'
  <2>1. Flying' = Flying  BY <1>20 DEF Flying
  <2> QED  BY <1>7, <2>1 DEF IInv, Buffers
<1>30. RetiresOnTime'
  <2> SUFFICES ASSUME per_step = 1, Osl > 1, NEW e \in DecodeWorkers, NEW c \in Running(e)'
               PROVE  emitted'[e][c] < Osl
    BY <1>7 DEF RetiresOnTime, NeverOverstays
  <2>1. CASE e = d  BY <1>15, <1>21, <2>1
  <2>2. CASE e # d  BY <1>22, <2>2 DEF IInv, RetiresOnTime, NeverOverstays
  <2> QED  BY <2>1, <2>2
<1> QED  BY <1>23, <1>24, <1>25, <1>26, <1>27, <1>28, <1>29, <1>30 DEF IInv

-------------------------------------------------------------------------------
(***************************************************************************)
(* The inductive invariant, whichever event is handled next.               *)
(***************************************************************************)
THEOREM InductiveInvariant == Spec => []IInv
<1>1. ASSUME IInv, [Next]_vars PROVE IInv'
  <2>1. CASE UNCHANGED vars
    <3>1. /\ UNCHANGED <<per_step, heap, queue, batch, left, dest, xfer_busy, xfer_queue>>
          /\ UNCHANGED <<pending, stepping, free, held, emitted>>
      BY <2>1 DEF vars
    <3>2. Shape' /\ Once'  BY <1>1, <3>1 DEF IInv, Shape, Once
    <3>3. Homes'
      <4> SUFFICES ASSUME NEW b \in Clients, NEW t, NEW w, Home(b, t, w)
                   PROVE  Home(b, t, w)'
        BY <1>1 DEF IInv, Homes
      <4> QED  BY <3>1 DEF Home, Running
    <3>4. ChunksLeft' /\ PrefillAwake' /\ DecodeAwake'
      BY <1>1, <3>1 DEF IInv, ChunksLeft, PrefillAwake, DecodeAwake, Running
    <3>5. Flying' = Flying  BY <3>1 DEF Flying
    <3>6. Buffers' /\ BlocksBalanced' /\ RetiresOnTime'
      BY <1>1, <3>1, <3>5
      DEF IInv, Buffers, BlocksBalanced, RetiresOnTime, NeverOverstays, Running
    <3> QED  BY <3>2, <3>3, <3>4, <3>6 DEF IInv
  <2>2. CASE Next
    BY <1>1, <2>2, ArrivalPreserves, PrefillDonePreserves, KvArrivedPreserves,
       DecodeStepPreserves, DecodeIdlePreserves
    DEF Next
  <2> QED  BY <1>1, <2>1, <2>2
<1> QED  BY <1>1, InitEstablishes, PTL DEF Spec

(***************************************************************************)
(* on_arrival to retire lose no request and duplicate none: for any number *)
(* of clients, workers and buffers, every client's request is in exactly   *)
(* one place.                                                              *)
(***************************************************************************)
THEOREM ClosedLoopTheorem == Spec => []ClosedLoop
BY InductiveInvariant, LoopFollows, PTL

(***************************************************************************)
(* No worker of the simulation sleeps on work, and none has two events     *)
(* scheduled: try_start_prefill, on_kv_arrived and on_decode_step schedule *)
(* the next event exactly when there is none and there is work.            *)
(***************************************************************************)
THEOREM NoLostWakeupTheorem == Spec => []NoLostWakeup
BY InductiveInvariant, WakeupsFollow, PTL

(***************************************************************************)
(* xfer_busy is the number of transfers in flight, within xfer_concurrency *)
(* and at it while a request waits; free_blocks and held add up to the     *)
(* pool; and without speculation nobody stays past its budget.             *)
(***************************************************************************)
THEOREM ResourcesExactTheorem == Spec => []ResourcesExact
BY InductiveInvariant, ResourcesFollow, PTL
===============================================================================
