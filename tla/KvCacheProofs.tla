---------------------------- MODULE KvCacheProofs ----------------------------
(***************************************************************************)
(* Proofs about KvCache, for any finite sets of sequences and pages and    *)
(* any chains of hashes.                                                   *)
(***************************************************************************)
EXTENDS KvCache, SequenceTheorems, FiniteSetTheorems, TLAPS

(* The pages of each sequence, and the sequences that have each page.      *)
held == [s \in Seqs |-> ToSet(holds[s])]
sharers == [b \in Blocks |-> {s \in Seqs : b \in held[s]}]

(* No sequence has a page twice.                                           *)
Distinct ==
  \A s \in Seqs : \A i, j \in DOMAIN holds[s] : holds[s][i] = holds[s][j] => i = j

(* How many pages a sequence has follows from where it is.                 *)
Lengths ==
  \A s \in Seqs :
    /\ phase[s] = "new" => holds[s] = <<>>
    /\ phase[s] = "matched" => Len(holds[s]) <= Len(Chain[s])
    /\ phase[s] \in {"filled", "published"} => Len(holds[s]) = Len(Text[s])

(* The pages of a sequence hold its own text.                              *)
OwnText ==
  \A s \in Seqs : \A i \in DOMAIN holds[s] : content[holds[s][i]] = Text[s][i]

(* PoolAccounted, in terms of the sequences that have a page.              *)
Referenced ==
  /\ \A b \in Blocks :
       /\ refcount[b] = Cardinality(sharers[b])
       /\ b \in free \cup cached <=> refcount[b] = 0
  /\ free \cap cached = {}

IInv ==
  /\ TypeOK /\ Distinct /\ Lengths /\ OwnText /\ Referenced /\ IndexSound

-------------------------------------------------------------------------------
(* A sequence writes its hashed blocks in order, and one page more.        *)
LEMMA TextFacts ==
  ASSUME NEW s \in Seqs
  PROVE  /\ Chain[s] \in Seq(Hashes) /\ Len(Chain[s]) \in Nat
         /\ DOMAIN Chain[s] = 1 .. Len(Chain[s])
         /\ \A i \in 1 .. Len(Chain[s]) : Chain[s][i] \in Hashes /\ Text[s][i] = Chain[s][i]
         /\ Len(Text[s]) = Len(Chain[s]) + 1
         /\ \A i \in 1 .. Len(Text[s]) : Text[s][i] \in Writes
<1>1. Chain[s] \in Seq(Hashes)  BY KvCacheAssumption
<1>2. Chain[s] \in Seq(Writes) /\ Chain[s] \in Writes
  BY <1>1, SeqMonotonic DEF Writes
<1>3. Text[s] = Append(Chain[s], Chain[s])  BY DEF Text
<1>4. Text[s] \in Seq(Writes) /\ Len(Text[s]) = Len(Chain[s]) + 1
      /\ \A i \in 1 .. Len(Chain[s]) : Text[s][i] = Chain[s][i]
  BY <1>2, <1>3, AppendProperties
<1>5. QED  BY <1>1, <1>4, ElementOfSeq

LEMMA HoldsTypes ==
  ASSUME TypeOK, NEW s \in Seqs
  PROVE  /\ holds[s] \in Seq(Blocks) /\ Len(holds[s]) \in Nat
         /\ DOMAIN holds[s] = 1 .. Len(holds[s])
         /\ \A i \in 1 .. Len(holds[s]) : holds[s][i] \in Blocks
         /\ held[s] \subseteq Blocks
<1>1. holds[s] \in Seq(Blocks)  BY DEF TypeOK
<1>2. \A i \in 1 .. Len(holds[s]) : holds[s][i] \in Blocks  BY <1>1, ElementOfSeq
<1>3. QED  BY <1>1, <1>2 DEF held, ToSet

(* A list without repetitions has a page once or not at all.               *)
LEMMA CountDistinct ==
  ASSUME NEW list \in Seq(Blocks),
         \A i, j \in DOMAIN list : list[i] = list[j] => i = j,
         NEW b
  PROVE  Count(list, b) = IF b \in ToSet(list) THEN 1 ELSE 0
<1> DEFINE at == {i \in DOMAIN list : list[i] = b}
<1>1. CASE b \in ToSet(list)
  <2>1. PICK i \in DOMAIN list : list[i] = b  BY <1>1 DEF ToSet
  <2>2. at = {i}  BY <2>1
  <2>3. QED  BY <1>1, <2>2, FS_Singleton DEF Count
<1>2. CASE b \notin ToSet(list)
  <2>1. at = {}  BY <1>2 DEF ToSet
  <2>2. QED  BY <1>2, <2>1, FS_EmptySet DEF Count
<1>3. QED  BY <1>1, <1>2

LEMMA SharersFinite ==
  ASSUME NEW S \in SUBSET Seqs
  PROVE  IsFiniteSet(S) /\ Cardinality(S) \in Nat /\ (Cardinality(S) = 0 <=> S = {})
<1>1. IsFiniteSet(S)  BY KvCacheAssumption, FS_Subset
<1>2. QED  BY <1>1, FS_CardinalityType, FS_EmptySet

(* A page that is free or cached is nobody's.                              *)
LEMMA Unheld ==
  ASSUME IInv, NEW b \in Blocks
  PROVE  /\ refcount[b] = 0 <=> sharers[b] = {}
         /\ b \in free \cup cached <=> \A s \in Seqs : b \notin held[s]
<1>1. sharers[b] \in SUBSET Seqs  BY DEF sharers
<1>2. refcount[b] = 0 <=> sharers[b] = {}
  BY <1>1, SharersFinite DEF IInv, Referenced
<1>3. QED  BY <1>2 DEF IInv, Referenced, sharers

-------------------------------------------------------------------------------
(* forget() takes a page out of both maps.                                 *)
LEMMA ForgetMirrors ==
  ASSUME IInv, NEW given \in SUBSET Blocks, Forget(given)
  PROVE  /\ by_hash' \in [Hashes -> Blocks \cup {NoBlock}]
         /\ by_block' \in [Blocks -> Hashes \cup {NoHash}]
         /\ \A h \in Hashes : by_hash'[h] # NoBlock =>
              /\ by_hash'[h] = by_hash[h] /\ by_hash[h] \notin given
              /\ by_block'[by_hash'[h]] = h
         /\ \A b \in Blocks : by_block'[b] # NoHash => by_hash'[by_block'[b]] = b
<1>1. by_hash' \in [Hashes -> Blocks \cup {NoBlock}]
      /\ by_block' \in [Blocks -> Hashes \cup {NoHash}]
  BY DEF Forget, IInv, TypeOK
<1>2. \A h \in Hashes : by_hash'[h] # NoBlock =>
              /\ by_hash'[h] = by_hash[h] /\ by_hash[h] \notin given
              /\ by_block'[by_hash'[h]] = h
  <2> SUFFICES ASSUME NEW h \in Hashes, by_hash'[h] # NoBlock
               PROVE  /\ by_hash'[h] = by_hash[h] /\ by_hash[h] \notin given
                      /\ by_block'[by_hash'[h]] = h
    OBVIOUS
  <2>1. by_hash'[h] = by_hash[h] /\ \A b \in given : by_block[b] # h  BY DEF Forget
  <2>2. by_hash[h] \in Blocks /\ by_block[by_hash[h]] = h
    BY <2>1 DEF IInv, TypeOK, IndexSound
  <2>3. by_hash[h] \notin given  BY <2>1, <2>2
  <2>4. QED  BY <2>1, <2>2, <2>3 DEF Forget
<1>3. \A b \in Blocks : by_block'[b] # NoHash => by_hash'[by_block'[b]] = b
  <2> SUFFICES ASSUME NEW b \in Blocks, by_block'[b] # NoHash
               PROVE  by_hash'[by_block'[b]] = b
    OBVIOUS
  <2>1. by_block'[b] = by_block[b] /\ b \notin given  BY DEF Forget
  <2>2. by_block[b] \in Hashes /\ by_hash[by_block[b]] = b
    BY <2>1 DEF IInv, TypeOK, IndexSound
  <2>3. \A c \in given : by_block[c] # by_block[b]
    BY <2>1, <2>2 DEF IInv, TypeOK, IndexSound
  <2>4. QED  BY <2>1, <2>2, <2>3 DEF Forget
<1>4. QED  BY <1>1, <1>2, <1>3

(* A sequence that had nothing takes references to a list of pages.        *)
LEMMA TakesReferences ==
  ASSUME IInv, NEW s \in Seqs, phase[s] = "new",
         NEW list \in Seq(Blocks),
         \A i, j \in DOMAIN list : list[i] = list[j] => i = j,
         holds' = [holds EXCEPT ![s] = list],
         refcount' = [b \in Blocks |-> refcount[b] + Count(list, b)]
  PROVE  /\ refcount' \in [Blocks -> Nat] /\ holds' \in [Seqs -> Seq(Blocks)]
         /\ holds'[s] = list /\ \A t \in Seqs : t # s => holds'[t] = holds[t]
         /\ \A b \in Blocks : /\ refcount'[b] = Cardinality(sharers'[b])
                              /\ refcount'[b] = 0 <=> refcount[b] = 0 /\ b \notin ToSet(list)
         /\ Distinct'
<1>1. holds'[s] = list /\ \A t \in Seqs : t # s => holds'[t] = holds[t]
  BY DEF IInv, TypeOK
<1>2. holds' \in [Seqs -> Seq(Blocks)] /\ Distinct'
  BY <1>1 DEF IInv, TypeOK, Distinct
<1>3. ASSUME NEW b \in Blocks
      PROVE  /\ refcount'[b] \in Nat /\ refcount'[b] = Cardinality(sharers'[b])
             /\ refcount'[b] = 0 <=> refcount[b] = 0 /\ b \notin ToSet(list)
  <2>1. refcount[b] \in Nat /\ refcount'[b] = refcount[b] + Count(list, b)
    BY DEF IInv, TypeOK
  <2>2. Count(list, b) = IF b \in ToSet(list) THEN 1 ELSE 0  BY CountDistinct
  <2>3. sharers[b] \in SUBSET Seqs /\ refcount[b] = Cardinality(sharers[b])
    BY DEF sharers, IInv, Referenced
  <2>4. IsFiniteSet(sharers[b])  BY <2>3, SharersFinite
  <2>5. s \notin sharers[b]  BY DEF IInv, Lengths, sharers, held, ToSet
  <2>6. sharers'[b] = IF b \in ToSet(list) THEN sharers[b] \cup {s} ELSE sharers[b]
    BY <1>1, <2>5 DEF sharers, held
  <2>7. Cardinality(sharers[b] \cup {s}) = Cardinality(sharers[b]) + 1
    BY <2>4, <2>5, FS_AddElement
  <2>8. CASE b \in ToSet(list)  BY <2>1, <2>2, <2>3, <2>6, <2>7, <2>8
  <2>9. CASE b \notin ToSet(list)  BY <2>1, <2>2, <2>3, <2>6, <2>9
  <2>10. QED  BY <2>8, <2>9
<1>4. refcount' \in [Blocks -> Nat]  BY <1>3
<1>5. QED  BY <1>1, <1>2, <1>3, <1>4

(* A sequence gives up its references.                                     *)
LEMMA GivesUpReferences ==
  ASSUME IInv, NEW s \in Seqs, Leave(s)
  PROVE  /\ refcount' \in [Blocks -> Nat] /\ holds' \in [Seqs -> Seq(Blocks)]
         /\ phase' \in [Seqs -> {"new", "matched", "filled", "published"}]
         /\ Distinct' /\ Lengths' /\ OwnText'
         /\ \A b \in Blocks : /\ refcount'[b] = Cardinality(sharers'[b])
                              /\ refcount'[b] = 0 <=> refcount[b] = 0 \/ b \in Unreferenced(s)
         /\ Unreferenced(s) \subseteq held[s] /\ held[s] \subseteq Blocks
         /\ \A b \in held[s] : refcount[b] # 0
<1>1. /\ holds'[s] = <<>> /\ phase'[s] = "new" /\ UNCHANGED content
      /\ \A t \in Seqs : t # s => holds'[t] = holds[t] /\ phase'[t] = phase[t]
      /\ holds' \in [Seqs -> Seq(Blocks)]
      /\ phase' \in [Seqs -> {"new", "matched", "filled", "published"}]
  BY DEF Leave, IInv, TypeOK
<1>2. Distinct' /\ OwnText'
  <2>1. DOMAIN holds'[s] = {}  BY <1>1
  <2>2. Distinct'  BY <1>1, <2>1 DEF IInv, Distinct
  <2>3. OwnText'  BY <1>1, <2>1 DEF IInv, OwnText
  <2>4. QED  BY <2>2, <2>3
<1>3. Lengths'  BY <1>1 DEF IInv, Lengths
<1>4. held[s] \subseteq Blocks /\ Unreferenced(s) \subseteq held[s]
  BY HoldsTypes DEF IInv, Unreferenced, held
<1>5. \A b \in held[s] : refcount[b] # 0  BY <1>4, Unheld DEF sharers
<1>6. ASSUME NEW b \in Blocks
      PROVE  /\ refcount'[b] \in Nat /\ refcount'[b] = Cardinality(sharers'[b])
             /\ refcount'[b] = 0 <=> refcount[b] = 0 \/ b \in Unreferenced(s)
  <2>1. refcount[b] \in Nat /\ refcount'[b] = refcount[b] - Count(holds[s], b)
    BY DEF Leave, LeftBy, IInv, TypeOK
  <2>2. Count(holds[s], b) = IF b \in held[s] THEN 1 ELSE 0
    BY CountDistinct, HoldsTypes DEF IInv, Distinct, held
  <2>3. sharers[b] \in SUBSET Seqs /\ refcount[b] = Cardinality(sharers[b])
    BY DEF sharers, IInv, Referenced
  <2>4. IsFiniteSet(sharers[b])  BY <2>3, SharersFinite
  <2>5. s \in sharers[b] <=> b \in held[s]  BY DEF sharers
  <2>6. sharers'[b] = sharers[b] \ {s}
    BY <1>1 DEF sharers, held, ToSet
  <2>7. Cardinality(sharers[b] \ {s}) =
          IF b \in held[s] THEN Cardinality(sharers[b]) - 1 ELSE Cardinality(sharers[b])
    BY <2>4, <2>5, FS_RemoveElement
  <2>8. b \in Unreferenced(s) <=> b \in held[s] /\ refcount[b] = 1
    BY <2>2 DEF Unreferenced, held
  <2>9. CASE b \in held[s]
    BY <1>5, <2>1, <2>2, <2>3, <2>6, <2>7, <2>8, <2>9
  <2>10. CASE b \notin held[s]
    BY <2>1, <2>2, <2>3, <2>6, <2>7, <2>8, <2>10
  <2>11. QED  BY <2>9, <2>10
<1>7. refcount' \in [Blocks -> Nat]  BY <1>6 DEF Leave, LeftBy
<1>8. QED  BY <1>1, <1>2, <1>3, <1>4, <1>5, <1>6, <1>7

-------------------------------------------------------------------------------
(* One lemma for each action: what it keeps, and what it is for the        *)
(* sequences.  A match finds pages that hold the sequence's own text,      *)
(* because the index is sound.                                             *)
LEMMA LookupMatches ==
  ASSUME IInv, NEW s \in Seqs, Lookup(s)
  PROVE  IInv' /\ Sharing!Match(s)
<1> PICK k \in 0 .. Len(Chain[s]) :
       LET found == [i \in 1 .. k |-> by_hash[Chain[s][i]]]
           stale == IF k < Len(Chain[s]) THEN {Chain[s][k + 1]} ELSE {}
       IN /\ IsMatch(s, k)
          /\ holds' = [holds EXCEPT ![s] = found]
          /\ refcount' = [b \in Blocks |-> refcount[b] + Count(found, b)]
          /\ cached' = cached \ ToSet(found)
          /\ by_hash' = [h \in Hashes |->
                           IF h \in stale THEN NoBlock ELSE by_hash[h]]
          /\ by_block' = [b \in Blocks |->
                            IF \E h \in stale : by_hash[h] = b
                              THEN NoHash ELSE by_block[b]]
  BY DEF Lookup
<1> DEFINE found == [i \in 1 .. k |-> by_hash[Chain[s][i]]]
<1> DEFINE stale == IF k < Len(Chain[s]) THEN {Chain[s][k + 1]} ELSE {}
<1>1. /\ phase[s] = "new" /\ phase' = [phase EXCEPT ![s] = "matched"]
      /\ UNCHANGED <<free, content>>
  BY DEF Lookup
<1>2. Len(Chain[s]) \in Nat /\ k \in Nat /\ \A i \in 1 .. k : i \in 1 .. Len(Chain[s])
  BY TextFacts
<1>3. ASSUME NEW i \in 1 .. k
      PROVE  /\ found[i] \in Blocks /\ found[i] \notin free
             /\ by_block[found[i]] = Chain[s][i]
             /\ content[found[i]] = Text[s][i]
  <2>1. i \in 1 .. Len(Chain[s]) /\ Chain[s][i] \in Hashes /\ Text[s][i] = Chain[s][i]
    BY <1>2, TextFacts
  <2>2. by_hash[Chain[s][i]] # NoBlock  BY DEF IsMatch, Hit
  <2>3. found[i] = by_hash[Chain[s][i]]  OBVIOUS
  <2>4. QED  BY <2>1, <2>2, <2>3 DEF IInv, TypeOK, IndexSound
<1>4. /\ holds' = [holds EXCEPT ![s] = found] /\ cached' = cached \ ToSet(found)
      /\ refcount' = [b \in Blocks |-> refcount[b] + Count(found, b)]
      /\ by_hash' = [h \in Hashes |-> IF h \in stale THEN NoBlock ELSE by_hash[h]]
      /\ by_block' = [b \in Blocks |->
                        IF \E h \in stale : by_hash[h] = b THEN NoHash ELSE by_block[b]]
  OBVIOUS
<1>5. /\ found \in [1 .. k -> Blocks] /\ DOMAIN found = 1 .. k  BY <1>3
<1> HIDE DEF found
<1>6. found \in Seq(Blocks) /\ Len(found) = k  BY <1>2, <1>5, SeqDef
<1>7. \A i, j \in DOMAIN found : found[i] = found[j] => i = j
  <2> SUFFICES ASSUME NEW i \in 1 .. k, NEW j \in 1 .. k, found[i] = found[j] PROVE i = j
    BY <1>5
  <2>1. Chain[s][i] = Chain[s][j]  BY <1>3
  <2>2. QED  BY <1>2, <2>1, TextFacts, KvCacheAssumption
<1>8. /\ refcount' \in [Blocks -> Nat] /\ holds' \in [Seqs -> Seq(Blocks)]
      /\ holds'[s] = found /\ \A t \in Seqs : t # s => holds'[t] = holds[t]
      /\ \A b \in Blocks : /\ refcount'[b] = Cardinality(sharers'[b])
                           /\ refcount'[b] = 0 <=> refcount[b] = 0 /\ b \notin ToSet(found)
      /\ Distinct'
  BY <1>1, <1>4, <1>6, <1>7, TakesReferences
<1>9. stale \subseteq Hashes
  <2>1. k < Len(Chain[s]) => k + 1 \in 1 .. Len(Chain[s])  BY <1>2
  <2>2. QED  BY <2>1, TextFacts
<1> HIDE DEF stale
<1>10. TypeOK'  BY <1>1, <1>4, <1>8 DEF IInv, TypeOK
<1>11. Lengths'  BY <1>1, <1>6, <1>8 DEF IInv, TypeOK, Lengths
<1>12. OwnText'
  BY <1>1, <1>3, <1>5, <1>8 DEF IInv, OwnText
<1>13. Referenced'
  <2>1. \A b \in ToSet(found) : b \notin free  BY <1>3, <1>5 DEF ToSet
  <2>2. \A b \in Blocks : b \in free' \cup cached' <=> refcount'[b] = 0
    BY <1>1, <1>4, <1>8, <2>1 DEF IInv, Referenced
  <2>3. free' \cap cached' = {}  BY <1>1, <1>4 DEF IInv, Referenced
  <2>4. QED  BY <1>8, <2>2, <2>3 DEF Referenced
<1>14. IndexSound'
  <2>1. ASSUME NEW h \in Hashes, by_hash'[h] # NoBlock
        PROVE  /\ by_block'[by_hash'[h]] = h /\ by_hash'[h] \notin free'
               /\ content'[by_hash'[h]] = h
    <3>1. h \notin stale /\ by_hash'[h] = by_hash[h]  BY <1>4, <2>1
    <3>2. /\ by_hash[h] \in Blocks /\ by_block[by_hash[h]] = h
          /\ by_hash[h] \notin free /\ content[by_hash[h]] = h
      BY <2>1, <3>1 DEF IInv, TypeOK, IndexSound
    <3>3. \A g \in stale : by_hash[g] # by_hash[h]
      BY <1>9, <3>1, <3>2, KvCacheAssumption DEF IInv, IndexSound
    <3>4. QED  BY <1>1, <1>4, <3>1, <3>2, <3>3
  <2>2. ASSUME NEW b \in Blocks, by_block'[b] # NoHash
        PROVE  by_hash'[by_block'[b]] = b
    <3>1. by_block'[b] = by_block[b] /\ \A h \in stale : by_hash[h] # b  BY <1>4, <2>2
    <3>2. by_block[b] \in Hashes /\ by_hash[by_block[b]] = b
      BY <2>2, <3>1 DEF IInv, TypeOK, IndexSound
    <3>3. QED  BY <1>4, <3>1, <3>2
  <2>3. QED  BY <2>1, <2>2 DEF IndexSound
<1>15. Sharing!Match(s)
  <2>1. holds[s] = <<>>  BY <1>1 DEF IInv, Lengths
  <2>2. holds' = [holds EXCEPT ![s] = holds'[s]]  BY <1>4, <1>8
  <2>3. Len(holds'[s]) <= Len(Text[s])  BY <1>2, <1>6, <1>8, TextFacts
  <2>4. \A i \in DOMAIN holds'[s] : content[holds'[s][i]] = Text[s][i]
    BY <1>3, <1>5, <1>8
  <2>5. QED  BY <1>1, <2>1, <2>2, <2>3, <2>4 DEF Sharing!Match
<1>16. QED  BY <1>10, <1>11, <1>12, <1>13, <1>14, <1>8, <1>15 DEF IInv

LEMMA ForkJoins ==
  ASSUME IInv, NEW s \in Seqs, NEW t \in Seqs, Fork(s, t)
  PROVE  IInv' /\ Sharing!Fork(s, t)
<1>1. /\ phase[s] = "new" /\ phase[t] \in {"filled", "published"} /\ Chain[s] = Chain[t]
      /\ refcount' = [b \in Blocks |-> refcount[b] + Count(holds[t], b)]
      /\ holds' = [holds EXCEPT ![s] = holds[t]]
      /\ phase' = [phase EXCEPT ![s] = phase[t]]
      /\ UNCHANGED <<free, cached, index, content>>
  BY DEF Fork
<1>2. holds[t] \in Seq(Blocks) /\ \A i, j \in DOMAIN holds[t] : holds[t][i] = holds[t][j] => i = j
  BY HoldsTypes DEF IInv, Distinct
<1>3. /\ refcount' \in [Blocks -> Nat] /\ holds' \in [Seqs -> Seq(Blocks)]
      /\ holds'[s] = holds[t] /\ \A q \in Seqs : q # s => holds'[q] = holds[q]
      /\ \A b \in Blocks : /\ refcount'[b] = Cardinality(sharers'[b])
                           /\ refcount'[b] = 0 <=> refcount[b] = 0 /\ b \notin ToSet(holds[t])
      /\ Distinct'
  BY <1>1, <1>2, TakesReferences
<1>4. Text[s] = Text[t]  BY <1>1 DEF Text
<1>5. TypeOK'  BY <1>1, <1>3 DEF IInv, TypeOK, index
<1>6. Lengths'  BY <1>1, <1>3, <1>4 DEF IInv, TypeOK, Lengths
<1>7. OwnText'  BY <1>1, <1>3, <1>4 DEF IInv, OwnText
<1>8. Referenced'
  <2>1. \A b \in Blocks : b \in ToSet(holds[t]) => refcount[b] # 0
    BY Unheld DEF sharers, held
  <2>2. QED  BY <1>1, <1>3, <2>1 DEF IInv, Referenced
<1>9. IndexSound'  BY <1>1 DEF IInv, IndexSound, index
<1>10. Sharing!Fork(s, t)
  <2>1. holds[s] = <<>>  BY <1>1 DEF IInv, Lengths
  <2>2. QED  BY <1>1, <1>4, <2>1 DEF Sharing!Fork
<1>11. QED  BY <1>3, <1>5, <1>6, <1>7, <1>8, <1>9, <1>10 DEF IInv

LEMMA FinishDrops ==
  ASSUME IInv, NEW s \in Seqs, Finish(s)
  PROVE  IInv' /\ Sharing!Drop(s)
<1>1. Leave(s) /\ cached' = cached \cup Unreferenced(s) /\ UNCHANGED <<free, index>>
  BY DEF Finish
<1>2. /\ refcount' \in [Blocks -> Nat] /\ holds' \in [Seqs -> Seq(Blocks)]
      /\ phase' \in [Seqs -> {"new", "matched", "filled", "published"}]
      /\ Distinct' /\ Lengths' /\ OwnText'
      /\ \A b \in Blocks : /\ refcount'[b] = Cardinality(sharers'[b])
                           /\ refcount'[b] = 0 <=> refcount[b] = 0 \/ b \in Unreferenced(s)
      /\ Unreferenced(s) \subseteq held[s] /\ held[s] \subseteq Blocks
      /\ \A b \in held[s] : refcount[b] # 0
  BY <1>1, GivesUpReferences
<1>3. UNCHANGED content /\ holds' = [holds EXCEPT ![s] = <<>>]  BY <1>1 DEF Leave
<1>4. TypeOK'  BY <1>1, <1>2, <1>3 DEF IInv, TypeOK, index
<1>5. Referenced'
  <2>1. \A b \in Blocks : b \in free' \cup cached' <=> refcount'[b] = 0
    BY <1>1, <1>2 DEF IInv, Referenced
  <2>2. free' \cap cached' = {}
    <3>1. \A b \in Unreferenced(s) : b \in Blocks /\ refcount[b] # 0  BY <1>2
    <3>2. \A b \in Unreferenced(s) : b \notin free  BY <3>1 DEF IInv, Referenced
    <3>3. QED  BY <1>1, <3>2 DEF IInv, Referenced
  <2>3. QED  BY <1>2, <2>1, <2>2 DEF Referenced
<1>6. IndexSound'  BY <1>1, <1>3 DEF IInv, IndexSound, index
<1>7. QED  BY <1>2, <1>3, <1>4, <1>5, <1>6 DEF IInv, Sharing!Drop

LEMMA DiscardDrops ==
  ASSUME IInv, NEW s \in Seqs, Discard(s)
  PROVE  IInv' /\ Sharing!Drop(s)
<1>1. /\ Leave(s) /\ free' = free \cup Unreferenced(s) /\ Forget(ToSet(holds[s]))
      /\ UNCHANGED cached
  BY DEF Discard
<1>2. /\ refcount' \in [Blocks -> Nat] /\ holds' \in [Seqs -> Seq(Blocks)]
      /\ phase' \in [Seqs -> {"new", "matched", "filled", "published"}]
      /\ Distinct' /\ Lengths' /\ OwnText'
      /\ \A b \in Blocks : /\ refcount'[b] = Cardinality(sharers'[b])
                           /\ refcount'[b] = 0 <=> refcount[b] = 0 \/ b \in Unreferenced(s)
      /\ Unreferenced(s) \subseteq held[s] /\ held[s] \subseteq Blocks
      /\ \A b \in held[s] : refcount[b] # 0
  BY <1>1, GivesUpReferences
<1>3. UNCHANGED content /\ holds' = [holds EXCEPT ![s] = <<>>]  BY <1>1 DEF Leave
<1>4. ToSet(holds[s]) \in SUBSET Blocks /\ ToSet(holds[s]) = held[s]  BY <1>2 DEF held
<1>5. /\ by_hash' \in [Hashes -> Blocks \cup {NoBlock}]
      /\ by_block' \in [Blocks -> Hashes \cup {NoHash}]
      /\ \A h \in Hashes : by_hash'[h] # NoBlock =>
           /\ by_hash'[h] = by_hash[h] /\ by_hash[h] \notin ToSet(holds[s])
           /\ by_block'[by_hash'[h]] = h
      /\ \A b \in Blocks : by_block'[b] # NoHash => by_hash'[by_block'[b]] = b
  BY <1>1, <1>4, ForgetMirrors
<1>6. TypeOK'  BY <1>1, <1>2, <1>3, <1>5 DEF IInv, TypeOK
<1>7. Referenced'
  <2>1. \A b \in Blocks : b \in free' \cup cached' <=> refcount'[b] = 0
    BY <1>1, <1>2 DEF IInv, Referenced
  <2>2. free' \cap cached' = {}
    <3>1. \A b \in Unreferenced(s) : b \in Blocks /\ refcount[b] # 0  BY <1>2
    <3>2. \A b \in Unreferenced(s) : b \notin cached  BY <3>1 DEF IInv, Referenced
    <3>3. QED  BY <1>1, <3>2 DEF IInv, Referenced
  <2>3. QED  BY <1>2, <2>1, <2>2 DEF Referenced
<1>8. IndexSound'  BY <1>1, <1>2, <1>3, <1>4, <1>5 DEF IInv, IndexSound
<1>9. QED  BY <1>2, <1>3, <1>6, <1>7, <1>8 DEF IInv, Sharing!Drop

LEMMA EvictPreserves ==
  ASSUME IInv, Evict PROVE IInv' /\ UNCHANGED <<holds, content>>
<1>1. PICK out \in SUBSET cached : /\ cached' = cached \ out /\ free' = free \cup out
                                   /\ Forget(out)
                                   /\ UNCHANGED <<refcount, phase, holds, content>>
  BY DEF Evict
<1>2. out \in SUBSET Blocks  BY DEF IInv, TypeOK
<1>3. /\ by_hash' \in [Hashes -> Blocks \cup {NoBlock}]
      /\ by_block' \in [Blocks -> Hashes \cup {NoHash}]
      /\ \A h \in Hashes : by_hash'[h] # NoBlock =>
           /\ by_hash'[h] = by_hash[h] /\ by_hash[h] \notin out
           /\ by_block'[by_hash'[h]] = h
      /\ \A b \in Blocks : by_block'[b] # NoHash => by_hash'[by_block'[b]] = b
  BY <1>1, <1>2, ForgetMirrors
<1>4. TypeOK'  BY <1>1, <1>2, <1>3 DEF IInv, TypeOK
<1>5. sharers' = sharers  BY <1>1 DEF sharers, held
<1>6. Referenced'  BY <1>1, <1>5 DEF IInv, Referenced
<1>7. Distinct' /\ Lengths' /\ OwnText'
  BY <1>1 DEF IInv, Distinct, Lengths, OwnText
<1>8. IndexSound'  BY <1>1, <1>3 DEF IInv, IndexSound
<1>9. QED  BY <1>1, <1>4, <1>6, <1>7, <1>8 DEF IInv

LEMMA ConcatFacts ==
  ASSUME NEW p \in Seq(Blocks), NEW q \in Seq(Blocks)
  PROVE  /\ p \o q \in Seq(Blocks) /\ Len(p \o q) = Len(p) + Len(q)
         /\ DOMAIN (p \o q) = 1 .. Len(p) + Len(q)
         /\ \A i \in 1 .. Len(p) : (p \o q)[i] = p[i]
         /\ \A i \in 1 .. Len(q) : (p \o q)[Len(p) + i] = q[i]
         /\ SubSeq(p, 1, Len(p)) = SubSeq(p \o q, 1, Len(p))
<1>1. p \o q \in Seq(Blocks) /\ Len(p \o q) = Len(p) + Len(q)
      /\ Len(p) \in Nat /\ Len(q) \in Nat
  OBVIOUS
<1>2. \A i \in 1 .. Len(p) : (p \o q)[i] = p[i]  OBVIOUS
<1>3. \A i \in 1 .. Len(q) : (p \o q)[Len(p) + i] = q[i]
  <2> TAKE i \in 1 .. Len(q)
  <2>1. Len(p) + i \in 1 .. Len(p) + Len(q) /\ ~ (Len(p) + i <= Len(p))
        /\ (Len(p) + i) - Len(p) = i
    BY <1>1
  <2>2. QED  BY <2>1, ConcatProperties
<1>4. SubSeq(p, 1, Len(p)) = p  BY SubSeqFull
<1>5. SubSeq(p \o q, 1, Len(p)) = p  BY SubSeqOfConcat1, SubSeqFull
<1>6. QED  BY <1>1, <1>2, <1>3, <1>4, <1>5

(* What is written goes to pages that nobody has, in place.                *)
LEMMA FillWrites ==
  ASSUME IInv, NEW s \in Seqs, Fill(s)
  PROVE  IInv' /\ Sharing!Fill(s)
<1> DEFINE at == Len(holds[s])
<1> DEFINE need == Len(Text[s]) - at
<1>1. PICK new \in [1 .. need -> free \cup cached] :
       /\ \A i, j \in 1 .. need : new[i] = new[j] => i = j
       /\ refcount' = [b \in Blocks |-> IF b \in ToSet(new) THEN 1 ELSE refcount[b]]
       /\ free' = free \ ToSet(new)
       /\ cached' = cached \ ToSet(new)
       /\ holds' = [holds EXCEPT ![s] = @ \o new]
       /\ content' = [b \in Blocks |->
            IF b \in ToSet(new)
              THEN Text[s][at + CHOOSE i \in 1 .. need : new[i] = b]
              ELSE content[b]]
       /\ Forget(ToSet(new))
  BY DEF Fill
<1>2. phase[s] = "matched" /\ phase' = [phase EXCEPT ![s] = "filled"]
  BY DEF Fill
<1>3. /\ at \in Nat /\ need \in Nat /\ at + need = Len(Text[s])
      /\ holds[s] \in Seq(Blocks) /\ DOMAIN holds[s] = 1 .. at
  <2>1. at \in Nat /\ holds[s] \in Seq(Blocks) /\ DOMAIN holds[s] = 1 .. at
    BY HoldsTypes DEF IInv
  <2>2. at <= Len(Chain[s])  BY <1>2 DEF IInv, Lengths
  <2>3. Len(Text[s]) = Len(Chain[s]) + 1 /\ Len(Chain[s]) \in Nat  BY TextFacts
  <2>4. QED  BY <2>1, <2>2, <2>3
<1> HIDE DEF need, at
<1>4. /\ new \in [1 .. need -> Blocks] /\ new \in Seq(Blocks) /\ Len(new) = need
      /\ DOMAIN new = 1 .. need /\ ToSet(new) \in SUBSET Blocks
      /\ ToSet(new) \subseteq free \cup cached
  <2>1. new \in [1 .. need -> Blocks]  BY DEF IInv, TypeOK
  <2>2. new \in Seq(Blocks) /\ Len(new) = need /\ DOMAIN new = 1 .. need
    BY <1>3, <2>1, SeqDef
  <2>3. QED  BY <2>1, <2>2 DEF ToSet
<1>5. \A b \in ToSet(new) : refcount[b] = 0 /\ sharers[b] = {}
  BY <1>4, Unheld DEF IInv, Referenced
<1>6. \A t \in Seqs, b \in ToSet(new) : b \notin held[t]
  BY <1>4, <1>5 DEF sharers
<1>7. /\ holds'[s] = holds[s] \o new /\ \A t \in Seqs : t # s => holds'[t] = holds[t]
      /\ phase'[s] = "filled" /\ \A t \in Seqs : t # s => phase'[t] = phase[t]
  BY <1>1, <1>2 DEF IInv, TypeOK
<1>8. /\ holds'[s] \in Seq(Blocks) /\ Len(holds'[s]) = at + need
      /\ DOMAIN holds'[s] = 1 .. at + need
      /\ \A i \in 1 .. at : holds'[s][i] = holds[s][i]
      /\ \A i \in 1 .. need : holds'[s][at + i] = new[i]
  <2>1. Len(holds[s]) = at  BY DEF at
  <2>2. /\ holds[s] \o new \in Seq(Blocks) /\ Len(holds[s] \o new) = at + need
        /\ DOMAIN (holds[s] \o new) = 1 .. at + need
        /\ \A i \in 1 .. at : (holds[s] \o new)[i] = holds[s][i]
        /\ \A i \in 1 .. need : (holds[s] \o new)[at + i] = new[i]
    BY <1>3, <1>4, <2>1, ConcatFacts
  <2>3. QED  BY <1>7, <2>2
<1>9. \A i \in 1 .. at + need : i \in 1 .. at \/ \E j \in 1 .. need : i = at + j
  <2> TAKE i \in 1 .. at + need
  <2>1. i \notin 1 .. at => i - at \in 1 .. need /\ i = at + (i - at)  BY <1>3
  <2>2. QED  BY <2>1
<1>10. \A i \in 1 .. at : holds[s][i] \in held[s] /\ holds[s][i] \in Blocks
                          /\ holds[s][i] \notin ToSet(new)
  BY <1>3, <1>6, HoldsTypes DEF IInv, held, ToSet
<1>11. \A j \in 1 .. need : new[j] \in ToSet(new)  BY <1>4 DEF ToSet
<1>12. ToSet(holds'[s]) = held[s] \cup ToSet(new)
  <2>1. \A i \in 1 .. at + need : holds'[s][i] \in held[s] \cup ToSet(new)
    BY <1>8, <1>9, <1>10, <1>11
  <2>2. \A b \in held[s] : \E i \in 1 .. at + need : holds'[s][i] = b
    <3> TAKE b \in held[s]
    <3>1. PICK i \in 1 .. at : holds[s][i] = b  BY <1>3 DEF held, ToSet
    <3>2. i \in 1 .. at + need  BY <1>3
    <3>3. QED  BY <1>8, <3>1, <3>2
  <2>3. \A b \in ToSet(new) : \E i \in 1 .. at + need : holds'[s][i] = b
    <3> TAKE b \in ToSet(new)
    <3>1. PICK j \in 1 .. need : new[j] = b  BY <1>4 DEF ToSet
    <3>2. at + j \in 1 .. at + need  BY <1>3
    <3>3. QED  BY <1>8, <3>1, <3>2
  <2>4. \A b : b \in ToSet(holds'[s]) <=> \E i \in 1 .. at + need : holds'[s][i] = b
    BY <1>8 DEF ToSet
  <2>5. QED  BY <2>1, <2>2, <2>3, <2>4
<1>13. \A j \in 1 .. need : content'[new[j]] = Text[s][at + j]
  <2> TAKE j \in 1 .. need
  <2>1. (CHOOSE i \in 1 .. need : new[i] = new[j]) = j  BY <1>1
  <2>2. new[j] \in ToSet(new) /\ new[j] \in Blocks  BY <1>4, <1>11
  <2>3. QED  BY <1>1, <2>1, <2>2
<1>14. /\ by_hash' \in [Hashes -> Blocks \cup {NoBlock}]
       /\ by_block' \in [Blocks -> Hashes \cup {NoHash}]
       /\ \A h \in Hashes : by_hash'[h] # NoBlock =>
            /\ by_hash'[h] = by_hash[h] /\ by_hash[h] \notin ToSet(new)
            /\ by_block'[by_hash'[h]] = h
       /\ \A b \in Blocks : by_block'[b] # NoHash => by_hash'[by_block'[b]] = b
  BY <1>1, <1>4, ForgetMirrors
<1>15. \A b \in Blocks : b \notin ToSet(new) => content'[b] = content[b]  BY <1>1
<1>16. TypeOK'
  <2>1. content' \in [Blocks -> Writes]
    <3>1. \A b \in ToSet(new) : content'[b] \in Writes
      <4> TAKE b \in ToSet(new)
      <4>1. PICK j \in 1 .. need : new[j] = b  BY <1>4 DEF ToSet
      <4>2. at + j \in 1 .. Len(Text[s])  BY <1>3
      <4>3. QED  BY <1>13, <4>1, <4>2, TextFacts
    <3>2. \A b \in Blocks : content'[b] \in Writes
      BY <1>15, <3>1 DEF IInv, TypeOK
    <3>3. QED  BY <1>1, <3>2
  <2>2. holds' \in [Seqs -> Seq(Blocks)]
    BY <1>1, <1>7, <1>8 DEF IInv, TypeOK
  <2>3. QED  BY <1>1, <1>2, <1>14, <2>1, <2>2 DEF IInv, TypeOK
<1>17. \A i, j \in DOMAIN holds'[s] : holds'[s][i] = holds'[s][j] => i = j
  <2> SUFFICES ASSUME NEW i \in 1 .. at + need, NEW j \in 1 .. at + need,
                      holds'[s][i] = holds'[s][j]
               PROVE  i = j
    BY <1>8
  <2>1. CASE i \in 1 .. at /\ j \in 1 .. at
    <3>1. i \in DOMAIN holds[s] /\ j \in DOMAIN holds[s] /\ holds[s][i] = holds[s][j]
      BY <1>3, <1>8, <2>1
    <3>2. QED  BY <3>1 DEF IInv, Distinct
  <2>2. CASE i \notin 1 .. at /\ j \notin 1 .. at
    <3>1. PICK k \in 1 .. need : i = at + k  BY <1>9, <2>2
    <3>2. PICK l \in 1 .. need : j = at + l  BY <1>9, <2>2
    <3>3. new[k] = new[l]  BY <1>8, <3>1, <3>2
    <3>4. QED  BY <1>1, <3>1, <3>2, <3>3
  <2>3. CASE i \in 1 .. at /\ j \notin 1 .. at
    BY <1>8, <1>9, <1>10, <1>11, <2>3
  <2>4. CASE i \notin 1 .. at /\ j \in 1 .. at
    BY <1>8, <1>9, <1>10, <1>11, <2>4
  <2>5. QED  BY <2>1, <2>2, <2>3, <2>4
<1>18. Distinct'  BY <1>7, <1>17 DEF IInv, Distinct
<1>19. Lengths'  BY <1>3, <1>7, <1>8 DEF IInv, Lengths
<1>20. \A i \in DOMAIN holds'[s] : content'[holds'[s][i]] = Text[s][i]
  <2> SUFFICES ASSUME NEW i \in 1 .. at + need
               PROVE  content'[holds'[s][i]] = Text[s][i]
    BY <1>8
  <2>1. CASE i \in 1 .. at
    BY <1>3, <1>8, <1>10, <1>15, <2>1 DEF IInv, OwnText
  <2>2. CASE i \notin 1 .. at  BY <1>8, <1>9, <1>13, <2>2
  <2>3. QED  BY <2>1, <2>2
<1>21. OwnText'
  <2> SUFFICES ASSUME NEW t \in Seqs, t # s, NEW i \in DOMAIN holds[t]
               PROVE  content'[holds[t][i]] = Text[t][i]
    <3>1. \A t \in Seqs : t # s => holds'[t] = holds[t]  BY <1>7
    <3>2. QED  BY <1>20, <3>1 DEF OwnText
  <2>1. holds[t][i] \in held[t] /\ holds[t][i] \in Blocks
    BY HoldsTypes DEF IInv, held, ToSet
  <2>2. QED  BY <1>6, <1>15, <2>1 DEF IInv, OwnText
<1>22. Referenced'
  <2>1. \A b \in Blocks : sharers'[b] = IF b \in ToSet(new) THEN {s} ELSE sharers[b]
    <3> TAKE b \in Blocks
    <3>1. sharers'[b] = {t \in Seqs : b \in ToSet(holds'[t])}  BY DEF sharers, held
    <3>2. \A t \in Seqs : t # s => (b \in ToSet(holds'[t]) <=> b \in held[t])
      BY <1>7 DEF held
    <3>3. b \in ToSet(holds'[s]) <=> b \in held[s] \/ b \in ToSet(new)  BY <1>12
    <3>4. QED  BY <1>6, <3>1, <3>2, <3>3 DEF sharers
  <2>2. \A b \in Blocks : refcount'[b] = Cardinality(sharers'[b])
    BY <1>1, <2>1, FS_Singleton DEF IInv, Referenced
  <2>3. \A b \in Blocks : b \in free' \cup cached' <=> refcount'[b] = 0
    BY <1>1 DEF IInv, Referenced
  <2>4. QED  BY <1>1, <2>2, <2>3 DEF IInv, Referenced
<1>23. IndexSound'
  <2>1. ASSUME NEW h \in Hashes, by_hash'[h] # NoBlock
        PROVE  by_hash'[h] \notin free' /\ content'[by_hash'[h]] = h
    <3>1. by_hash'[h] = by_hash[h] /\ by_hash[h] \in Blocks \ ToSet(new)
      BY <1>14, <2>1
    <3>2. QED  BY <1>1, <1>15, <2>1, <3>1 DEF IInv, IndexSound
  <2>2. QED  BY <1>14, <2>1 DEF IndexSound
<1>24. Sharing!Fill(s)
  <2> DEFINE added == Sharing!ToSet(holds'[s]) \ Sharing!ToSet(holds[s])
  <2>1. added = ToSet(new)  BY <1>6, <1>12 DEF Sharing!ToSet, ToSet, held
  <2>2. holds' = [holds EXCEPT ![s] = holds'[s]]  BY <1>1, <1>7
  <2>3. Sharing!IsPrefix(holds[s], holds'[s])
    <3>1. at <= at + need  BY <1>3
    <3>2. SubSeq(holds[s], 1, at) = SubSeq(holds'[s], 1, at)
      BY <1>3, <1>4, <1>7, ConcatFacts DEF at
    <3>3. QED  BY <1>8, <3>1, <3>2 DEF Sharing!IsPrefix, at
  <2>4. added \cap Sharing!Owned = {}
    BY <1>6, <2>1 DEF Sharing!Owned, Sharing!ToSet, ToSet, held
  <2>5. \A b \in Blocks \ added : content'[b] = content[b]  BY <1>15, <2>1
  <2>6. Len(holds'[s]) = Len(Text[s])  BY <1>3, <1>8
  <2>7. QED
    BY <1>17, <1>20, <2>2, <2>3, <2>4, <2>5, <2>6 DEF Sharing!Fill
<1>25. QED
  BY <1>16, <1>18, <1>19, <1>21, <1>22, <1>23, <1>24 DEF IInv

(* insert() enters the sequence's own pages; the pages it takes off the    *)
(* index are other ones, since a page holds the text of one hash only.     *)
LEMMA PublishPreserves ==
  ASSUME IInv, NEW s \in Seqs, Publish(s)
  PROVE  IInv' /\ UNCHANGED <<holds, content>>
<1> DEFINE dom == DOMAIN Chain[s]
<1> DEFINE entered(b) == {i \in dom : holds[s][i] = b}
<1> DEFINE dropped(b) == {i \in dom : by_hash[Chain[s][i]] = b /\ holds[s][i] # b}
<1> DEFINE last(b) == CHOOSE i \in entered(b) \cup dropped(b) :
                        \A j \in entered(b) \cup dropped(b) : j <= i
<1>1. /\ phase[s] = "filled" /\ phase' = [phase EXCEPT ![s] = "published"]
      /\ UNCHANGED <<refcount, free, cached, holds, content>>
      /\ by_hash' = [h \in Hashes |->
           IF \E i \in dom : Chain[s][i] = h
             THEN holds[s][CHOOSE i \in dom : Chain[s][i] = h] ELSE by_hash[h]]
      /\ by_block' = [b \in Blocks |->
           IF entered(b) \cup dropped(b) = {} THEN by_block[b]
           ELSE IF last(b) \in entered(b) THEN Chain[s][last(b)] ELSE NoHash]
  BY DEF Publish
<1>2. dom = 1 .. Len(Chain[s]) /\ Len(Chain[s]) \in Nat /\ dom \subseteq Nat
      /\ \A i \in dom : Chain[s][i] \in Hashes
  BY TextFacts
<1>3. \A i, j \in dom : Chain[s][i] = Chain[s][j] => i = j  BY KvCacheAssumption
<1>4. ASSUME NEW i \in dom
      PROVE  /\ holds[s][i] \in Blocks /\ holds[s][i] \in held[s]
             /\ content[holds[s][i]] = Chain[s][i] /\ i \in DOMAIN holds[s]
  <2>1. Len(holds[s]) = Len(Chain[s]) + 1  BY <1>1, TextFacts DEF IInv, Lengths
  <2>2. i \in 1 .. Len(holds[s])  BY <1>2, <2>1
  <2>3. i \in DOMAIN holds[s] /\ holds[s][i] \in Blocks  BY <2>2, HoldsTypes DEF IInv
  <2>4. QED  BY <1>2, <2>3, TextFacts DEF IInv, OwnText, held, ToSet
<1>5. \A i, j \in dom : holds[s][i] = holds[s][j] => i = j
  BY <1>4 DEF IInv, Distinct
<1> HIDE DEF dom
<1>6. \A i \in dom : by_hash'[Chain[s][i]] = holds[s][i]
  <2> TAKE i \in dom
  <2>1. (CHOOSE j \in dom : Chain[s][j] = Chain[s][i]) = i  BY <1>3
  <2>2. QED  BY <1>1, <1>2, <2>1
<1>7. \A h \in Hashes : (\A i \in dom : Chain[s][i] # h) => by_hash'[h] = by_hash[h]
  BY <1>1
<1>8. \A h \in Hashes : by_hash[h] # NoBlock =>
        by_hash[h] \in Blocks /\ by_block[by_hash[h]] = h /\ content[by_hash[h]] = h
        /\ by_hash[h] \notin free
  BY DEF IInv, TypeOK, IndexSound
<1>9. ASSUME NEW i \in dom
      PROVE  by_block'[holds[s][i]] = Chain[s][i]
  <2> DEFINE b == holds[s][i]
  <2>1. entered(b) = {i}  BY <1>5
  <2>2. dropped(b) = {}
    <3> SUFFICES ASSUME NEW j \in dropped(b) PROVE FALSE
      OBVIOUS
    <3>1. j \in dom /\ by_hash[Chain[s][j]] = b /\ holds[s][j] # b  OBVIOUS
    <3>2. Chain[s][j] \in Hashes /\ by_hash[Chain[s][j]] # NoBlock
      BY <1>2, <1>4, <3>1, KvCacheAssumption
    <3>3. content[b] = Chain[s][j]  BY <1>8, <3>1, <3>2
    <3>4. j = i  BY <1>3, <1>4, <3>1, <3>3
    <3>5. QED  BY <3>1, <3>4
  <2>3. last(b) = i
    <3>1. entered(b) \cup dropped(b) = {i}  BY <2>1, <2>2
    <3>2. i <= i  BY <1>2
    <3>3. QED  BY <3>1, <3>2
  <2>4. b \in Blocks  BY <1>4
  <2>5. entered(b) \cup dropped(b) # {} /\ last(b) \in entered(b)  BY <2>1, <2>3
  <2>6. by_block'[b] = IF entered(b) \cup dropped(b) = {} THEN by_block[b]
           ELSE IF last(b) \in entered(b) THEN Chain[s][last(b)] ELSE NoHash
    BY <1>1, <2>4
  <2>7. QED  BY <2>3, <2>5, <2>6
<1>10. ASSUME NEW b \in Blocks, \A i \in dom : holds[s][i] # b
       PROVE  by_block'[b] = IF \E i \in dom : by_hash[Chain[s][i]] = b
                               THEN NoHash ELSE by_block[b]
  <2>1. entered(b) = {}  BY <1>10
  <2>2. dropped(b) = {} <=> ~ \E i \in dom : by_hash[Chain[s][i]] = b  BY <1>10
  <2>3. by_block'[b] = IF entered(b) \cup dropped(b) = {} THEN by_block[b]
           ELSE IF last(b) \in entered(b) THEN Chain[s][last(b)] ELSE NoHash
    BY <1>1
  <2>4. QED  BY <2>1, <2>2, <2>3
<1> HIDE DEF entered, dropped, last
<1>11. TypeOK'
  <2>1. \A h \in Hashes : by_hash'[h] \in Blocks \cup {NoBlock}
    BY <1>4, <1>6, <1>7 DEF IInv, TypeOK
  <2>2. \A b \in Blocks : by_block'[b] \in Hashes \cup {NoHash}
    <3> TAKE b \in Blocks
    <3>1. CASE \E i \in dom : holds[s][i] = b  BY <1>2, <1>9, <3>1
    <3>2. CASE \A i \in dom : holds[s][i] # b
      BY <1>10, <3>2 DEF IInv, TypeOK
    <3>3. QED  BY <3>1, <3>2
  <2>3. by_hash' \in [Hashes -> Blocks \cup {NoBlock}]  BY <1>1, <2>1
  <2>4. by_block' \in [Blocks -> Hashes \cup {NoHash}]  BY <1>1, <2>2
  <2>5. QED  BY <1>1, <2>3, <2>4 DEF IInv, TypeOK
<1>12. IndexSound'
  <2>1. ASSUME NEW h \in Hashes, by_hash'[h] # NoBlock
        PROVE  /\ by_block'[by_hash'[h]] = h /\ by_hash'[h] \notin free'
               /\ content'[by_hash'[h]] = h
    <3>1. CASE \E i \in dom : Chain[s][i] = h
      <4>1. PICK i \in dom : Chain[s][i] = h  BY <3>1
      <4>2. by_hash'[h] = holds[s][i]  BY <1>6, <4>1
      <4>3. holds[s][i] \notin free  BY <1>4, Unheld
      <4>4. QED  BY <1>1, <1>4, <1>9, <4>1, <4>2, <4>3
    <3>2. CASE \A i \in dom : Chain[s][i] # h
      <4> DEFINE b == by_hash[h]
      <4>1. by_hash'[h] = b  BY <1>7, <3>2
      <4>2. b \in Blocks /\ by_block[b] = h /\ content[b] = h /\ b \notin free
        BY <1>8, <2>1, <4>1
      <4>3. \A i \in dom : holds[s][i] # b  BY <1>4, <3>2, <4>2
      <4>4. \A i \in dom : by_hash[Chain[s][i]] # b
        BY <1>2, <1>8, <2>1, <3>2, <4>1, <4>2
      <4>5. by_block'[b] = h  BY <1>10, <4>2, <4>3, <4>4
      <4>6. QED  BY <1>1, <4>1, <4>2, <4>5
    <3>3. QED  BY <3>1, <3>2
  <2>2. ASSUME NEW b \in Blocks, by_block'[b] # NoHash
        PROVE  by_hash'[by_block'[b]] = b
    <3>1. CASE \E i \in dom : holds[s][i] = b  BY <1>6, <1>9, <3>1
    <3>2. CASE \A i \in dom : holds[s][i] # b
      <4>1. by_block'[b] = by_block[b] /\ \A i \in dom : by_hash[Chain[s][i]] # b
        BY <1>10, <2>2, <3>2
      <4>2. by_block[b] \in Hashes /\ by_hash[by_block[b]] = b
        BY <2>2, <4>1 DEF IInv, TypeOK, IndexSound
      <4>3. \A i \in dom : Chain[s][i] # by_block[b]  BY <4>1, <4>2
      <4>4. QED  BY <1>7, <4>1, <4>2, <4>3
    <3>3. QED  BY <3>1, <3>2
  <2>3. QED  BY <2>1, <2>2 DEF IndexSound
<1>13. sharers' = sharers  BY <1>1 DEF sharers, held
<1>14. Distinct' /\ OwnText' /\ Referenced'
  BY <1>1, <1>13 DEF IInv, Distinct, OwnText, Referenced
<1>15. Lengths'  BY <1>1 DEF IInv, TypeOK, Lengths
<1>16. QED  BY <1>1, <1>11, <1>12, <1>14, <1>15 DEF IInv

-------------------------------------------------------------------------------
LEMMA InitEstablishes == Init => IInv
<1> SUFFICES ASSUME Init PROVE IInv
  OBVIOUS
<1> USE DEF Init
<1>1. TypeOK  BY DEF TypeOK, Writes
<1>2. \A s \in Seqs : holds[s] = <<>> /\ DOMAIN holds[s] = {} /\ held[s] = {}
  BY DEF held, ToSet
<1>3. Distinct /\ Lengths /\ OwnText  BY <1>2 DEF Distinct, Lengths, OwnText
<1>4. \A b \in Blocks : sharers[b] = {}  BY <1>2 DEF sharers
<1>5. Referenced  BY <1>4, FS_EmptySet DEF Referenced
<1>6. IndexSound  BY DEF IndexSound
<1>7. QED  BY <1>1, <1>3, <1>5, <1>6 DEF IInv

(* Every step keeps the invariant, and is a step of PrefixSharing or       *)
(* changes nothing it speaks of.                                           *)
LEMMA StepImplements ==
  ASSUME IInv, [Next]_vars
  PROVE  IInv' /\ [Sharing!Next]_<<holds, content>>
<1>1. ASSUME NEW s \in Seqs, Lookup(s)
      PROVE  IInv' /\ [Sharing!Next]_<<holds, content>>
  BY <1>1, LookupMatches DEF Sharing!Next
<1>2. ASSUME NEW s \in Seqs, Fill(s)
      PROVE  IInv' /\ [Sharing!Next]_<<holds, content>>
  BY <1>2, FillWrites DEF Sharing!Next
<1>3. ASSUME NEW s \in Seqs, Publish(s)
      PROVE  IInv' /\ [Sharing!Next]_<<holds, content>>
  BY <1>3, PublishPreserves
<1>4. ASSUME NEW s \in Seqs, Finish(s)
      PROVE  IInv' /\ [Sharing!Next]_<<holds, content>>
  BY <1>4, FinishDrops DEF Sharing!Next
<1>5. ASSUME NEW s \in Seqs, Discard(s)
      PROVE  IInv' /\ [Sharing!Next]_<<holds, content>>
  BY <1>5, DiscardDrops DEF Sharing!Next
<1>6. ASSUME NEW s \in Seqs, NEW t \in Seqs, Fork(s, t)
      PROVE  IInv' /\ [Sharing!Next]_<<holds, content>>
  BY <1>6, ForkJoins DEF Sharing!Next
<1>7. CASE Evict  BY <1>7, EvictPreserves
<1>8. CASE UNCHANGED vars
  <2>1. sharers' = sharers  BY <1>8 DEF vars, sharers, held
  <2>2. IInv'
    BY <1>8, <2>1
    DEF vars, IInv, TypeOK, Distinct, Lengths, OwnText, Referenced, IndexSound
  <2>3. QED  BY <1>8, <2>2 DEF vars
<1>9. QED  BY <1>1, <1>2, <1>3, <1>4, <1>5, <1>6, <1>7, <1>8 DEF Next

(***************************************************************************)
(* For any sequences and pages: a sequence's pages are distinct, hold its  *)
(* own text, and are neither free nor cached while pool.rs counts them,    *)
(* and prefix.rs points only to pages with the text it was told.           *)
(***************************************************************************)
THEOREM InductiveInvariant == Spec => []IInv
<1>1. Init => IInv  BY InitEstablishes
<1>2. IInv /\ [Next]_vars => IInv'  BY StepImplements
<1>3. QED  BY <1>1, <1>2, PTL DEF Spec

(***************************************************************************)
(* A page has as many references as there are places that refer to it.     *)
(***************************************************************************)
LEMMA HoldersAreSharers ==
  ASSUME IInv, NEW b \in Blocks
  PROVE  Cardinality(Holders(b)) = Cardinality(sharers[b])
<1> DEFINE f == [p \in Holders(b) |-> p[1]]
<1>1. \A p \in Holders(b) : \E s \in Seqs : \E i \in DOMAIN holds[s] :
        p = <<s, i>> /\ holds[s][i] = b
  BY DEF Holders
<1>2. \A s \in Seqs : \A i \in DOMAIN holds[s] : holds[s][i] = b => <<s, i>> \in Holders(b)
  BY DEF Holders
<1>3. \A s \in Seqs : s \in sharers[b] <=> \E i \in DOMAIN holds[s] : holds[s][i] = b
  BY DEF sharers, held, ToSet
<1>4. f \in [Holders(b) -> sharers[b]]  BY <1>1, <1>3
<1>5. \A p, q \in Holders(b) : f[p] = f[q] => p = q
  <2> TAKE p, q \in Holders(b)
  <2> HAVE f[p] = f[q]
  <2>1. PICK s \in Seqs : \E i \in DOMAIN holds[s] : p = <<s, i>> /\ holds[s][i] = b
    BY <1>1
  <2>2. PICK i \in DOMAIN holds[s] : p = <<s, i>> /\ holds[s][i] = b  BY <2>1
  <2>3. PICK t \in Seqs : \E j \in DOMAIN holds[t] : q = <<t, j>> /\ holds[t][j] = b
    BY <1>1
  <2>4. PICK j \in DOMAIN holds[t] : q = <<t, j>> /\ holds[t][j] = b  BY <2>3
  <2>5. s = t  BY <2>2, <2>4
  <2>6. i = j  BY <2>2, <2>4, <2>5 DEF IInv, Distinct
  <2>7. QED  BY <2>2, <2>4, <2>5, <2>6
<1>6. \A s \in sharers[b] : \E p \in Holders(b) : f[p] = s
  <2> TAKE s \in sharers[b]
  <2>1. s \in Seqs  BY DEF sharers
  <2>2. PICK i \in DOMAIN holds[s] : holds[s][i] = b  BY <1>3, <2>1
  <2>3. <<s, i>> \in Holders(b) /\ f[<<s, i>>] = s  BY <1>2, <2>1, <2>2
  <2>4. QED  BY <2>3
<1> HIDE DEF f
<1>7. f \in Injection(Holders(b), sharers[b])  BY <1>4, <1>5 DEF Injection, IsInjective
<1>8. f \in Surjection(Holders(b), sharers[b])  BY <1>4, <1>6 DEF Surjection
<1>9. IsFiniteSet(sharers[b])  BY SharersFinite DEF sharers
<1>10. QED  BY <1>7, <1>8, <1>9, FS_Injection

(***************************************************************************)
(* For any numbers of sequences and pages, however they share, fork, evict *)
(* and discard: a page's refcount is the number of references to it, and a *)
(* page is on the free list or in the cache exactly when it has none,      *)
(* never in both (pool.rs).                                                *)
(***************************************************************************)
THEOREM BlocksAccountedTheorem == Spec => []BlocksAccounted
<1>1. IInv => BlocksAccounted
  BY HoldersAreSharers DEF IInv, Referenced, BlocksAccounted, PoolAccounted
<1>2. QED  BY <1>1, InductiveInvariant, PTL

(***************************************************************************)
(* The two maps of prefix.rs mirror each other after every lookup, insert  *)
(* and forget, and an entry names a page that is not free and still holds  *)
(* that prefix.                                                            *)
(***************************************************************************)
THEOREM IndexSoundTheorem == Spec => []IndexSound
<1>1. IInv => IndexSound  BY DEF IInv
<1>2. QED  BY <1>1, InductiveInvariant, PTL

(***************************************************************************)
(* Allocator and index implement PrefixSharing: what lookup() matches is   *)
(* the sequence's own text, alloc() hands out pages nobody has, and no     *)
(* sequence's pages are written while it has them.                         *)
(***************************************************************************)
THEOREM SharingTheorem == Spec => SharingSpec
<1>1. Init => Sharing!Init  BY DEF Init, Sharing!Init
<1>2. IInv /\ [Next]_vars => [Sharing!Next]_<<holds, content>>  BY StepImplements
<1>3. QED  BY <1>1, <1>2, InductiveInvariant, PTL DEF Spec, SharingSpec, Sharing!Spec
===============================================================================
