-------------------------------- MODULE KvCache --------------------------------
(***************************************************************************)
(* The paged KV allocator and the prefix index of crates/kvcache/src       *)
(* (pool.rs, prefix.rs) under sequences that look up their prefix, fill    *)
(* the rest, publish it and give it up.                                    *)
(*                                                                         *)
(* A hash stands for the whole prefix it covers (block_hashes() chains     *)
(* them), so a sequence is the sequence of its hashes.  Each sequence has  *)
(* one more page, for the tail that is never published.  The free stack    *)
(* and the queue of cached pages are sets: which free page is handed out,  *)
(* and which cached page is the oldest, is left open.                      *)
(*                                                                         *)
(* alloc() may reclaim a cached page; its comment makes the owner of the   *)
(* index responsible for dropping the entry.  The owners here do: they     *)
(* forget() the pages alloc() and evict_cached() give them and the pages   *)
(* they release().                                                         *)
(***************************************************************************)
EXTENDS Integers, FiniteSets, SequencesExt

CONSTANTS
  Seqs,             \* sequences
  Blocks, NoBlock,  \* pages
  Hashes, NoHash,   \* chained hashes
  Chain             \* block_hashes() of each sequence

ASSUME KvCacheAssumption ==
  /\ IsFiniteSet(Seqs) /\ IsFiniteSet(Blocks)
  /\ NoBlock \notin Blocks /\ NoHash \notin Hashes
  /\ Chain \in [Seqs -> Seq(Hashes)]
  /\ \A s \in Seqs : \A i, j \in DOMAIN Chain[s] :
       Chain[s][i] = Chain[s][j] => i = j

VARIABLES
  refcount, free, cached,  \* the pool
  by_hash, by_block,       \* the index, both ways
  phase,                   \* where each sequence is
  holds,                   \* the pages of each sequence
  content                  \* what was last written to each page

index == <<by_hash, by_block>>
vars == <<refcount, free, cached, by_hash, by_block, phase, holds, content>>

(* What a sequence writes to its pages: the hashed blocks, then the tail.  *)
Text == [s \in Seqs |-> Append(Chain[s], Chain[s])]
Writes == Hashes \cup {Chain[s] : s \in Seqs} \cup {NoHash}

TypeOK ==
  /\ refcount \in [Blocks -> Nat]
  /\ free \subseteq Blocks /\ cached \subseteq Blocks
  /\ by_hash \in [Hashes -> Blocks \cup {NoBlock}]
  /\ by_block \in [Blocks -> Hashes \cup {NoHash}]
  /\ phase \in [Seqs -> {"new", "matched", "filled", "published"}]
  /\ holds \in [Seqs -> Seq(Blocks)]
  /\ content \in [Blocks -> Writes]

Init ==
  /\ refcount = [b \in Blocks |-> 0]
  /\ free = Blocks
  /\ cached = {}
  /\ by_hash = [h \in Hashes |-> NoBlock]
  /\ by_block = [b \in Blocks |-> NoHash]
  /\ phase = [s \in Seqs |-> "new"]
  /\ holds = [s \in Seqs |-> <<>>]
  /\ content = [b \in Blocks |-> NoHash]

(* How often a page occurs in a list of pages.                             *)
Count(list, b) == Cardinality({i \in DOMAIN list : list[i] = b})

-------------------------------------------------------------------------------
(* reacquire() succeeds for a cached page and for one in use.              *)
Reacquirable(b) == b \in cached \/ refcount[b] > 0

Hit(h) == by_hash[h] # NoBlock /\ Reacquirable(by_hash[h])

(* The hashes of s before the first one that is not a hit.                 *)
IsMatch(s, k) ==
  /\ \A i \in 1 .. k : Hit(Chain[s][i])
  /\ k < Len(Chain[s]) => ~ Hit(Chain[s][k + 1])

(* Mutant of Lookup: a miss does not end the match.                        *)
LookupSkipping(s) ==
  LET hits == SelectSeq(Chain[s], Hit)
      found == [i \in DOMAIN hits |-> by_hash[hits[i]]]
  IN /\ phase[s] = "new"
     /\ holds' = [holds EXCEPT ![s] = found]
     /\ refcount' = [b \in Blocks |-> refcount[b] + Count(found, b)]
     /\ cached' = cached \ ToSet(found)
     /\ phase' = [phase EXCEPT ![s] = "matched"]
     /\ UNCHANGED <<free, index, content>>

(* PrefixCache::lookup(): the longest run of hits, each page reacquired;   *)
(* an entry for a page that is neither cached nor in use is dropped.       *)
Lookup(s) ==
  /\ phase[s] = "new"
  /\ \E k \in 0 .. Len(Chain[s]) :
       LET found == [i \in 1 .. k |-> by_hash[Chain[s][i]]]
           stale == IF k < Len(Chain[s]) THEN {Chain[s][k + 1]} ELSE {}
       IN /\ IsMatch(s, k)
          /\ holds' = [holds EXCEPT ![s] = found]
          /\ refcount' = [b \in Blocks |-> refcount[b] + Count(found, b)]
          /\ cached' = cached \ ToSet(found)
          /\ by_hash' = [h \in Hashes |->
                           IF h \in stale THEN NoBlock ELSE by_hash[h]]
          /\ by_block' = [b \in Blocks |->
                            IF \E h \in stale : by_hash[h] = b
                              THEN NoHash ELSE by_block[b]]
  /\ phase' = [phase EXCEPT ![s] = "matched"]
  /\ UNCHANGED <<free, content>>

(* PrefixCache::forget().                                                  *)
Forget(given) ==
  /\ by_block' = [b \in Blocks |-> IF b \in given THEN NoHash ELSE by_block[b]]
  /\ by_hash' = [h \in Hashes |->
       IF \E b \in given : by_block[b] = h THEN NoBlock ELSE by_hash[h]]

(* alloc() for the pages the match did not supply, forget() for what they  *)
(* were, and the prefill that writes them.  alloc() takes free pages       *)
(* first, then cached ones, and fails when there are not enough of both.   *)
Fill(s) ==
  LET need == Len(Text[s]) - Len(holds[s])
      at == Len(holds[s])
  IN
  /\ phase[s] = "matched"
  /\ Cardinality(free \cup cached) >= need
  /\ \E new \in [1 .. need -> free \cup cached] :
       /\ \A i, j \in 1 .. need : new[i] = new[j] => i = j
       /\ ToSet(new) \subseteq free \/ free \subseteq ToSet(new)
       /\ refcount' = [b \in Blocks |-> IF b \in ToSet(new) THEN 1
                                                            ELSE refcount[b]]
       /\ free' = free \ ToSet(new)
       /\ cached' = cached \ ToSet(new)
       /\ holds' = [holds EXCEPT ![s] = @ \o new]
       /\ content' = [b \in Blocks |->
            IF b \in ToSet(new)
              THEN Text[s][at + CHOOSE i \in 1 .. need : new[i] = b]
              ELSE content[b]]
       /\ Forget(ToSet(new))
  /\ phase' = [phase EXCEPT ![s] = "filled"]

(* Mutant of Publish: the page a hash is taken from stays in by_block.     *)
PublishOver(s) ==
  /\ phase[s] = "filled"
  /\ by_hash' = [h \in Hashes |->
       IF \E i \in DOMAIN Chain[s] : Chain[s][i] = h
         THEN holds[s][CHOOSE i \in DOMAIN Chain[s] : Chain[s][i] = h]
         ELSE by_hash[h]]
  /\ by_block' = [b \in Blocks |->
       IF \E i \in DOMAIN Chain[s] : holds[s][i] = b
         THEN Chain[s][CHOOSE i \in DOMAIN Chain[s] : holds[s][i] = b]
         ELSE by_block[b]]
  /\ phase' = [phase EXCEPT ![s] = "published"]
  /\ UNCHANGED <<refcount, free, cached, holds, content>>

(* PrefixCache::insert(): hash by hash, a hash that pointed to another     *)
(* page takes that page off by_block, and then the new pair is entered.    *)
(* What by_block has for a page is decided by the last of these.           *)
Publish(s) ==
  LET entered(b) == {i \in DOMAIN Chain[s] : holds[s][i] = b}
      dropped(b) == {i \in DOMAIN Chain[s] : /\ by_hash[Chain[s][i]] = b
                                             /\ holds[s][i] # b}
      last(b) == CHOOSE i \in entered(b) \cup dropped(b) :
                   \A j \in entered(b) \cup dropped(b) : j <= i
  IN
  /\ phase[s] = "filled"
  /\ by_hash' = [h \in Hashes |->
       IF \E i \in DOMAIN Chain[s] : Chain[s][i] = h
         THEN holds[s][CHOOSE i \in DOMAIN Chain[s] : Chain[s][i] = h]
         ELSE by_hash[h]]
  /\ by_block' = [b \in Blocks |->
       IF entered(b) \cup dropped(b) = {} THEN by_block[b]
       ELSE IF last(b) \in entered(b) THEN Chain[s][last(b)] ELSE NoHash]
  /\ phase' = [phase EXCEPT ![s] = "published"]
  /\ UNCHANGED <<refcount, free, cached, holds, content>>

(* evict_cached(), and forget() for the pages it returns.                  *)
Evict ==
  \E out \in SUBSET cached \ {{}} :
    /\ cached' = cached \ out
    /\ free' = free \cup out
    /\ Forget(out)
    /\ UNCHANGED <<refcount, phase, holds, content>>

(* The pages of s, one reference less, and those nobody refers to now.     *)
(* Mutant of LeftBy: two references less.                                  *)
LeftByTwice(s) == [b \in Blocks |-> refcount[b] - 2 * Count(holds[s], b)]
LeftBy(s) == [b \in Blocks |-> refcount[b] - Count(holds[s], b)]
Unreferenced(s) == {b \in ToSet(holds[s]) : refcount[b] = Count(holds[s], b)}

Leave(s) ==
  /\ phase[s] # "new"
  /\ refcount' = LeftBy(s)
  /\ holds' = [holds EXCEPT ![s] = <<>>]
  /\ phase' = [phase EXCEPT ![s] = "new"]
  /\ UNCHANGED content

(* release_to_cache(): the pages stay addressable.                         *)
Finish(s) ==
  /\ Leave(s)
  /\ cached' = cached \cup Unreferenced(s)
  /\ UNCHANGED <<free, index>>

(* Mutant of Discard: pages others refer to are freed too.                 *)
DiscardShared(s) ==
  /\ Leave(s)
  /\ free' = free \cup ToSet(holds[s])
  /\ Forget(ToSet(holds[s]))
  /\ UNCHANGED cached

(* forget() and release(): the pages go to the free list.                  *)
Discard(s) ==
  /\ Leave(s)
  /\ free' = free \cup Unreferenced(s)
  /\ Forget(ToSet(holds[s]))
  /\ UNCHANGED cached

(* incref(): s joins a sequence with the same text.                        *)
Fork(s, t) ==
  /\ phase[s] = "new"
  /\ phase[t] \in {"filled", "published"}
  /\ Chain[s] = Chain[t]
  /\ refcount' = [b \in Blocks |-> refcount[b] + Count(holds[t], b)]
  /\ holds' = [holds EXCEPT ![s] = holds[t]]
  /\ phase' = [phase EXCEPT ![s] = phase[t]]
  /\ UNCHANGED <<free, cached, index, content>>

Next ==
  \/ \E s \in Seqs :
       Lookup(s) \/ Fill(s) \/ Publish(s) \/ Finish(s) \/ Discard(s)
  \/ \E s, t \in Seqs : Fork(s, t)
  \/ Evict

Spec == Init /\ [][Next]_vars

-------------------------------------------------------------------------------
Holders(b) ==
  UNION {{<<s, i>> : i \in {j \in DOMAIN holds[s] : holds[s][j] = b}} :
           s \in Seqs}

(***************************************************************************)
(* The allocator's books across shared, forked, evicted and discarded      *)
(* pages (pool.rs): the count of a page is the number of references to it, *)
(* and a page is free or cached exactly when there are none, never both.   *)
(***************************************************************************)
PoolAccounted ==
  /\ \A b \in Blocks :
       /\ refcount[b] = Cardinality(Holders(b))
       /\ b \in free \cup cached <=> refcount[b] = 0
  /\ free \cap cached = {}

(***************************************************************************)
(* The two maps of the index mirror each other, and an entry names a page  *)
(* that still has the content and is not on the free list (prefix.rs).     *)
(***************************************************************************)
IndexSound ==
  /\ \A h \in Hashes : by_hash[h] # NoBlock =>
       /\ by_block[by_hash[h]] = h
       /\ by_hash[h] \notin free
       /\ content[by_hash[h]] = h
  /\ \A b \in Blocks : by_block[b] # NoHash => by_hash[by_block[b]] = b

(***************************************************************************)
(* Allocator and index together implement what PrefixSharing promises:     *)
(* a match finds the sequence's own text, and only pages nobody has are    *)
(* written.                                                                *)
(***************************************************************************)
Sharing == INSTANCE PrefixSharing WITH pages <- holds, Blank <- NoHash
SharingSpec == Sharing!Spec

(***************************************************************************)
(* The allocator's state is of its type and its books are exact.           *)
(***************************************************************************)
BlocksAccounted == TypeOK /\ PoolAccounted
===============================================================================
