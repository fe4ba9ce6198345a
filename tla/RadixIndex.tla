------------------------------ MODULE RadixIndex ------------------------------
(***************************************************************************)
(* The router's approximate prefix index, crates/kvcache/src/radix.rs, as  *)
(* operators on an index value.  A node is named by the tokens on the path *)
(* to it, so an index is a function from paths to what the node holds: the *)
(* edge of a node is what its path adds to its parent's, and the arena     *)
(* slots that detach() shuffles have no counterpart.                       *)
(***************************************************************************)
EXTENDS Integers, Sequences, SequencesExt, FiniteSetsExt

CONSTANTS
  MinPrefixTokens,   \* min_prefix_tokens
  MaxNodes           \* max_nodes

ASSUME RadixAssumption == MinPrefixTokens \in Nat \ {0} /\ MaxNodes \in Nat \ {0}

(* What a node holds besides its place in the tree.                        *)
Node(workers, last) == [workers |-> workers, last |-> last]
Root == <<>>

(* RadixIndex::new() and clear(): the root alone.                          *)
Empty == [p \in {Root} |-> Node({}, 0)]

(* common_prefix_len, as the prefix itself.                                *)
Common(s, t) ==
  LET n == CHOOSE n \in 0 .. Len(s) :
             /\ n <= Len(t)
             /\ \A i \in 1 .. n : s[i] = t[i]
             /\ n < Len(s) /\ n < Len(t) => s[n + 1] # t[n + 1]
  IN SubSeq(s, 1, n)

(* The nodes a walk along t passes through, and the last of them.          *)
Along(index, t) == {p \in DOMAIN index : IsPrefix(p, t)}
Deepest(index, t) ==
  CHOOSE p \in Along(index, t) : \A q \in Along(index, t) : Len(q) <= Len(p)

(* children.get(): the child of the last node whose edge starts as t goes  *)
(* on; a set with at most one member.                                      *)
Blocking(index, t) ==
  LET p == Deepest(index, t)
      under == {q \in DOMAIN index : Len(Common(q, t)) > Len(p)}
  IN {q \in under : \A r \in under : ~ IsStrictPrefix(r, q)}

(* Mutant of Accepts: the cap is not consulted.                            *)
AcceptsUncapped(index, t) == Len(t) >= MinPrefixTokens

(* The early return of insert(): the cap is tested once, and refuses notes *)
(* that need no new node too.                                              *)
Accepts(index, t) == Len(t) >= MinPrefixTokens /\ Cardinality(DOMAIN index) < MaxNodes

-------------------------------------------------------------------------------
(* Mutant of Insert: the split does not carry the workers over.            *)
InsertBareSplit(index, w, t, now) ==
  LET child == Blocking(index, t)
      mids == {Common(q, t) : q \in child}
      old(p) == IF p \in DOMAIN index THEN index[p].workers ELSE {}
  IN IF ~ Accepts(index, t) THEN index
     ELSE [p \in DOMAIN index \cup mids \cup {t} |->
             IF IsPrefix(p, t) THEN Node(old(p) \cup {w}, now)
             ELSE IF p \in child THEN [index[p] EXCEPT !.last = now]
             ELSE index[p]]

(* insert(): the child in the way, if there is one, is split where t       *)
(* leaves its edge, both halves keeping its workers; what is left of t is  *)
(* a new leaf; every node along t is touched.                              *)
Insert(index, w, t, now) ==
  LET child == Blocking(index, t)
      mids == {Common(q, t) : q \in child}
      old(p) == IF p \in DOMAIN index THEN index[p].workers
                ELSE IF p \in mids THEN UNION {index[q].workers : q \in child}
                ELSE {}
  IN IF ~ Accepts(index, t) THEN index
     ELSE [p \in DOMAIN index \cup mids \cup {t} |->
             IF IsPrefix(p, t) THEN Node(old(p) \cup {w}, now)
             ELSE IF p \in child THEN [index[p] EXCEPT !.last = now]
             ELSE index[p]]

(* Mutant of Holds: the whole of a partly matched edge is credited.        *)
HoldsWholeEdge(index, t) ==
  {[w |-> w, n |-> Len(p)] : p \in Along(index, t) \cup Blocking(index, t),
                             w \in UNION {index[q].workers : q \in DOMAIN index}}

(* What match_workers() records: for every node along t, and for the child *)
(* matched in part, the shared length for each of its workers.             *)
Holds(index, t) ==
  UNION {{[w |-> w, n |-> Len(Common(p, t))] : w \in index[p].workers} :
           p \in Along(index, t) \cup Blocking(index, t)}

(* match_worker(), 0 for a worker that is absent.                          *)
MatchWorker(index, w, t) ==
  Max({0} \cup {h.n : h \in {h \in Holds(index, t) : h.w = w}})

(* forget_worker(): the nodes stay.                                        *)
ForgetWorker(index, w) ==
  [p \in DOMAIN index |-> [index[p] EXCEPT !.workers = @ \ {w}]]

-------------------------------------------------------------------------------
(* Mutant of Expired: off by one.                                          *)
ExpiredAtTtl(node, now, ttl) == now - node.last >= ttl

(* The test of prune().                                                    *)
Expired(node, now, ttl) == now - node.last > ttl
Leaf(index, p) == p # Root /\ \A q \in DOMAIN index : ~ IsStrictPrefix(p, q)

(* One turn of the loop of prune(): every leaf that has expired is         *)
(* detached (which one goes first does not matter, and a parent becomes a  *)
(* leaf only when its last child has gone).                                *)
PruneLeaves(index, now, ttl) ==
  Restrict(index, {p \in DOMAIN index :
                     ~ (Leaf(index, p) /\ Expired(index[p], now, ttl))})

(* prune(): until there is no such leaf.  A turn shortens the longest      *)
(* path that still ends in one, so Depth turns are enough.                 *)
Depth(index) == Max({Len(p) : p \in DOMAIN index})
Prune(index, now, ttl) ==
  LET after[n \in 0 .. Depth(index)] ==
        IF n = 0 THEN index ELSE PruneLeaves(after[n - 1], now, ttl)
  IN after[Depth(index)]
===============================================================================
