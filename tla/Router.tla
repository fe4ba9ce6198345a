-------------------------------- MODULE Router --------------------------------
(***************************************************************************)
(* The router and its registry, crates/router/src/policy.rs and            *)
(* registry.rs, with the prefix index of RadixIndex.  A request is routed  *)
(* by the loads the registry last heard and by what the index believes the *)
(* prefill workers hold; both are out of date as soon as they are written. *)
(*                                                                         *)
(* Worker ids are numbers, decode ids above prefill ids.  A load keeps the *)
(* fields route() reads; headroom is decode_cap - decode_concurrency.      *)
(***************************************************************************)
EXTENDS RadixIndex

CONSTANTS
  PrefillIds, DecodeIds,   \* worker ids
  Prompts,                 \* prompts that arrive
  PrefillLoads,            \* loads a prefill worker reports: [queued, rate]
  DecodeLoads,             \* loads a decode worker reports: [headroom, util]
  StaleAfter,              \* stale_after_ms
  Ttl,                     \* ttl of prune()
  DefaultRate,             \* default_tokens_per_ms
  InitialCap,              \* initial_cap of a decode worker
  KvTransfer,              \* kv_transfer_ms
  TtftBudget,              \* ttft_budget_ms
  MaxTime,                 \* bound: the clock
  MaxNotes,                \* bound: prompts routed
  MaxReports               \* bound: changes of the registry

ASSUME RouterAssumption ==
  /\ PrefillIds \cup DecodeIds \subseteq Nat /\ IsFiniteSet(PrefillIds \cup DecodeIds)
  /\ Prompts \subseteq Seq(Nat)
  /\ PrefillLoads \subseteq [queued : Nat, rate : Nat]
  /\ DecodeLoads \subseteq [headroom : Int, util : Nat]
  /\ \A p \in PrefillIds, d \in DecodeIds : p < d
  /\ {StaleAfter, Ttl, KvTransfer, TtftBudget, MaxTime, MaxNotes, MaxReports} \subseteq Nat
  /\ DefaultRate \in Nat \ {0} /\ InitialCap \in Nat

VARIABLES
  now,
  reg,      \* registered workers: their last load and when it was reported
  index,    \* prefix_index
  told,     \* ghost: [w, t, at], the notes the index took and was not told to forget
  notes,    \* ghost: prompts routed so far
  reports   \* ghost: changes of the registry so far

routerVars == <<now, reg, index, told, notes, reports>>

Ids == PrefillIds \cup DecodeIds
LoadsOf(w) == IF w \in PrefillIds THEN PrefillLoads ELSE DecodeLoads

(* The load a deployment registers a worker with.                          *)
FirstLoad(w) ==
  IF w \in PrefillIds THEN [queued |-> 0, rate |-> DefaultRate]
  ELSE [headroom |-> InitialCap, util |-> 0]

NoDecision == [prefill |-> 0, decode |-> 0, hit |-> 0, late |-> FALSE]

-------------------------------------------------------------------------------
(* live(): the workers of a role whose report is not stale.  Nothing in    *)
(* the code ever clears healthy.                                           *)
Live(role) == {w \in role \cap DOMAIN reg : now - reg[w].at <= StaleAfter}

Rate(w) == IF reg[w].load.rate > 0 THEN reg[w].load.rate ELSE DefaultRate
Hit(w, p) == Min({MatchWorker(index, w, p), Len(p)})

(* Tokens ahead of the first token of p on w: cost is Work / Rate, and the *)
(* transfer every candidate pays.                                          *)
Work(w, p) == reg[w].load.queued + (Len(p) - Hit(w, p))

(* Mutant of Cheaper: work is compared, and not time.                      *)
CheaperWork(w, v, p) == Work(w, p) < Work(v, p)

(* Costs are compared exactly: the code's 1e-9 is for rounding.            *)
Cheaper(w, v, p) == Work(w, p) * Rate(v) < Work(v, p) * Rate(w)

(* `better': ties go to the lower id.                                      *)
Better(w, v, p) == Cheaper(w, v, p) \/ (~ Cheaper(v, w, p) /\ w < v)

PickPrefill(p) ==
  CHOOSE w \in Live(PrefillIds) : \A v \in Live(PrefillIds) \ {w} : Better(w, v, p)

DecodeHeadroom(w) == IF reg[w].load.headroom > 0 THEN reg[w].load.headroom ELSE 0

(* max_by: headroom, then the lower KV utilisation, then the lower id.     *)
MoreRoom(a, b) ==
  \/ DecodeHeadroom(a) > DecodeHeadroom(b)
  \/ /\ DecodeHeadroom(a) = DecodeHeadroom(b)
     /\ \/ reg[a].load.util < reg[b].load.util
        \/ reg[a].load.util = reg[b].load.util /\ a < b

PickDecode ==
  CHOOSE d \in Live(DecodeIds) : \A e \in Live(DecodeIds) \ {d} : MoreRoom(d, e)

(* predicted_ttft_ms > ttft_budget_ms.                                     *)
Late(w, p) == Work(w, p) + KvTransfer * Rate(w) > TtftBudget * Rate(w)

(* route(): NoDecision stands for either error.                            *)
RouteOf(p) ==
  IF Live(PrefillIds) = {} \/ Live(DecodeIds) = {} THEN NoDecision
  ELSE LET w == PickPrefill(p) IN
       [prefill |-> w, decode |-> PickDecode, hit |-> Hit(w, p), late |-> Late(w, p)]

-------------------------------------------------------------------------------
RouterTypeOK ==
  /\ now \in 0 .. MaxTime
  /\ DOMAIN reg \subseteq Ids
  /\ \A w \in DOMAIN reg : /\ reg[w].load \in LoadsOf(w) \cup {FirstLoad(w)}
                          /\ reg[w].at \in 0 .. now
  /\ Root \in DOMAIN index
  /\ \A p \in DOMAIN index : /\ index[p].workers \subseteq PrefillIds
                             /\ index[p].last \in 0 .. now

RouterInit ==
  /\ now = 0
  /\ reg = [w \in Ids |-> [load |-> FirstLoad(w), at |-> 0]]
  /\ index = Empty
  /\ told = {} /\ notes = 0 /\ reports = 0

(* Time passes.                                                            *)
Tick ==
  /\ now < MaxTime /\ now' = now + 1
  /\ UNCHANGED <<reg, index, told, notes, reports>>

Reported == reports < MaxReports /\ reports' = reports + 1

(* register() of a worker without an entry; of one that has an entry it is *)
(* what UpdateLoad does.  Nobody tells the index.                          *)
Register(w) ==
  /\ Reported
  /\ w \notin DOMAIN reg
  /\ \E l \in LoadsOf(w) :
       reg' = [v \in DOMAIN reg \cup {w} |->
                 IF v = w THEN [load |-> l, at |-> now] ELSE reg[v]]
  /\ UNCHANGED <<now, index, told, notes>>

(* deregister(): the index keeps what it believes of the worker.           *)
Deregister(w) ==
  /\ Reported
  /\ w \in DOMAIN reg
  /\ reg' = Restrict(reg, DOMAIN reg \ {w})
  /\ UNCHANGED <<now, index, told, notes>>

(* update_load(): a report of a worker that is not registered is dropped.  *)
UpdateLoad(w) ==
  /\ Reported
  /\ w \in DOMAIN reg
  /\ \E l \in LoadsOf(w) : reg' = [reg EXCEPT ![w] = [load |-> l, at |-> now]]
  /\ UNCHANGED <<now, index, told, notes>>

(* route(), then note_prefill() for the prefill worker that was chosen, as *)
(* the simulator does for every arrival it may reuse prefixes for.         *)
RouteAndNote(p) ==
  /\ notes < MaxNotes /\ notes' = notes + 1
  /\ LET d == RouteOf(p) IN
     IF d = NoDecision
       THEN UNCHANGED <<index, told>>
       ELSE /\ index' = Insert(index, d.prefill, p, now)
            /\ told' = IF ~ Accepts(index, p) THEN told
                       ELSE told \cup {[w |-> d.prefill, t |-> p, at |-> now]}
  /\ UNCHANGED <<now, reg, reports>>

(* forget_worker() and prune(): nothing in the repository calls them but   *)
(* tests, so they may come at any time.                                    *)
Forget(w) ==
  /\ index' = ForgetWorker(index, w)
  /\ told' = {n \in told : n.w # w}
  /\ UNCHANGED <<now, reg, notes, reports>>

PruneIndex ==
  /\ index' = Prune(index, now, Ttl)
  /\ UNCHANGED <<now, reg, told, notes, reports>>

(* Mutant of Clear: the nodes go, and the root with them.                  *)
ClearRoot ==
  /\ index' = Restrict(index, {}) /\ told' = {}
  /\ UNCHANGED <<now, reg, notes, reports>>

(* clear().                                                                *)
Clear ==
  /\ index' = Empty /\ told' = {}
  /\ UNCHANGED <<now, reg, notes, reports>>

RouterNext ==
  \/ Tick \/ PruneIndex \/ Clear
  \/ \E w \in Ids : Register(w) \/ Deregister(w) \/ UpdateLoad(w)
  \/ \E p \in Prompts : RouteAndNote(p)
  \/ \E w \in PrefillIds : Forget(w)

RouterSpec == RouterInit /\ [][RouterNext]_routerVars

-------------------------------------------------------------------------------
Strings == UNION {{SubSeq(p, 1, n) : n \in 0 .. Len(p)} : p \in Prompts}

(***************************************************************************)
(* The index is a radix tree: two paths part at a node, a node's workers   *)
(* hold its parent too, and a parent is at least as fresh as its children, *)
(* so that no leaf keeps a stale ancestor alive (radix.rs:78-212).         *)
(***************************************************************************)
TreeSound ==
  \A p, q \in DOMAIN index :
    /\ Common(p, q) \in DOMAIN index
    /\ IsPrefix(p, q) => /\ index[q].workers \subseteq index[p].workers
                         /\ index[q].last <= index[p].last

(***************************************************************************)
(* The index never credits a worker with more of a prompt than some note   *)
(* gave it, however often nodes were split and pruned since.               *)
(***************************************************************************)
NeverOverclaims ==
  \A w \in PrefillIds, s \in Strings :
    MatchWorker(index, w, s) <=
      Max({0} \cup {Len(Common(n.t, s)) : n \in {n \in told : n.w = w}})

(***************************************************************************)
(* And it credits it with everything a note younger than the ttl gave it:  *)
(* an insertion that splits an edge, or a sweep, loses nothing fresh.      *)
(***************************************************************************)
FreshIsKnown ==
  \A n \in {n \in told : now - n.at <= Ttl}, s \in Strings :
    MatchWorker(index, n.w, s) >= Len(Common(n.t, s))

(***************************************************************************)
(* The node count.  The cap is tested once at the door, and an insertion   *)
(* behind it may add the split and the leaf: one node past max_nodes, so   *)
(* the "hard cap" of radix.rs:160-161 is exceeded by one.                  *)
(***************************************************************************)
NodesBounded == Cardinality(DOMAIN index) <= MaxNodes + 1

(***************************************************************************)
(* A routed request goes to workers heard from within stale_after_ms, and  *)
(* no live prefill worker would have answered sooner by the router's own   *)
(* prediction, nor has a live decode worker more free slots.  It is called *)
(* late only if every live worker would be (policy.rs:78-139).             *)
(***************************************************************************)
RoutedWell ==
  \A p \in Prompts : \A d \in {RouteOf(p)} :
    LET fresh(ws) == {v \in ws \cap DOMAIN reg : now - reg[v].at <= StaleAfter}
        tokens(v) == reg[v].load.queued + Len(p) - MatchWorker(index, v, p)
        rate(v) == IF reg[v].load.rate = 0 THEN DefaultRate ELSE reg[v].load.rate
    IN d # NoDecision =>
         /\ d.prefill \in fresh(PrefillIds) /\ d.decode \in fresh(DecodeIds)
         /\ \A v \in fresh(PrefillIds) :
              /\ tokens(d.prefill) * rate(v) <= tokens(v) * rate(d.prefill)
              /\ d.late => tokens(v) > (TtftBudget - KvTransfer) * rate(v)
         /\ \A e \in fresh(DecodeIds) :
              reg[e].load.headroom > 0 =>
                reg[d.decode].load.headroom >= reg[e].load.headroom

(***************************************************************************)
(* The index is a radix tree that believes of every worker what it was     *)
(* told, no more and, while it is fresh, no less.                          *)
(***************************************************************************)
IndexFaithful == TreeSound /\ NeverOverclaims /\ FreshIsKnown

(***************************************************************************)
(* The index keeps its bound, but for one node.                            *)
(***************************************************************************)
IndexBounded == RouterTypeOK /\ NodesBounded
===============================================================================
