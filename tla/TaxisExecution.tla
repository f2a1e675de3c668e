--------------------------- MODULE TaxisExecution ---------------------------
(***************************************************************************)
(* From finality to executed state (fanos-taxis/consensus.rs: finalize,    *)
(* the reveal gossip, try_execute, note_deferrals, and the fresh block of  *)
(* maybe_propose).                                                         *)
(*                                                                         *)
(* Consensus is one growing chain (TaxisCell), which each honest validator *)
(* finalizes at its own pace.  Reveals travel by lossy, reordering gossip: *)
(* `gossip` is every reveal ever sent, and a Byzantine member's are there  *)
(* from the start.  A block may come from an honest proposer at the tip,   *)
(* or be any block a Byzantine one can make.                               *)
(*                                                                         *)
(* The ledger is the nonce discipline of state.rs: a transaction applies   *)
(* once, and not before the one its nonce follows.                         *)
(***************************************************************************)
EXTENDS RevealWindow

CONSTANTS Byzantine,    \* the members that may deviate
          Follows,      \* Follows[x]: the transaction with the nonce before x's, or None
          ByCommit,     \* Txs in the order of their commitments
          DeferralCap,  \* DEFERRAL_CAP
          MaxHeight,    \* bound: blocks explored
          LastSubmit,   \* bound: the chain length up to which clients submit
          ByzBlocks,    \* bound: the contents a Byzantine proposer chooses from
          ByzReveals    \* bound: the reveals Byzantine members gossip

Honest == Members \ Byzantine

Reveal == [tx : Txs, member : Members, share : Shares]
Block == [txs : Seq(Txs), reveals : Openings]

\* What executing a block leaves behind: when, to what, for whom, and with what effect.
Entry == [at : Nat, opened : SUBSET Txs, paid : SUBSET Members,
          applied : SUBSET Txs, deferred : SUBSET Txs, dropped : SUBSET Txs]

ASSUME ExecutionConstants ==
  /\ Byzantine \subseteq Members
  /\ IsFiniteSet(Txs) /\ None \notin Txs
  /\ Follows \in [Txs -> Txs \cup {None}]
  /\ ByCommit \in [1 .. Cardinality(Txs) -> Txs]
  /\ \A x \in Txs : \E i \in DOMAIN ByCommit : ByCommit[i] = x
  /\ DeferralCap \in Nat /\ MaxHeight \in Nat /\ LastSubmit \in Nat
  /\ ByzBlocks \subseteq Block
  /\ ByzReveals \subseteq [tx : Txs, member : Byzantine, share : Shares]

VARIABLES
  chain,    \* the agreed blocks
  next,     \* next[v]: chain.next_height
  pool,     \* pool[v]: `reveals`, the shares v has validated
  early,    \* early[v]: `pending_reveals`, for blocks v has not finalized
  mempool,  \* mempool[v]
  tries,    \* tries[v][x]: `deferred_since`, 0 where there is no entry
  log,      \* log[v]: one entry per block executed, in order
  gossip    \* every reveal sent

evars == <<chain, next, pool, early, mempool, tries, log, gossip>>

NoOpenings == [x \in Txs |-> [m \in Members |-> None]]

\* The blocks in exec_queue are those from Done(v) to next[v] - 1.
Done(v) == Len(log[v])

Queued(v, upto) == UNION {TxsAt(chain, h) : h \in Done(v) .. upto - 1}

-----------------------------------------------------------------------------
(* Execution.                                                               *)

\* The elements of s that are in S, in their order.
Filtered(s, S) ==
  LET kept[i \in 0 .. Len(s)] ==
        IF i = 0 THEN <<>>
        ELSE IF s[i] \in S THEN Append(kept[i - 1], s[i]) ELSE kept[i - 1]
  IN kept[Len(s)]

\* StateMachine::apply of one transaction: dropped, applied or deferred.
ApplyTx(s, x) ==
  IF x \in s.applied THEN s
  ELSE IF Follows[x] \in s.applied \cup {None}
       THEN [s EXCEPT !.applied = @ \cup {x}]
       ELSE [s EXCEPT !.deferred = @ \cup {x}]

\* StateMachine::apply_block: the opened transactions in block order, from the
\* transactions applied so far, to those applied after and those deferred.
ApplyBlock(applied, txs) ==
  LET ran[i \in 0 .. Len(txs)] ==
        IF i = 0 THEN [applied |-> applied, deferred |-> {}] ELSE ApplyTx(ran[i - 1], txs[i])
  IN ran[Len(txs)]

\* The give-up clocks of a deferred transaction x: a fresh one if there is room,
\* one retry older, or given up.
Ages(t, x) ==
  IF t[x] = 0 /\ Cardinality({y \in Txs : t[y] > 0}) >= DeferralCap THEN t
  ELSE IF t[x] >= Window THEN [t EXCEPT ![x] = 0]
  ELSE [t EXCEPT ![x] = @ + 1]

NoteDeferral_Forgets(a, x, deferred) ==
  [a EXCEPT !.tries = IF deferred THEN Ages(@, x) ELSE [@ EXCEPT ![x] = 0]]

\* note_deferrals for one opened transaction: what still has a clock is readmitted.
NoteDeferral(a, x, deferred) ==
  LET t == IF deferred THEN Ages(a.tries, x) ELSE [a.tries EXCEPT ![x] = 0]
  IN [tries |-> t, mempool |-> IF t[x] > 0 THEN a.mempool \cup {x} ELSE a.mempool]

\* note_deferrals for the opened transactions txs, of which `deferred` were.
NoteDeferrals(a, txs, deferred) ==
  LET noted[i \in 0 .. Len(txs)] ==
        IF i = 0 THEN a ELSE NoteDeferral(noted[i - 1], txs[i], txs[i] \in deferred)
  IN noted[Len(txs)]

\* The body of the loop of try_execute: block h of the chain c executes at height at to
\* the transactions of opens.
ExecuteBlock(c, s, h, at, opens) ==
  LET opened == Filtered(BlockAt(c, h).txs, opens)
      before == IF s.log = <<>> THEN {} ELSE s.log[Len(s.log)].applied
      ran == ApplyBlock(before, opened)
      after == NoteDeferrals([tries |-> s.tries, mempool |-> s.mempool], opened, ran.deferred)
  IN [log |-> Append(s.log, [at |-> at, opened |-> opens, paid |-> Paid(c, h, at),
                             applied |-> ran.applied, deferred |-> ran.deferred,
                             dropped |-> {x \in ran.deferred : after.tries[x] = 0}]),
      tries |-> after.tries, mempool |-> after.mempool]

\* One turn of that loop with next height n: block h, if it is at the front of the queue
\* and its execution height is decided.
Turn(c, s, n, h) ==
  LET at == ExecutionHeight(c, n, h)
  IN IF Len(s.log) = h /\ at # None THEN ExecuteBlock(c, s, h, at, Opened(c, h, at)) ELSE s

TryExecute_Gossip(v, n, mine) ==
  LET opens(h) == {x \in TxsAt(chain, h) :
                     Cardinality({m \in Members : pool[v][x][m] = "genuine"}) >= Threshold}
      turn(s, h) ==
        LET at == ExecutionHeight(chain, n, h)
        IN IF Len(s.log) = h /\ at # None THEN ExecuteBlock(chain, s, h, at, opens(h)) ELSE s
      run[h \in Done(v) .. n] ==
        IF h = Done(v) THEN [log |-> log[v], tries |-> tries[v], mempool |-> mine]
        ELSE turn(run[h - 1], h - 1)
  IN run[n]

\* try_execute by v, with next height n and mempool mine.
TryExecute(v, n, mine) ==
  LET run[h \in Done(v) .. n] ==
        IF h = Done(v) THEN [log |-> log[v], tries |-> tries[v], mempool |-> mine]
        ELSE Turn(chain, run[h - 1], n, h - 1)
  IN run[n]

-----------------------------------------------------------------------------
(* The handlers.                                                            *)

Submit(v, x) ==
  /\ x \notin mempool[v] /\ Len(chain) <= LastSubmit
  /\ mempool' = [mempool EXCEPT ![v] = @ \cup {x}]
  /\ UNCHANGED <<chain, next, pool, early, tries, log, gossip>>

\* The fresh block of maybe_propose.
FreshBlock(v) ==
  [txs |-> Filtered(ByCommit, mempool[v]),
   reveals |-> RevealsToCommit(chain, pool[v], Done(v), next[v])]

\* An honest block, and its commitment by the cell.
Propose(v) ==
  /\ next[v] = Len(chain) /\ Len(chain) < MaxHeight
  /\ chain' = Append(chain, FreshBlock(v))
  /\ UNCHANGED <<next, pool, early, mempool, tries, log, gossip>>

\* A Byzantine proposer's block, which some honest validator at the tip accepted:
\* it commits shares it has been sent, or none, or made up.
ByzantinePropose(b) ==
  /\ Len(chain) < MaxHeight
  /\ \E v \in Honest : next[v] = Len(chain)
  /\ \A x \in Txs, m \in Members : b.reveals[x][m] = "genuine" =>
       [tx |-> x, member |-> m, share |-> "genuine"] \in gossip
  /\ chain' = Append(chain, b)
  /\ UNCHANGED <<next, pool, early, mempool, tries, log, gossip>>

\* The pool with the reveals of rs that fill an empty slot.
Record(p, rs) ==
  [x \in Txs |-> [m \in Members |->
     IF p[x][m] = None /\ \E r \in rs : r.tx = x /\ r.member = m
     THEN (CHOOSE r \in rs : r.tx = x /\ r.member = m).share ELSE p[x][m]]]

Drained_None(v, included) == {}

\* drain_pending_reveals: the early reveals a block of these transactions releases.
Drained(v, included) == {r \in early[v] : r.tx \in included}

\* finalize: reveal for this block and the queued ones, drain the early reveals,
\* empty the mempool of the block, execute what is decided.
Finalize(v) ==
  /\ next[v] < Len(chain)
  /\ LET n == next[v] + 1
         included == TxsAt(chain, next[v])
         mine == {[tx |-> x, member |-> v, share |-> "genuine"] : x \in Queued(v, n)}
         drained == Drained(v, included)
         ran == TryExecute(v, n, mempool[v] \ included)
     IN /\ next' = [next EXCEPT ![v] = n]
        /\ gossip' = gossip \cup mine
        /\ pool' = [pool EXCEPT ![v] = Record(Record(@, mine), drained)]
        /\ early' = [early EXCEPT ![v] = @ \ drained]
        /\ log' = [log EXCEPT ![v] = ran.log]
        /\ tries' = [tries EXCEPT ![v] = ran.tries]
        /\ mempool' = [mempool EXCEPT ![v] = ran.mempool]
  /\ UNCHANGED chain

\* on_reveal: into the pool if the transaction awaits execution, else into the
\* early buffer; first writer wins in both.  The try_execute that follows reads
\* only the chain, so it finds nothing that finalize left.
OnReveal(v, r) ==
  /\ r \in gossip
  /\ IF r.tx \in Queued(v, next[v])
     THEN /\ pool[v][r.tx][r.member] = None
          /\ pool' = [pool EXCEPT ![v] = Record(@, {r})]
          /\ UNCHANGED early
     ELSE /\ ~ \E e \in early[v] : e.tx = r.tx /\ e.member = r.member
          /\ early' = [early EXCEPT ![v] = @ \cup {r}]
          /\ UNCHANGED pool
  /\ UNCHANGED <<chain, next, mempool, tries, log, gossip>>

EInit ==
  /\ chain = <<>>
  /\ next = [v \in Honest |-> 0]
  /\ pool = [v \in Honest |-> NoOpenings]
  /\ early = [v \in Honest |-> {}]
  /\ mempool = [v \in Honest |-> {}]
  /\ tries = [v \in Honest |-> [x \in Txs |-> 0]]
  /\ log = [v \in Honest |-> <<>>]
  /\ gossip = ByzReveals

ENext ==
  \/ Byzantine # {} /\ \E b \in ByzBlocks : ByzantinePropose(b)
  \/ \E v \in Honest :
       \/ Propose(v) \/ Finalize(v)
       \/ \E x \in Txs : Submit(v, x)
       \/ \E r \in Reveal : OnReveal(v, r)

ESpec == EInit /\ [][ENext]_evars

-----------------------------------------------------------------------------
ETypeOK ==
  /\ chain \in Seq(Block)
  /\ next \in [Honest -> 0 .. Len(chain)]
  /\ pool \in [Honest -> Openings]
  /\ early \in [Honest -> SUBSET Reveal]
  /\ \A v \in Honest : Done(v) <= next[v]
  /\ mempool \in [Honest -> SUBSET Txs]
  /\ tries \in [Honest -> [Txs -> 0 .. Window]]
  /\ log \in [Honest -> Seq(Entry)]
  /\ gossip \subseteq Reveal

\* execution_height, "a pure function of the chain": whatever reveals reached them
\* and however far each has run, two validators execute a block at the same height,
\* to the same transactions, rewards and state.
ExecutedAlike ==
  \A v, w \in Honest : \A k \in DOMAIN log[v] \cap DOMAIN log[w] : log[v][k] = log[w][k]

\* execution_height's window: no finalized block waits for more than Window later
\* ones, even with every opening withheld.
ExecutionKeepsUp == \A v \in Honest : next[v] - Done(v) <= Window

\* A reveal that overtook its block is not stranded: none is left in the early buffer
\* for a block this validator has finalized and not yet executed.
NoRevealStranded ==
  \A v \in Honest : \A r \in early[v] : r.tx \notin Queued(v, next[v])

\* finalize drops included transactions "keyed on inclusion, not outcome", so execution
\* must bring back what it defers: a transaction deferred and not given up is still to
\* come, in the mempool or in a later block.
DeferredNotLost ==
  \A v \in Honest : \A k \in DOMAIN log[v] : \A x \in log[v][k].deferred \ log[v][k].dropped :
    \/ x \in mempool[v]
    \/ \E h \in k .. next[v] - 1 : x \in TxsAt(chain, h)

-----------------------------------------------------------------------------
(* Claims of the source that its code does not keep.                        *)

\* reveals_to_commit, "the affected blocks simply wait for a proposer that does": the
\* block of a proposer that holds enough shares of a waiting transaction opens it.
HeldOpeningsOpen ==
  \A v \in Honest : next[v] = Len(chain) =>
    \A h \in Done(v) .. next[v] - 1 : \A x \in TxsAt(chain, h) :
      Cardinality({m \in Members : pool[v][x][m] = "genuine"}) >= Threshold
        => Opens(Append(chain, FreshBlock(v)), h, next[v], x)

\* "a finalizer that never released its sealing opening is not paid": whoever is paid
\* for a block with transactions has opened one of them.
PaidHaveOpened ==
  \A v \in Honest : \A k \in DOMAIN log[v] : \A m \in log[v][k].paid :
    \/ TxsAt(chain, k - 1) = {}
    \/ \E x \in TxsAt(chain, k - 1) :
         OpeningsIn(chain, k - 1, log[v][k].at, x, m) # None

\* deferred_since, "each still-premature transaction": a give-up clock belongs to a
\* transaction the validator still has before it.
ClocksAreLive ==
  \A v \in Honest, x \in Txs :
    tries[v][x] > 0 => x \in mempool[v] \/ x \in Queued(v, next[v])
=============================================================================
