---------------------------- MODULE DromosLedger ----------------------------
(***************************************************************************)
(* The hybrid ledger that the consensus cell executes: transparent         *)
(* balances, validator stake, hash time-locked contracts, storage deals    *)
(* and names (fanos-dromos, with the contract of fanos-hermes and the deal *)
(* of fanos-thesauros).  One action is one block, as `try_execute` runs    *)
(* it: begin_block with its sweeps, the reward, then the transactions in   *)
(* the waves of the parallel scheduler.                                    *)
(*                                                                         *)
(* Escrow sits in keyless accounts shared by all contracts of a kind, so   *)
(* what an account holds and what the contracts say it owes are two        *)
(* separate records, and every operation has to move both.                 *)
(*                                                                         *)
(* Only well-signed transactions are submitted: a bad signature, preimage  *)
(* or proof is refused before anything changes.                            *)
(***************************************************************************)
EXTENDS Integers, FiniteSets, Sequences, FiniteSetsExt, Functions

CONSTANTS
    Users,          \* accounts with a key
    Validators,     \* the users that finalize blocks
    Slots,          \* voting slots in which a user may be seen to equivocate
    Names,
    AuditPeriod,    \* AUDIT_PERIOD
    Reward,         \* reward_per_block
    NamePrice,      \* price of a name for one period
    Genesis,        \* the initial balance of each user
    Menu(_),        \* the transactions a ledger's users may submit next
    MaxBlock,       \* transactions per block
    MaxHeight       \* bound on the length of the chain

STAKE_SINK == "stake sink"
STORAGE_ESCROW == "storage escrow"
HTLC_ESCROW == "htlc escrow"
TREASURY == "treasury"
Sinks == {STAKE_SINK, STORAGE_ESCROW, HTLC_ESCROW, TREASURY}
Accounts == Users \cup Sinks

ASSUME LedgerConstants ==
    /\ IsFiniteSet(Users) /\ Users \cap Sinks = {}
    /\ Validators \subseteq Users
    /\ AuditPeriod \in Nat \ {0}
    /\ Reward \in Nat
    /\ NamePrice \in Nat
    /\ Genesis \in [Users -> Nat]
    /\ MaxBlock \in Nat
    /\ MaxHeight \in Nat

VARIABLE
    ledger          \* the HybridLedger, a record of its sub-ledgers

vars == ledger

Empty == [i \in {} |-> 0]

\* BTreeMap::insert.
Insert(f, key, value) == [i \in DOMAIN f \cup {key} |-> IF i = key THEN value ELSE f[i]]

Init ==
    ledger = [balance |-> [a \in Accounts |->
                              IF a \in Users THEN Genesis[a] ELSE 0],
              nonce   |-> [u \in Users |-> 0],
              bonded  |-> [u \in Users |-> 0],
              slashed |-> {},
              deals   |-> Empty,
              htlcs   |-> Empty,
              names   |-> Empty,
              height  |-> 0]

-----------------------------------------------------------------------------
(* Tokens.  A signed transfer is [from, to, amount, nonce].                *)

\* Mutant of Moved: both balances are read before either is written.
Moved_Stale(l, from, to, amount) ==
    IF l.balance[from] < amount THEN l
    ELSE [l EXCEPT !.balance[from] = l.balance[from] - amount, !.balance[to] = l.balance[to] + amount]

\* move_system; unchanged when the account is short.
Moved(l, from, to, amount) ==
    IF l.balance[from] < amount THEN l
    ELSE [l EXCEPT !.balance[from] = @ - amount, !.balance[to] = @ + amount]

NextNonce(l, u) == [l EXCEPT !.nonce[u] = @ + 1]

IsPremature(l, pay) == pay.nonce > l.nonce[pay.from]

\* What TokenLedger::apply accepts.
Payable(l, pay) ==
    /\ pay.nonce = l.nonce[pay.from]
    /\ l.balance[pay.from] >= pay.amount

Paid(l, pay) == NextNonce(Moved(l, pay.from, pay.to, pay.amount), pay.from)

Applied(l) == [ledger |-> l, outcome |-> "applied"]
Rejected(l) == [ledger |-> l, outcome |-> "rejected"]
Deferred(l) == [ledger |-> l, outcome |-> "deferred"]

\* An operation that is sound in itself, paid for by a transfer: deferred while
\* the nonce is ahead, refused if the transfer is, and otherwise done.
Funded(l, pay, done) ==
    CASE IsPremature(l, pay) -> Deferred(l)
      [] Payable(l, pay)     -> Applied(done)
      [] OTHER               -> Rejected(l)

Transfer(l, tx) == Funded(l, tx.pay, Paid(l, tx.pay))

-----------------------------------------------------------------------------
(* Stake.                                                                  *)

\* apply_stake: the stake follows the payment into the sink, and back out of it.
Bond(l, tx) ==
    IF tx.pay.to = STAKE_SINK /\ Payable(l, tx.pay)
    THEN Applied([Paid(l, tx.pay) EXCEPT !.bonded[tx.pay.from] = @ + tx.pay.amount])
    ELSE Rejected(l)

\* Mutant of Unbond: the bonded amount is not asked for.
Unbond_Unchecked(l, tx) ==
    LET u == tx.pay.from
    IN  IF tx.pay.to = STAKE_SINK /\ tx.pay.nonce = l.nonce[u]
        THEN Applied([Moved(NextNonce(l, u), STAKE_SINK, u, tx.pay.amount)
                        EXCEPT !.bonded[u] = @ - tx.pay.amount])
        ELSE Rejected(l)

Unbond(l, tx) ==
    LET u == tx.pay.from
    IN  IF /\ tx.pay.to = STAKE_SINK
           /\ l.bonded[u] >= tx.pay.amount
           /\ tx.pay.nonce = l.nonce[u]
        THEN Applied([Moved(NextNonce(l, u), STAKE_SINK, u, tx.pay.amount)
                        EXCEPT !.bonded[u] = @ - tx.pay.amount])
        ELSE Rejected(l)

\* apply_slash: all that is bonded goes to the treasury, once for each slot.
Slash(l, tx) ==
    IF <<tx.who, tx.slot>> \in l.slashed THEN Rejected(l)
    ELSE Applied([Moved(l, STAKE_SINK, TREASURY, l.bonded[tx.who])
                    EXCEPT !.bonded[tx.who] = 0,
                           !.slashed = @ \cup {<<tx.who, tx.slot>>}])

-----------------------------------------------------------------------------
(* Hash time-locked contracts.  The id commits to the terms and to the     *)
(* nonce of the payment, so it is that pair.                               *)

LockHtlc(l, tx) ==
    LET id == <<tx.terms, tx.pay.nonce>>
    IN  IF \/ tx.terms.amount = 0
           \/ tx.pay.from # tx.terms.sender
           \/ tx.pay.to # HTLC_ESCROW
           \/ tx.pay.amount # tx.terms.amount
           \/ id \in DOMAIN l.htlcs
        THEN Rejected(l)
        ELSE Funded(l, tx.pay, [Paid(l, tx.pay) EXCEPT !.htlcs = Insert(@, id, "locked")])

\* A contract pays once, to the recipient before the timeout and to the sender from it
\* on (Htlc::claim, Htlc::refund).
Claimable(l, id) == l.htlcs[id] = "locked" /\ l.height < id[1].timeout
Reclaimable(l, id) == l.htlcs[id] = "locked" /\ l.height >= id[1].timeout

ClaimHtlc(l, tx) ==
    LET terms == tx.id[1]
    IN  IF tx.id \notin DOMAIN l.htlcs THEN Deferred(l)
        ELSE IF Claimable(l, tx.id)
             THEN Applied([Moved(l, HTLC_ESCROW, terms.recipient, terms.amount)
                             EXCEPT !.htlcs[tx.id] = "claimed"])
             ELSE Rejected(l)

RefundHtlc(l, tx) ==
    LET terms == tx.id[1]
    IN  IF tx.id \notin DOMAIN l.htlcs THEN Deferred(l)
        ELSE IF Reclaimable(l, tx.id)
             THEN Applied([Moved(l, HTLC_ESCROW, terms.sender, terms.amount)
                             EXCEPT !.htlcs[tx.id] = "refunded"])
             ELSE Rejected(l)

-----------------------------------------------------------------------------
(* Storage deals.  On the ledger every settlement is a passing one, so     *)
(* `epoch` equals `passed`; `since` is last_height, or open_height before  *)
(* the first settlement, which is how the code reads it everywhere.        *)

DealOpenedAt(height) ==
    [open |-> height, since |-> height, passed |-> 0, released |-> 0, state |-> "active"]

OpenDeal(l, tx) ==
    LET id == <<tx.params, tx.pay.nonce>>
    IN  IF \/ tx.params.duration = 0
           \/ tx.params.price = 0
           \/ tx.pay.from # tx.params.consumer
           \/ tx.pay.to # STORAGE_ESCROW
           \/ tx.pay.amount # tx.params.price
           \/ id \in DOMAIN l.deals
        THEN Rejected(l)
        ELSE Funded(l, tx.pay,
                    [Paid(l, tx.pay) EXCEPT !.deals = Insert(@, id, DealOpenedAt(l.height))])

OwedAfterPasses(params, passed) == (params.price * passed) \div params.duration

Refundable(id, deal) == id[1].price - deal.released

\* Mutant of MaySettle: the cadence counts from the opening only.
MaySettle_Replayed(deal, height) == height >= deal.open + AuditPeriod

MaySettle(deal, height) == height >= deal.since + AuditPeriod

\* settle_epoch, of an audit that passes.
Settled(id, deal, height) ==
    LET passed == deal.passed + 1
    IN  [deal EXCEPT !.since = height,
                     !.passed = passed,
                     !.released = OwedAfterPasses(id[1], passed),
                     !.state = IF passed >= id[1].duration THEN "completed" ELSE @]

\* prove_deal: pays the difference to what is owed by now.
ProveDeal(l, tx) ==
    IF tx.id \notin DOMAIN l.deals THEN Deferred(l)
    ELSE LET deal    == l.deals[tx.id]
             settled == Settled(tx.id, deal, l.height)
         IN  IF deal.state = "active" /\ MaySettle(deal, l.height)
             THEN Applied([Moved(l, STORAGE_ESCROW, tx.id[1].provider,
                                 settled.released - deal.released)
                             EXCEPT !.deals[tx.id] = settled])
             ELSE Rejected(l)

\* Mutant of Ended: the whole price is refunded.
Ended_KeepingReleased(l, id, state) ==
    [Moved(l, STORAGE_ESCROW, id[1].consumer, id[1].price)
       EXCEPT !.deals[id] = [l.deals[id] EXCEPT !.released = id[1].price, !.state = state]]

\* A deal that ends returns what it has not released to the consumer.
Ended(l, id, state) ==
    [Moved(l, STORAGE_ESCROW, id[1].consumer, Refundable(id, l.deals[id]))
       EXCEPT !.deals[id] = [l.deals[id] EXCEPT !.released = id[1].price, !.state = state]]

\* close_deal asks only for the consumer's signature, not for an active deal: one
\* that has ended has nothing left to refund.
CloseDeal(l, tx) ==
    IF tx.id \notin DOMAIN l.deals THEN Deferred(l)
    ELSE Applied(Ended(l, tx.id, "closed"))

IsAbandoned(id, deal, height) ==
    Min({(height - deal.since) \div AuditPeriod, id[1].duration}) >= id[1].lambda

HasLapsed(id, deal, height) ==
    height >= deal.open + id[1].duration * AuditPeriod

-----------------------------------------------------------------------------
(* Names.  A name is held up to and including its expiry.                  *)

\* Mutant of Held: a name is free at its expiry.
Held_NotAtExpiry(l, name) == name \in DOMAIN l.names /\ l.height < l.names[name].expiry

Held(l, name) == name \in DOMAIN l.names /\ l.height <= l.names[name].expiry

\* NameRegistry::apply, its `plan` before the payment.
Name(l, tx) ==
    LET actor   == tx.pay.from
        owned   == Held(l, tx.name) /\ l.names[tx.name].owner = actor
        enough  == tx.pay.amount >= NamePrice * Max({tx.duration, 1})
        planned == /\ tx.pay.to = TREASURY
                   /\ \/ tx.op = "register" /\ ~Held(l, tx.name) /\ enough
                      \/ tx.op = "renew" /\ owned /\ enough
                      \/ tx.op \in {"update", "transfer"} /\ owned
        record  == CASE tx.op = "register" ->
                          [owner |-> actor, expiry |-> l.height + tx.duration]
                     [] tx.op = "renew" ->
                          [l.names[tx.name] EXCEPT !.expiry = Max({@, l.height}) + tx.duration]
                     [] tx.op = "update" -> l.names[tx.name]
                     [] tx.op = "transfer" -> [l.names[tx.name] EXCEPT !.owner = tx.to]
    IN  IF planned
        THEN Funded(l, tx.pay, [Paid(l, tx.pay) EXCEPT !.names = Insert(@, tx.name, record)])
        ELSE Rejected(l)

-----------------------------------------------------------------------------
(* One transaction, and the state it declares to touch.                    *)

HtlcTerms(payees) == [sender : Users, recipient : payees, amount : Nat, timeout : Nat]
DealParams(payees) ==
    [consumer : Users, provider : payees, price : Nat, duration : Nat, lambda : Nat]

PaymentTo(payees) == [from : Users, to : payees, amount : Nat, nonce : Nat]
Payment == PaymentTo(Accounts)

\* The transactions in which the account a user names to be paid is one of payees.
Transaction(payees) ==
    [kind : {"transfer"}, pay : PaymentTo(payees)]
      \cup [kind : {"bond", "unbond"}, pay : Payment]
      \cup [kind : {"slash"}, who : Users, slot : Slots]
      \cup [kind : {"lock"}, terms : HtlcTerms(payees), pay : Payment]
      \cup [kind : {"claim", "refund"}, id : HtlcTerms(payees) \X Nat]
      \cup [kind : {"open"}, params : DealParams(payees), pay : Payment]
      \cup [kind : {"prove", "close"}, id : DealParams(payees) \X Nat]
      \cup [kind : {"name"}, op : {"register", "renew", "update", "transfer"}, name : Names,
            duration : Nat, to : Accounts, pay : Payment]

Apply(l, tx) ==
    CASE tx.kind = "transfer" -> Transfer(l, tx)
      [] tx.kind = "bond"     -> Bond(l, tx)
      [] tx.kind = "unbond"   -> Unbond(l, tx)
      [] tx.kind = "slash"    -> Slash(l, tx)
      [] tx.kind = "lock"     -> LockHtlc(l, tx)
      [] tx.kind = "claim"    -> ClaimHtlc(l, tx)
      [] tx.kind = "refund"   -> RefundHtlc(l, tx)
      [] tx.kind = "open"     -> OpenDeal(l, tx)
      [] tx.kind = "prove"    -> ProveDeal(l, tx)
      [] tx.kind = "close"    -> CloseDeal(l, tx)
      [] tx.kind = "name"     -> Name(l, tx)

\* The parties of a contract are known from the state or from the transaction that
\* opens it earlier in the block.
Opens(tx, id) ==
    \/ tx.kind = "lock" /\ id = <<tx.terms, tx.pay.nonce>>
    \/ tx.kind = "open" /\ id = <<tx.params, tx.pay.nonce>>

IsOpening(tx) == tx.kind \in {"lock", "open"}

\* Mutant of IsKnown: the contracts opened in this block are not looked at.
IsKnown_OnlyCommitted(l, txs, i) ==
    txs[i].id \in DOMAIN l.deals \cup DOMAIN l.htlcs

IsKnown(l, txs, i) ==
    \/ txs[i].id \in DOMAIN l.deals \cup DOMAIN l.htlcs
    \/ \E j \in 1 .. i - 1 : Opens(txs[j], txs[i].id)

\* access_of: the accounts, and the entries of the other sub-ledgers, that
\* transaction i may write.  None of these kinds declares a read.
Touches(l, txs, i) ==
    LET tx == txs[i]
        party(p) == IF IsKnown(l, txs, i) THEN {<<"balance", p>>} ELSE {}
    IN  CASE tx.kind = "transfer" -> {<<"balance", tx.pay.from>>, <<"balance", tx.pay.to>>}
          [] tx.kind \in {"bond", "unbond"} ->
                {<<"balance", tx.pay.from>>, <<"balance", STAKE_SINK>>}
          [] tx.kind = "slash" ->
                {<<"balance", tx.who>>, <<"balance", STAKE_SINK>>, <<"balance", TREASURY>>}
          [] tx.kind = "lock" ->
                {<<"balance", tx.terms.sender>>, <<"balance", HTLC_ESCROW>>,
                 <<"htlc", <<tx.terms, tx.pay.nonce>>>>}
          [] tx.kind = "claim" ->
                {<<"balance", HTLC_ESCROW>>, <<"htlc", tx.id>>} \cup party(tx.id[1].recipient)
          [] tx.kind = "refund" ->
                {<<"balance", HTLC_ESCROW>>, <<"htlc", tx.id>>} \cup party(tx.id[1].sender)
          [] tx.kind = "open" ->
                {<<"balance", tx.params.consumer>>, <<"balance", STORAGE_ESCROW>>,
                 <<"deal", <<tx.params, tx.pay.nonce>>>>}
          [] tx.kind = "prove" ->
                {<<"balance", STORAGE_ESCROW>>, <<"deal", tx.id>>} \cup party(tx.id[1].provider)
          [] tx.kind = "close" ->
                {<<"balance", STORAGE_ESCROW>>, <<"deal", tx.id>>} \cup party(tx.id[1].consumer)
          [] tx.kind = "name" ->
                {<<"balance", tx.pay.from>>, <<"balance", TREASURY>>, <<"name", tx.name>>}

\* schedule: one past the last wave of an earlier transaction it conflicts with.
WaveOf(l, txs) ==
    LET access == [i \in 1 .. Len(txs) |-> Touches(l, txs, i)]
        wave[i \in 1 .. Len(txs)] ==
            Max({0} \cup {wave[j] + 1 : j \in {k \in 1 .. i - 1 : access[k] \cap access[i] # {}}})
    IN  wave

\* Applying transaction i to what is done, if it is its turn.
Commit(done, txs, i, isTurn) ==
    LET applied == Apply(done.ledger, txs[i])
    IN  IF isTurn
        THEN [ledger |-> applied.ledger, outcomes |-> [done.outcomes EXCEPT ![i] = applied.outcome]]
        ELSE done

\* The inner loop of execute_block: the transactions of the wave w, in the given order.
CommitWave(done, txs, wave, w, order) ==
    LET after[k \in 0 .. Len(txs)] ==
            IF k = 0 THEN done ELSE Commit(after[k - 1], txs, order[k], wave[order[k]] = w)
    IN  after[Len(txs)]

Untouched(l, txs) == [ledger |-> l, outcomes |-> [i \in DOMAIN txs |-> "malformed"]]

\* Its outer loop, wave by wave.
CommitWaves(l, txs, wave, order) ==
    LET after[w \in 0 .. Len(txs)] ==
            IF w = 0 THEN Untouched(l, txs) ELSE CommitWave(after[w - 1], txs, wave, w - 1, order)
    IN  after[Len(txs)]

InIndexOrder(txs) == [i \in 1 .. Len(txs) |-> i]

\* execute_block: each wave in index order.
ExecuteBlock(l, txs) == CommitWaves(l, txs, WaveOf(l, txs), InIndexOrder(txs))

-----------------------------------------------------------------------------
(* A block.                                                                *)

\* finalize_lapsed_deals: what ends is refunded, and what has ended is dropped.
FinalizeLapsedDeals(l) ==
    LET ending == {id \in DOMAIN l.deals :
                     /\ l.deals[id].state = "active"
                     /\ \/ IsAbandoned(id, l.deals[id], l.height)
                        \/ HasLapsed(id, l.deals[id], l.height)}
        refunded == FoldSet(LAMBDA id, acc : Ended(acc, id, "completed"), l, ending)
    IN  [refunded EXCEPT !.deals = RestrictValues(@, LAMBDA d : d.state = "active")]

BeginBlock(l) ==
    [FinalizeLapsedDeals([l EXCEPT !.height = @ + 1])
       EXCEPT !.htlcs = RestrictValues(@, LAMBDA s : s = "locked")]

\* apply_block_reward: the treasury pays the parent's finalizers in equal shares.
ApplyBlockReward(l, finalizers) ==
    LET pot   == Min({Reward, l.balance[TREASURY]})
        share == IF finalizers = {} THEN 0 ELSE pot \div Cardinality(finalizers)
    IN  FoldSet(LAMBDA v, acc : Moved(acc, TREASURY, v, share), l, finalizers)

Begun(l, finalizers) == ApplyBlockReward(BeginBlock(l), finalizers)

Blocks(l) == UNION {[1 .. k -> Menu(l)] : k \in 0 .. MaxBlock}

Execute(finalizers, txs) ==
    /\ ledger.height < MaxHeight
    /\ ledger' = ExecuteBlock(Begun(ledger, finalizers), txs).ledger

Next ==
    \E finalizers \in SUBSET Validators : \E txs \in Blocks(Begun(ledger, finalizers)) :
        Execute(finalizers, txs)

Spec == Init /\ [][Next]_vars

-----------------------------------------------------------------------------
(* Properties.                                                             *)

\* What the escrow accounts owe for each contract.
OwedForDeals(l) ==
    [id \in DOMAIN l.deals |-> IF l.deals[id].state = "active" THEN Refundable(id, l.deals[id]) ELSE 0]
OwedForHtlcs(l) ==
    [id \in DOMAIN l.htlcs |-> IF l.htlcs[id] = "locked" THEN id[1].amount ELSE 0]

\* No balance and no bond goes below zero, every contract is in one of its states, and
\* what is submitted is a transaction.
TypeOK ==
    /\ ledger.balance \in [Accounts -> Nat]
    /\ ledger.nonce \in [Users -> Nat]
    /\ ledger.bonded \in [Users -> Nat]
    /\ ledger.slashed \subseteq Users \X Slots
    /\ \A id \in DOMAIN ledger.deals :
          ledger.deals[id].state \in {"active", "completed", "closed"}
    /\ \A id \in DOMAIN ledger.htlcs : ledger.htlcs[id] \in {"locked", "claimed", "refunded"}
    /\ DOMAIN ledger.names \subseteq Names
    /\ ledger.height \in 0 .. MaxHeight
    /\ Menu(ledger) \subseteq Transaction(Accounts)

\* `conservation`: each keyless account holds exactly what its sub-ledger says it
\* owes, in every order of bonds, slashes, proofs, closings, sweeps and refunds.
Conservation ==
    /\ ledger.balance[STAKE_SINK] = SumFunction(ledger.bonded)
    /\ ledger.balance[STORAGE_ESCROW] = SumFunction(OwedForDeals(ledger))
    /\ ledger.balance[HTLC_ESCROW] = SumFunction(OwedForHtlcs(ledger))

\* No operation makes or destroys tokens, a payment to oneself included (move_system,
\* apply_block_reward).
SupplyIsFixed == SumFunction(ledger.balance) = SumFunction(Genesis)

\* The audit cadence of settle_epoch and the sweep: after k passing audits k periods have gone by and the provider
\* has k slices of the price, however its proofs were timed or repeated; and no
\* active deal outlives its term or its provider's silence.
DealKeepsToSchedule ==
    \A id \in DOMAIN ledger.deals :
        LET deal == ledger.deals[id]
        IN  deal.state = "active" =>
              /\ deal.open + deal.passed * AuditPeriod <= deal.since
              /\ deal.since <= ledger.height
              /\ deal.released = OwedAfterPasses(id[1], deal.passed)
              /\ ledger.height < deal.open + id[1].duration * AuditPeriod
              /\ \/ ledger.height < deal.since + id[1].lambda * AuditPeriod
                 \/ id[1].lambda = 0 /\ deal.open = ledger.height

\* execute_block gives the outcomes and the state of running the block in its own
\* order, in whichever order the transactions of a wave are run.  Blocks that open a
\* contract first are one longer, so that two others can follow in one wave.
ScheduleIsSerial ==
    \A txs \in Blocks(ledger) \cup {<<tx>> \o b : tx \in {t \in Menu(ledger) : IsOpening(t)},
                                                   b \in Blocks(ledger)} :
        LET wave == WaveOf(ledger, txs)
            inOneWave == [i \in 1 .. Len(txs) |-> 0]
            backwards == [i \in 1 .. Len(txs) |-> Len(txs) + 1 - i]
            serially == CommitWave(Untouched(ledger, txs), txs, inOneWave, 0, InIndexOrder(txs))
        IN  \A order \in {InIndexOrder(txs), backwards} :
                CommitWaves(ledger, txs, wave, order) = serially

\* Whoever holds a name at the height of a block keeps it, and keeps it for as long,
\* unless they sign something in that block (plan and owned of the name registry).
NameIsKept ==
    [][\A name \in DOMAIN ledger.names :
          LET record == ledger.names[name]
          IN  /\ ledger'.height <= record.expiry
              /\ ledger'.nonce[record.owner] = ledger.nonce[record.owner]
              => ledger'.names[name] = record]_vars

-----------------------------------------------------------------------------
(* Statements of the code's comments that do not hold of it.               *)

\* A provider that gave every proof the cadence allowed is paid the whole price: no
\* block's sweep refunds a part of a deal for which no proof is missing (the comments on
\* owed_after_passes and settle_epoch).
ProvenIsPaid ==
    [][\A id \in DOMAIN ledger.deals :
          LET deal == ledger.deals[id]
          IN  /\ deal.state = "active"
              /\ IsAbandoned(id, deal, ledger'.height) \/ HasLapsed(id, deal, ledger'.height)
              /\ deal.passed = (ledger.height - deal.open) \div AuditPeriod
              => Refundable(id, deal) = 0]_vars

\* A transaction that only lacks its sender's earlier ones is deferred, not lost (the
\* comment on NonceAhead).
PrematureIsDeferred ==
    \A tx \in {t \in Menu(ledger) : "pay" \in DOMAIN t} :
        /\ IsPremature(ledger, tx.pay)
        /\ Apply([ledger EXCEPT !.nonce[tx.pay.from] = tx.pay.nonce], tx).outcome = "applied"
        => Apply(ledger, tx).outcome = "deferred"
=============================================================================
