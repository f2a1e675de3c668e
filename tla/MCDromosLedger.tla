--------------------------- MODULE MCDromosLedger ---------------------------
(* A consumer and a provider, with one kind of contract, deal and name.     *)
EXTENDS DromosLedger, TLC

CONSTANTS c, p, n, MaxNonce

MCGenesis == (c :> 3) @@ (p :> 1)

Terms == [sender |-> c, recipient |-> p, amount |-> 1, timeout |-> 3]
Params == [consumer |-> c, provider |-> p, price |-> 2, duration |-> 3, lambda |-> 2]

Pay(l, from, to, amount) == [from |-> from, to |-> to, amount |-> amount, nonce |-> l.nonce[from]]
Ahead(pay) == [pay EXCEPT !.nonce = @ + 1]

MCMenu(l) ==
    LET transfers == {Pay(l, p, c, 1), Pay(l, p, p, 1), Ahead(Pay(l, c, p, 1))}
        stake == {Pay(l, p, STAKE_SINK, 1)}
        all ==
          {[kind |-> "transfer", pay |-> t] : t \in transfers}
            \cup {[kind |-> k, pay |-> t] : k \in {"bond", "unbond"}, t \in stake}
            \cup {[kind |-> "slash", who |-> p, slot |-> s] : s \in Slots}
            \cup {[kind |-> "lock", terms |-> Terms, pay |-> Pay(l, c, HTLC_ESCROW, 1)]}
            \cup {[kind |-> "open", params |-> Params, pay |-> Pay(l, c, STORAGE_ESCROW, 2)]}
            \cup {[kind |-> "claim", id |-> i] : i \in DOMAIN l.htlcs \cup {<<Terms, l.nonce[c]>>}}
            \cup {[kind |-> "refund", id |-> i] : i \in DOMAIN l.htlcs}
            \cup {[kind |-> k, id |-> i] : k \in {"prove", "close"}, i \in DOMAIN l.deals}
            \cup {[kind |-> "name", op |-> o, name |-> n, duration |-> 1, to |-> p,
                   pay |-> Pay(l, c, TREASURY, 1)] : o \in {"register", "renew", "transfer"}}
            \cup {[kind |-> "name", op |-> "register", name |-> n, duration |-> 1, to |-> p,
                   pay |-> Pay(l, p, TREASURY, 1)]}
    IN  {tx \in all : "pay" \in DOMAIN tx => tx.pay.nonce <= MaxNonce}

\* The same with a stake operation sent before its turn, or a transfer to a sink.
MCEarlyBond(l) == MCMenu(l) \cup {[kind |-> "bond", pay |-> Ahead(Pay(l, p, STAKE_SINK, 1))]}
MCStrayTransfer(l) == MCMenu(l) \cup {[kind |-> "transfer", pay |-> Pay(l, p, STAKE_SINK, 1)]}
=============================================================================
