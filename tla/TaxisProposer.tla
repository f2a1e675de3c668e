--------------------------- MODULE TaxisProposer ---------------------------
(***************************************************************************)
(* Proposing in a TAXIS cell (maybe_propose, fanos-taxis/consensus.rs),    *)
(* and the lottery that picks among the proposals of round 0.              *)
(*                                                                         *)
(* TaxisCell lets any proposal arrive.  Here honest proposals are the ones *)
(* maybe_propose sends: on a tick, and on entering a round.  A validator   *)
(* proposes the block it is locked on, else one it has seen a PREPARE      *)
(* certificate for, else a fresh one.                                      *)
(*                                                                         *)
(* With sortition, every member of the elected line proposes in round 0.   *)
(* A validator ranks their tickets, which travel ahead of the blocks in    *)
(* skeletons, and prepares the block of the lowest once all are in or its  *)
(* collection window has passed.                                           *)
(*                                                                         *)
(* A block is the record of the header fields in which two blocks of one   *)
(* height can differ; its hash commits to all of them.                     *)
(***************************************************************************)
EXTENDS TaxisCell

CONSTANTS LastCert,       \* LastCert[v]: v's last_finalized_cert, None if it has just
                          \* state-synced
          Line,           \* the elected line of round 0; empty without sortition
          Ticket,         \* Ticket[v]: v's ticket for round 0, lowest first
          CollectWindow   \* COLLECT_WINDOW_TICKS

\* block.with_last_commit: the proposer's own certificate of the parent.
WithLastCommit(b, v) == [b EXCEPT !.last_commit = LastCert[v]]

\* Block::assemble: what v can build from its mempool.
FreshBlocks(v) == {b \in Blocks : b.proposer = v /\ b.last_commit = LastCert[v]}

ASSUME ProposerConstants ==
  /\ \A b \in Blocks : Proposer[b] = b.proposer
  /\ \A v \in Honest : LastCert[v] # None => \A b \in Blocks : WithLastCommit(b, v) \in Blocks
  /\ \A v \in Line \cup {Leader[r] : r \in Rounds} : LastCert[v] # None => FreshBlocks(v) # {}
  /\ Line \subseteq Validators /\ CollectWindow \in Nat \ {0}
  /\ Ticket \in [Validators -> Nat] /\ \A v, w \in Validators : Ticket[v] = Ticket[w] => v = w

VARIABLES
  valid,      \* valid[v]: valid_value with the round of its certificate, or None
  proposed,   \* proposed[v]: proposed_round, -1 for none
  ahead,      \* ahead[v]: max_seen_height is above this height
  offers,     \* every proposal an honest validator sent
  tickets,    \* tickets[v][w]: round0_tickets, the block ranked for proposer w, or None
  window      \* window[v]: round0_window, the ticks since it opened, or -1

lottery == <<tickets, window>>
pvars == <<valid, proposed, ahead, offers, lottery>>

\* A proposal: a block, a proof of lock, which names the block it is for, and a ticket
\* witness, which names its owner.
Proposal == [block : Blocks, pol : Proven \cup {None}, witness : Validators \cup {None}]

-----------------------------------------------------------------------------
\* A locked validator may re-offer its block whatever the rota says, while no
\* peer is known to have moved past it.
CanReoffer(v) == ~ahead[v] /\ locked[v] # None /\ locked[v].block \in held[v]

\* sortition_round0, in round r.
InLottery(r) == Line # {} /\ r = 0

MayPropose(v, r) ==
  /\ (IF InLottery(r) THEN v \in Line ELSE Leader[r] = v) \/ CanReoffer(v)
  /\ proposed[v] # r
  /\ LastCert[v] # None

\* The value v prefers to a fresh one.
Preferred(v) ==
  IF locked[v] # None /\ locked[v].block \in held[v] THEN locked[v]
  ELSE IF valid[v] # None /\ valid[v].block \in held[v] THEN valid[v]
  ELSE None

\* Mutant of Offers: a re-offered block is assembled anew, under v's own name.
Offers_Reassembled(v, r) ==
  LET p == Preferred(v)
      witness == IF InLottery(r) THEN v ELSE None IN
  IF p # None
  THEN {[block |-> [WithLastCommit(p.block, v) EXCEPT !.proposer = v], pol |-> p, witness |-> witness]}
  ELSE {[block |-> b, pol |-> None, witness |-> witness] : b \in FreshBlocks(v)}

\* What v can send in round r; in the lottery, with its own ticket.
Offers(v, r) ==
  LET p == Preferred(v)
      witness == IF InLottery(r) THEN v ELSE None IN
  IF p # None THEN {[block |-> WithLastCommit(p.block, v), pol |-> p, witness |-> witness]}
              ELSE {[block |-> b, pol |-> None, witness |-> witness] : b \in FreshBlocks(v)}

\* maybe_propose, in round r.
MaybePropose(v, r) ==
  IF MayPropose(v, r)
  THEN /\ \E m \in Offers(v, r) : offers' = offers \cup {m}
       /\ proposed' = [proposed EXCEPT ![v] = r]
  ELSE UNCHANGED <<offers, proposed>>

-----------------------------------------------------------------------------
(* The lottery of round 0.                                                  *)

\* Mutant of MayPrepareMin: only a PREPARE for b itself is remembered.
MayPrepareMin_Twice(v, b) ==
  /\ round[v] = 0 /\ MkVote("prepare", 0, b, v) \notin votes
  /\ locked[v] # None => locked[v].block = b

\* A vote in round 0 is still open to v, and its lock allows b.
MayPrepareMin(v, b) ==
  /\ round[v] = 0 /\ 0 \notin sentPrepare[v]
  /\ locked[v] # None => locked[v].block = b

\* prepare_round0_min, with the ranking `ranked` and the bodies `bodies`: the lowest
\* ticket's block, or nothing while its body is missing.
PrepareRound0Min(v, ranked, bodies) ==
  LET entered == {w \in Validators : ranked[w] # None}
      winner == CHOOSE w \in entered : \A u \in entered : Ticket[w] <= Ticket[u]
      b == ranked[winner] IN
  IF entered # {} /\ b \in bodies /\ MayPrepareMin(v, b)
  THEN Prepare(v, 0, b) ELSE UNCHANGED <<sentPrepare, votes>>

\* rank_round0: the first block ranked for a proposer stays; a full line, or a window
\* that has passed, decides.
RankRound0(v, b, bodies) ==
  LET w == b.proposer
      ranked == [tickets[v] EXCEPT ![w] = IF @ = None THEN b ELSE @]
      open == IF window[v] = -1 THEN 0 ELSE window[v] IN
  /\ tickets' = [tickets EXCEPT ![v] = ranked]
  /\ window' = [window EXCEPT ![v] = open]
  /\ IF \/ Cardinality({u \in Validators : ranked[u] # None}) >= Cardinality(Line)
        \/ open >= CollectWindow
     THEN PrepareRound0Min(v, ranked, bodies) ELSE UNCHANGED <<sentPrepare, votes>>

\* tick_round0_window; past its end the window need not be counted.
TickRound0Window(v) ==
  IF InLottery(round[v]) /\ 0 \notin sentPrepare[v] /\ window[v] # -1
  THEN /\ window' = [window EXCEPT ![v] = IF @ < CollectWindow THEN @ + 1 ELSE @]
       /\ IF window[v] + 1 >= CollectWindow
          THEN PrepareRound0Min(v, tickets[v], held[v]) ELSE UNCHANGED <<sentPrepare, votes>>
  ELSE UNCHANGED <<window, sentPrepare, votes>>

\* verify_witness: a ticket is its proposer's.
VerifyWitness(m) == m.witness = m.block.proposer

-----------------------------------------------------------------------------
(* When to propose.                                                         *)

\* Input::Tick.  Its requests are what OnCommitCert and OnBody answer.
Tick(v) ==
  /\ Active(v)
  /\ MaybePropose(v, round[v])
  /\ TickRound0Window(v)
  /\ UNCHANGED <<round, held, sentCommit, locked, pending, decided, valid, ahead, tickets>>

\* A timeout or the votes of others: the round v enters, if any, it may propose in.
EntersRound(v) ==
  /\ OnTimeout(v) \/ RoundFailedByVotes(v) \/ \E r \in Rounds : MaybeAdvanceRound(v, r)
  /\ IF round' # round THEN MaybePropose(v, round'[v]) ELSE UNCHANGED <<offers, proposed>>
  /\ UNCHANGED <<valid, ahead, lottery>>

\* note_height: an authenticated vote for a later height.  Honest validators send
\* one only once they have finalized this height.
NoteHeight(v) ==
  /\ Active(v) /\ ~ahead[v]
  /\ Byzantine # {} \/ \E w \in Honest : ~Active(w)
  /\ ahead' = [ahead EXCEPT ![v] = TRUE]
  /\ UNCHANGED <<vars, valid, proposed, offers, lottery>>

-----------------------------------------------------------------------------
(* Receiving.                                                               *)

\* The round of the proof of lock, if it is one for the block it came with.
PolOf(m) == IF m.pol # None /\ m.pol.block = m.block THEN m.pol.round ELSE NoPol

\* What can reach a validator: the proposals sent and, with a Byzantine member,
\* every block with no proof or one that exists, and a ticket of its own or a published one.
Receivable(m) ==
  \/ m \in offers
  \/ Byzantine # {} /\ PolOf(m) \in Proofs(m.block)
     /\ m.witness \in Byzantine \cup {None} \cup {o.witness : o \in offers}

\* on_propose records the newest certificate it sees, before any other check.
NoteValidValue(v, m) ==
  valid' = IF PolOf(m) # NoPol /\ (valid[v] = None \/ m.pol.round >= valid[v].round)
           THEN [valid EXCEPT ![v] = m.pol] ELSE valid

\* on_propose, refused by a check after that one: unlinked, unavailable, unentitled.
RefuseProposal(v, m) ==
  /\ Active(v) /\ Receivable(m)
  /\ NoteValidValue(v, m)
  /\ UNCHANGED <<vars, proposed, ahead, offers, lottery>>

\* on_propose outside the lottery.
TakeProposal(v, m) ==
  /\ Receivable(m) /\ ~InLottery(round[v])
  /\ OnPropose(v, m.block, PolOf(m))
  /\ NoteValidValue(v, m)
  /\ UNCHANGED <<proposed, ahead, offers, lottery>>

\* on_propose in the lottery: kept and, from a member of the line or with a proof of
\* lock, ranked.
EnterLottery(v, m) ==
  LET b == m.block
      proposer_ok == PolOf(m) # NoPol \/ b.proposer \in Line IN
  /\ Active(v) /\ Receivable(m) /\ InLottery(round[v]) /\ VerifyWitness(m)
  /\ proposer_ok \/ \A h \in held[v] : h.proposer # b.proposer
  /\ NoteValidValue(v, m)
  /\ IF pending[v] = b
     THEN Finalize(v, b, Kept(v, b)) /\ UNCHANGED lottery
     ELSE /\ held' = [held EXCEPT ![v] = Kept(v, b)]
          /\ IF proposer_ok THEN RankRound0(v, b, Kept(v, b))
                            ELSE UNCHANGED <<lottery, sentPrepare, votes>>
          /\ UNCHANGED <<round, sentCommit, locked, pending, decided>>
  /\ UNCHANGED <<proposed, ahead, offers>>

\* on_skeleton: a ticket without its block.
OnSkeleton(v, m) ==
  /\ Active(v) /\ Receivable(m) /\ InLottery(round[v]) /\ 0 \notin sentPrepare[v]
  /\ m.block.proposer \in Line /\ VerifyWitness(m)
  /\ RankRound0(v, m.block, held[v])
  /\ UNCHANGED <<round, held, sentCommit, locked, pending, decided, valid, proposed, ahead, offers>>

\* The handlers that touch no proposing state; what finalize resets of it is not read
\* again at this height.
Tallies(v) ==
  /\ \E b \in Blocks :
       CheckPrepared(v, b) \/ CheckCommitted(v, b) \/ OnCommitCert(v, b) \/ OnBody(v, b)
  /\ UNCHANGED pvars

PInit ==
  /\ Init
  /\ valid = [v \in Honest |-> None]
  /\ proposed = [v \in Honest |-> -1]
  /\ ahead = [v \in Honest |-> FALSE]
  /\ offers = {}
  /\ tickets = [v \in Honest |-> [w \in Validators |-> None]]
  /\ window = [v \in Honest |-> -1]

PNext == \E v \in Honest :
  \/ Tick(v)
  \/ EntersRound(v)
  \/ NoteHeight(v)
  \/ Tallies(v)
  \/ \E m \in Proposal : 
       RefuseProposal(v, m) \/ TakeProposal(v, m) \/ EnterLottery(v, m) \/ OnSkeleton(v, m)

PSpec == PInit /\ [][PNext]_<<vars, pvars>>

-----------------------------------------------------------------------------
PTypeOK ==
  /\ TypeOK
  /\ valid \in [Honest -> Proven \cup {None}]
  /\ proposed \in [Honest -> Rounds \cup {-1}]
  /\ ahead \in [Honest -> BOOLEAN]
  /\ offers \subseteq Proposal
  /\ tickets \in [Honest -> [Validators -> Blocks \cup {None}]]
  /\ window \in [Honest -> -1 .. CollectWindow]

\* Block::pol, "a re-proposal is byte-identical in identity to the original": the
\* proof of lock a re-offered block carries is one for that block.
ReofferKeepsIdentity == \A m \in offers : m.pol # None => m.pol.block = m.block

\* prepare_round0_min, "a no-op in round 0 - no prior lock can exist": a validator with
\* its vote of round 0 still to cast is not locked.
LotteryIsUnlocked ==
  \A v \in Honest : InLottery(round[v]) /\ 0 \notin sentPrepare[v] => locked[v] = None
=============================================================================
