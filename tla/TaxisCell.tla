------------------------------ MODULE TaxisCell ------------------------------
(***************************************************************************)
(* The voting of one height of a TAXIS cell (fanos-taxis/consensus.rs).    *)
(*                                                                         *)
(* The validators' engines exchange proposals and votes over a network     *)
(* that may lose, delay, duplicate and reorder everything, with Byzantine  *)
(* members.  The network is the set of votes ever sent.  A handler that    *)
(* tallies votes (check_prepared, check_committed, ...) is an action that  *)
(* is enabled once the votes it needs have been sent: it is the delivery   *)
(* of the last of them, and does all that delivery does to this state.     *)
(*                                                                         *)
(* Any proposal may arrive at any time, under any proof of lock that       *)
(* exists: proposing (maybe_propose, in TaxisProposer) chooses among them. *)
(*                                                                         *)
(* A validator that finalizes leaves the height, its fields reset.         *)
(***************************************************************************)
EXTENDS TaxisVotes

CONSTANTS MaxRound,   \* bound: the last round explored
          Leader,     \* Leader[r]: committee::leader at this height and round
          Proposer    \* Proposer[b]: the header field of block b

Rounds == 0 .. MaxRound

\* A block with the round of the PREPARE certificate that proves it.
Proven == [block : Blocks, round : Rounds]

ASSUME CellConstants ==
  /\ MaxRound \in Nat
  /\ None \notin Proven
  /\ Leader \in [Rounds -> Validators]
  /\ Proposer \in [Blocks -> Validators]

VARIABLES
  round,        \* round[v]
  held,         \* held[v]: the bodies in `proposals`
  sentPrepare,  \* sentPrepare[v]: the rounds v sent a PREPARE in
  sentCommit,   \* sentCommit[v]: the rounds v sent a COMMIT in
  locked,       \* locked[v]: locked_block with the round of locked_cert, or None
  pending,      \* pending[v]: pending_finalize at this height, or None
  decided,      \* decided[v]: the block v finalized, or None
  votes         \* every vote sent

vars == <<round, held, sentPrepare, sentCommit, locked, pending, decided, votes>>

\* The proof of lock a proposal carries: the round of a certificate for the
\* block itself, or NoPol (a certificate for anything else counts for nothing).
NoPol == -1

Active(v) == decided[v] = None

-----------------------------------------------------------------------------
(* Rounds.                                                                  *)

Prepare(v, r, b) ==
  /\ sentPrepare' = [sentPrepare EXCEPT ![v] = @ \cup {r}]
  /\ votes' = votes \cup {MkVote("prepare", r, b, v)}

\* reprepare_lock, in the round r just entered.
RepreparesLock(v, r) ==
  locked[v] # None /\ r \notin sentPrepare[v] /\ locked[v].block \in held[v]

\* The common tail of advance_round and maybe_advance_round.
EnterRound(v, r) ==
  /\ round' = [round EXCEPT ![v] = r]
  /\ IF RepreparesLock(v, r) THEN Prepare(v, r, locked[v].block)
                             ELSE UNCHANGED <<sentPrepare, votes>>
  /\ UNCHANGED <<held, sentCommit, locked, pending, decided>>

\* Mutant of OnTimeout: the sent_prepare gate of prepare_nil dropped.
OnTimeout_NoGate(v) ==
  /\ Active(v)
  /\ Prepare(v, round[v], Nil)
  /\ UNCHANGED <<round, held, sentCommit, locked, pending, decided>>

\* on_timeout: the first expiry of a round in which v has prepared nothing says
\* so and stays; a later one leaves the round.
OnTimeout(v) ==
  /\ Active(v)
  /\ \/ /\ round[v] \notin sentPrepare[v]
        /\ Prepare(v, round[v], Nil)
        /\ UNCHANGED <<round, held, sentCommit, locked, pending, decided>>
     \/ /\ round[v] \in sentPrepare[v]
        /\ round[v] < MaxRound
        /\ EnterRound(v, round[v] + 1)

\* The PREPARE votes of v's round that can convince it most that the round is
\* over: each further voter only makes it look deader, and a Byzantine voter
\* most of all by voting for nothing.
Evidence(v) ==
  {x \in votes : /\ x.phase = "prepare" /\ x.round = round[v]
                 /\ x.voter \in Honest \/ x.block = Nil}

\* No block can reach a quorum any more, as far as the votes R tell.
RoundIsDead(R) ==
  LET voters == {x.voter : x \in R}
      for(b) == {x.voter : x \in {y \in R : y.block = b}}
  IN  /\ IsQuorum(voters)
      /\ \A b \in {x.block : x \in R} \ {Nil} :
           Cardinality(for(b)) + (N - Cardinality(voters)) < Q

\* round_failed_by_votes
RoundFailedByVotes(v) ==
  /\ Active(v)
  /\ round[v] < MaxRound
  /\ RoundIsDead(Evidence(v))
  /\ EnterRound(v, round[v] + 1)

\* The peers v has seen vote in a round of S.
PeersIn(v, S) == {w \in Validators \ {v} : \E x \in votes : x.voter = w /\ x.round \in S}

\* maybe_advance_round: r is the (f+1)-th highest round v has seen a peer in.
MaybeAdvanceRound(v, r) ==
  /\ Active(v)
  /\ round[v] < r
  /\ Cardinality(PeersIn(v, r .. MaxRound)) >= F + 1
  /\ PeersIn(v, {r}) # {}
  /\ EnterRound(v, r)

-----------------------------------------------------------------------------
(* Deciding.                                                                *)

\* finalize, with reset_round_state; without the body, the decision is parked
\* until the body is fetched.  `bodies` is what v holds by then.
Finalize(v, b, bodies) ==
  \/ /\ b \in bodies
     /\ decided' = [decided EXCEPT ![v] = b]
     /\ pending' = [pending EXCEPT ![v] = None]
     /\ round' = [round EXCEPT ![v] = 0]
     /\ held' = [held EXCEPT ![v] = {}]
     /\ sentPrepare' = [sentPrepare EXCEPT ![v] = {}]
     /\ sentCommit' = [sentCommit EXCEPT ![v] = {}]
     /\ locked' = [locked EXCEPT ![v] = None]
     /\ UNCHANGED votes
  \/ /\ b \notin bodies
     /\ pending' = [pending EXCEPT ![v] = b]
     /\ UNCHANGED <<round, held, sentPrepare, sentCommit, locked, decided, votes>>

\* Mutants of LockOn: the lock dated one round late, or not taken.
LockOn_NextRound(v, b) == [block |-> b, round |-> round[v] + 1]
LockOn_Nothing(v, b) == None

\* locked_block and locked_cert, once b is prepared in v's round.
LockOn(v, b) == [block |-> b, round |-> round[v]]

\* check_prepared: a PREPARE quorum in v's own round locks it and sends a COMMIT.
CheckPrepared(v, b) ==
  LET r == round[v] IN
  /\ Active(v)
  /\ r \notin sentCommit[v]
  /\ Polka(votes, r, b)
  /\ locked' = [locked EXCEPT ![v] = LockOn(v, b)]
  /\ sentCommit' = [sentCommit EXCEPT ![v] = @ \cup {r}]
  /\ votes' = votes \cup {MkVote("commit", r, b, v)}
  /\ UNCHANGED <<round, held, sentPrepare, pending, decided>>

\* Mutant of CheckCommitted: it counts PREPARE votes.
CheckCommitted_Prepares(v, b) ==
  /\ Active(v)
  /\ Polka(votes, round[v], b)
  /\ Finalize(v, b, held[v])

\* check_committed: a COMMIT quorum in v's own round.
CheckCommitted(v, b) ==
  /\ Active(v)
  /\ CommitCert(votes, round[v], b)
  /\ Finalize(v, b, held[v])

\* adopt_commit_cert: a certificate of any round, from a peer's answer to a
\* SyncReq or from the last_commit of a block of the next height.
OnCommitCert(v, b) ==
  /\ Active(v)
  /\ Byzantine # {} \/ \E w \in Honest : b \in {decided[w], pending[w]}
  /\ \E r \in Rounds : CommitCert(votes, r, b)
  /\ Finalize(v, b, held[v])

\* on_need_body: some peer has the body to give.
Served(b) == Byzantine # {} \/ \E w \in Honest : b \in held[w] \cup {decided[w]}

\* on_body: the answer to NeedBody, for a block v has parked or is locked on.
OnBody(v, b) ==
  /\ Active(v)
  /\ Served(b)
  /\ \/ pending[v] = b /\ Finalize(v, b, held[v] \cup {b})
     \/ /\ pending[v] # b
        /\ locked[v] # None /\ locked[v].block = b
        /\ held' = [held EXCEPT ![v] = @ \cup {b}]
        /\ UNCHANGED <<round, sentPrepare, sentCommit, locked, pending, decided, votes>>

-----------------------------------------------------------------------------
(* Receiving a proposal of block b with a proof of lock of round p.         *)

\* The proofs of lock for b that can be sent with it.
Proofs(b) == {NoPol} \cup {r \in Rounds : Polka(votes, r, b)}

\* pol_ok
PolOk(b, p) == p \in Proofs(b) \ {NoPol}

ProposerOk(v, b, p) == PolOk(b, p) \/ Leader[round[v]] = Proposer[b]

\* unlocks_us, with the bounds of pol_shape_releases.
UnlocksUs(v, b, p) ==
  /\ locked[v] # None
  /\ PolOk(b, p)
  /\ p > locked[v].round
  /\ p <= round[v]

\* Mutant of LockAllows: no lock gate.
LockAllows_Any(v, b, p) == TRUE

LockAllows(v, b, p) ==
  locked[v] # None => (locked[v].block = b \/ UnlocksUs(v, b, p))

\* The body of an unentitled proposal is kept only as the first of its proposer.
KeepsBody(v, b, p) ==
  ProposerOk(v, b, p) \/ \A h \in held[v] : Proposer[h] # Proposer[b]

\* Mutant of Kept: one slot, overwritten.
Kept_Latest(v, b) == {b}

\* `proposals`, "never overwritten by a different block".
Kept(v, b) == held[v] \cup {b}

\* on_propose, for a block that links, is well formed and whose payload the
\* shards reconstruct; any other leaves this state alone.  The body is kept, a
\* parked decision is finalized, and an entitled proposal that the lock allows
\* is prepared.
OnPropose(v, b, p) ==
  /\ Active(v)
  /\ KeepsBody(v, b, p)
  /\ \/ pending[v] = b /\ Finalize(v, b, Kept(v, b))
     \/ /\ pending[v] # b
        /\ held' = [held EXCEPT ![v] = Kept(v, b)]
        /\ IF ProposerOk(v, b, p) /\ LockAllows(v, b, p) /\ round[v] \notin sentPrepare[v]
           THEN Prepare(v, round[v], b) ELSE UNCHANGED <<sentPrepare, votes>>
        /\ UNCHANGED <<round, sentCommit, locked, pending, decided>>

-----------------------------------------------------------------------------
\* The Byzantine votes are all there from the start: a tally takes the ones it
\* is sent, and sending a vote early enables nothing that sending it late does
\* not.
Init ==
  /\ round = [v \in Honest |-> 0]
  /\ held = [v \in Honest |-> {}]
  /\ sentPrepare = [v \in Honest |-> {}]
  /\ sentCommit = [v \in Honest |-> {}]
  /\ locked = [v \in Honest |-> None]
  /\ pending = [v \in Honest |-> None]
  /\ decided = [v \in Honest |-> None]
  /\ votes = [phase : {"prepare", "commit"}, round : Rounds,
              block : Blocks \cup {Nil}, voter : Byzantine]

Next == \E v \in Honest :
  \/ OnTimeout(v)
  \/ RoundFailedByVotes(v)
  \/ \E r \in Rounds : MaybeAdvanceRound(v, r)
  \/ \E b \in Blocks : CheckPrepared(v, b)
  \/ \E b \in Blocks : CheckCommitted(v, b)
  \/ \E b \in Blocks : OnCommitCert(v, b)
  \/ \E b \in Blocks : OnBody(v, b)
  \/ \E b \in Blocks : \E p \in Proofs(b) : OnPropose(v, b, p)

Spec == Init /\ [][Next]_vars

-----------------------------------------------------------------------------
TypeOK ==
  /\ round \in [Honest -> Rounds]
  /\ held \in [Honest -> SUBSET Blocks]
  /\ sentPrepare \in [Honest -> SUBSET Rounds]
  /\ sentCommit \in [Honest -> SUBSET Rounds]
  /\ locked \in [Honest -> Proven \cup {None}]
  /\ pending \in [Honest -> Blocks \cup {None}]
  /\ decided \in [Honest -> Blocks \cup {None}]
  /\ votes \subseteq Vote

\* finalize: no two honest validators finalize different blocks at one height,
\* whatever is lost, reordered or forged by a minority.
Agreement ==
  \A v, w \in Honest : (decided[v] # None /\ decided[w] # None) => decided[v] = decided[w]

\* A decision parked for want of its body (pending_finalize) is never in conflict
\* with a decision any other honest validator made or parked.
ParkedAgree ==
  \A v, w \in Honest :
     (pending[v] # None /\ {decided[w], pending[w]} # {None})
        => pending[v] \in {decided[w], pending[w]}

\* unlocks_us, "once Q COMMIT votes exist for v, no conflicting PREPARE quorum can
\* form at any later round".
CommittedValueHolds ==
  \A a, b \in Blocks : \A r \in Rounds : CommitCert(votes, r, a) =>
     \A s \in r + 1 .. MaxRound : Polka(votes, s, b) => a = b

\* maybe_request_body asks the voters of the certificate it parked on, in turn: one
\* of them is honest and has the body.
CertifiedBodyHeld ==
  \A b \in Blocks : \A r \in Rounds : CommitCert(votes, r, b) =>
     \E w \in Honest \cap VotersIn(votes, "commit", r, b) : b \in held[w] \cup {decided[w]}

\* maybe_request_body, "Every voter in the certificate held the block in order to
\* sign a COMMIT for it": whoever is asked for a parked decision's body has it.
CommitVotersHoldBody ==
  \A x \in votes : (x.voter \in Honest /\ x.phase = "commit")
     => x.block \in held[x.voter] \cup {decided[x.voter]}

\* on_propose, "finalize now instead of staying wedged [...] Decided before
\* entitlement on purpose": the body of a parked decision is taken from whatever
\* proposal brings it.
ParkedBodyTaken ==
  \A v \in Honest : (Active(v) /\ pending[v] # None) => KeepsBody(v, pending[v], NoPol)

\* The engine casts no vote that VoteRules forbids, and decides only as it allows.
\* A validator that has left the height is past every round of it.
RoundOf == [v \in Honest |-> IF Active(v) THEN round[v] ELSE MaxRound + 1]
VR == INSTANCE VoteRules WITH round <- RoundOf
ImplementsVoteRules == VR!Spec
=============================================================================
