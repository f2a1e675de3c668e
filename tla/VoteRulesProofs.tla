--------------------------- MODULE VoteRulesProofs ---------------------------
(***************************************************************************)
(* Agreement follows from the vote rules, for every cell: any finite set   *)
(* of validators with at most F Byzantine among them, any blocks, any      *)
(* number of rounds.                                                       *)
(*                                                                         *)
(* Agreement is not inductive.  Inv adds to it what each honest vote rests *)
(* on (OnlyPast, Once, Backed, Locks) and the heart of the argument, Safe: *)
(* a PREPARE quorum for b at a round means that no other block can still   *)
(* gather a COMMIT quorum at an earlier round, because in every quorum     *)
(* some honest validator has left that round without committing to it.     *)
(*                                                                         *)
(* Of quorums the argument uses two facts, QuorumFacts, which              *)
(* TaxisCellProofs proves of the cell's.                                   *)
(***************************************************************************)
EXTENDS VoteRules, TLAPS

\* CellParams::is_safe: two quorums have an honest member in common; and a quorum stays one
\* as it grows.
QuorumFacts ==
  /\ \A S, T \in SUBSET Validators : IsQuorum(S) /\ IsQuorum(T) => \E v \in Honest : v \in S /\ v \in T
  /\ \A S, T \in SUBSET Validators : IsQuorum(S) /\ S \subseteq T => IsQuorum(T)

\* Only validators are counted.
LEMMA VotersAreValidators ==
  ASSUME NEW vs, NEW ph, NEW r, NEW b
  PROVE  VotersIn(vs, ph, r, b) \in SUBSET Validators
BY DEF VotersIn

\* A certificate stays valid as votes are added.
LEMMA CertificatesGrow ==
  ASSUME QuorumFacts, NEW us, NEW vs, us \subseteq vs, NEW r, NEW b
  PROVE  /\ Polka(us, r, b) => Polka(vs, r, b)
         /\ CommitCert(us, r, b) => CommitCert(vs, r, b)
<1>1. \A ph : VotersIn(us, ph, r, b) \subseteq VotersIn(vs, ph, r, b)
  BY DEF VotersIn
<1> QED
  BY <1>1, VotersAreValidators DEF QuorumFacts, Polka, CommitCert

\* A vote is its four fields.
LEMMA VoteFields ==
  ASSUME NEW x \in Vote
  PROVE  /\ x.round \in Nat /\ x.voter \in Validators /\ x.block \in Blocks \cup {Nil}
         /\ x.phase \in {"prepare", "commit"}
         /\ x = MkVote(x.phase, x.round, x.block, x.voter)
BY DEF Vote, MkVote

OnlyPast == \A x \in votes : x.voter \in Honest => x.round <= round[x.voter]

Once == \A x, y \in votes :
  (x.voter \in Honest /\ y.voter = x.voter /\ y.phase = x.phase /\ y.round = x.round)
     => y.block = x.block

Backed == \A x \in votes :
  (x.voter \in Honest /\ x.phase = "commit")
     => x.block \in Blocks /\ Polka(votes, x.round, x.block)

Locks == \A x, y \in votes :
  ( /\ x.voter \in Honest /\ x.phase = "prepare" /\ x.block \in Blocks
    /\ y.voter = x.voter /\ y.phase = "commit" /\ y.round < x.round
    /\ y.block # x.block )
  => \E p \in (y.round + 1) .. x.round : Polka(votes, p, x.block)

\* w has left round r and has not committed to a there.
WontCommit(w, a, r) == round[w] > r /\ MkVote("commit", r, a, w) \notin votes

Safe == \A a, b \in Blocks : \A r, s \in Nat :
  (a # b /\ r < s /\ Polka(votes, s, b))
     => \A T \in SUBSET Validators :
          IsQuorum(T) => \E w \in Honest : w \in T /\ WontCommit(w, a, r)

Decisions == \A v \in Honest :
  decided[v] # None => \E r \in Nat : CommitCert(votes, r, decided[v])

VotesInv == OnlyPast /\ Once /\ Backed /\ Locks /\ Safe

Inv == TypeOK /\ VotesInv /\ Decisions

-----------------------------------------------------------------------------
(* One step.                                                                *)

\* What every step, honest or Byzantine, does to the votes.
GoodStep ==
  /\ votes \subseteq votes'
  /\ votes' \subseteq Vote
  /\ round' \in [Honest -> Nat]
  /\ \A w \in Honest : round[w] <= round'[w]
  /\ \A x \in votes' \ votes : x.voter \in Honest =>
       /\ round[x.voter] <= x.round /\ x.round <= round'[x.voter]
       /\ \A y \in votes' : (y.voter = x.voter /\ y.phase = x.phase /\ y.round = x.round)
                               => y.block = x.block
       /\ x.phase = "commit" => x.block \in Blocks /\ Polka(votes', x.round, x.block)
       /\ \A y \in votes' :
            ( /\ x.phase = "prepare" /\ x.block \in Blocks
              /\ y.voter = x.voter /\ y.phase = "commit" /\ y.round < x.round
              /\ y.block # x.block )
            => \E p \in (y.round + 1) .. x.round : Polka(votes, p, x.block)

\* Every step of the rules is a good step: honest votes are new ones the rules allow.
LEMMA StepIsGood ==
  ASSUME TypeOK, Next PROVE GoodStep /\ TypeOK'
<1> USE DEF TypeOK
<1>1. CASE ByzantineStep
  BY <1>1 DEF ByzantineStep, GoodStep, Honest
<1>2. ASSUME NEW v \in Honest, HonestStep(v) PROVE GoodStep /\ TypeOK'
  <2> DEFINE D == votes' \ votes
  <2>1. votes \subseteq votes' /\ votes' = votes \cup D
    BY <1>2 DEF HonestStep
  <2>2. round' = [round EXCEPT ![v] = round'[v]] /\ round'[v] \in Nat
    BY <1>2 DEF HonestStep
  <2>3. /\ round[v] <= round'[v]
        /\ \A x \in D : x \in Vote /\ x.voter = v /\ round[v] <= x.round /\ x.round <= round'[v]
        /\ OnePerRound(v, votes, D)
        /\ CommitsBacked(votes, D)
        /\ LockRespected(v, votes, D)
    BY <1>2 DEF HonestStep, Cast
  <2>4. votes' \subseteq Vote
    BY <2>1, <2>3
  <2>5. round' \in [Honest -> Nat] /\ \A w \in Honest : round[w] <= round'[w]
    BY <2>2, <2>3
  <2>6. decided' \in [Honest -> Blocks \cup {None}]
    BY <1>2 DEF HonestStep, MayDecide
  <2>7. ASSUME NEW x \in D, NEW y \in votes',
               y.voter = x.voter, y.phase = x.phase, y.round = x.round
        PROVE  y.block = x.block
    BY <2>7, <2>1, <2>3 DEF OnePerRound
  <2>8. ASSUME NEW x \in D, x.phase = "commit"
        PROVE  x.block \in Blocks /\ Polka(votes', x.round, x.block)
    BY <2>8, <2>1, <2>3, Zenon DEF CommitsBacked
  <2>9. ASSUME NEW x \in D, NEW y \in votes', x.phase = "prepare", x.block \in Blocks,
               y.voter = x.voter, y.phase = "commit", y.round < x.round, y.block # x.block
        PROVE  \E p \in (y.round + 1) .. x.round : Polka(votes, p, x.block)
    BY <2>9, <2>1, <2>3 DEF LockRespected
  <2> QED
    BY <2>1, <2>3, <2>4, <2>5, <2>6, <2>7, <2>8, <2>9 DEF GoodStep
<1> QED
  BY <1>1, <1>2 DEF Next

\* A validator that will not commit never does: it votes only in rounds it has
\* not left.
LEMMA WontCommitStable ==
  ASSUME TypeOK, GoodStep, NEW w \in Honest, NEW a \in Blocks, NEW r \in Nat,
         WontCommit(w, a, r)
  PROVE  WontCommit(w, a, r)'
<1> DEFINE x == MkVote("commit", r, a, w)
<1>1. x.voter = w /\ x.round = r
  BY DEF MkVote
<1>2. round[w] \in Nat /\ round'[w] \in Nat /\ round[w] <= round'[w] /\ round[w] > r
  BY DEF TypeOK, GoodStep, WontCommit
<1>3. x \notin votes'
  BY <1>1, <1>2 DEF GoodStep, WontCommit
<1> QED
  BY <1>2, <1>3 DEF WontCommit

\* The new PREPARE quorum of a step keeps Safe: an honest member of it that had
\* committed to a earlier saw a PREPARE quorum for b that was there before.
LEMMA SafeStep ==
  ASSUME QuorumFacts, TypeOK, VotesInv, GoodStep PROVE Safe'
<1> USE DEF TypeOK, VotesInv
<1>1. SUFFICES ASSUME NEW a \in Blocks, NEW b \in Blocks, NEW r \in Nat, NEW s \in Nat,
                      a # b, r < s, Polka(votes', s, b),
                      NEW T \in SUBSET Validators, IsQuorum(T)
               PROVE  \E w \in Honest : w \in T /\ WontCommit(w, a, r)'
  BY DEF Safe
<1>2. ASSUME NEW p \in Nat, r < p, Polka(votes, p, b)
      PROVE  \E w \in Honest : w \in T /\ WontCommit(w, a, r)'
  <2>1. PICK w \in Honest : w \in T /\ WontCommit(w, a, r)
    BY <1>1, <1>2 DEF Safe
  <2> QED
    BY <2>1, WontCommitStable
<1>3. PICK w \in Honest : w \in VotersIn(votes', "prepare", s, b) /\ w \in T
  BY <1>1, VotersAreValidators DEF QuorumFacts, Polka
<1> DEFINE x == MkVote("prepare", s, b, w)
           y == MkVote("commit", r, a, w)
<1>4. /\ x \in votes' /\ x.voter = w /\ x.phase = "prepare" /\ x.round = s /\ x.block = b
      /\ y.voter = w /\ y.phase = "commit" /\ y.round = r /\ y.block = a
  BY <1>3 DEF VotersIn, MkVote
<1>5. round[w] \in Nat /\ round'[w] \in Nat /\ round[w] <= round'[w]
  BY DEF GoodStep
<1>6. round'[w] > r
  <2>1. s <= round'[w]
    BY <1>4, <1>5 DEF GoodStep, OnlyPast
  <2> QED
    BY <2>1, <1>1, <1>5
<1>7. CASE y \notin votes'
  BY <1>3, <1>6, <1>7 DEF WontCommit
<1>8. CASE y \in votes'
  <2>1. \E p \in (r + 1) .. s : Polka(votes, p, b)
    <3>1. CASE x \notin votes
      BY <3>1, <1>1, <1>4, <1>8 DEF GoodStep
    <3>2. CASE x \in votes
      <4>1. y \in votes
        <5>1. SUFFICES ASSUME y \notin votes PROVE FALSE
          OBVIOUS
        <5>2. round[w] <= r
          BY <5>1, <1>4, <1>8 DEF GoodStep
        <5>3. s <= round[w]
          BY <3>2, <1>4 DEF OnlyPast
        <5> QED
          BY <5>2, <5>3, <1>1, <1>5
      <4> QED
        BY <4>1, <3>2, <1>1, <1>4 DEF Locks
    <3> QED
      BY <3>1, <3>2
  <2> QED
    BY <2>1, <1>2
<1> QED
  BY <1>7, <1>8

\* A good step keeps what is known of the honest votes.
LEMMA VotesInvStep ==
  ASSUME QuorumFacts, TypeOK, VotesInv, GoodStep PROVE VotesInv'
<1> USE DEF TypeOK, VotesInv
<1>1. OnlyPast'
  BY VoteFields DEF OnlyPast, GoodStep
<1>2. Once'
  BY DEF Once, GoodStep
<1>3. Backed'
  BY CertificatesGrow DEF Backed, GoodStep
<1>4. Locks'
  <2>1. SUFFICES ASSUME NEW x \in votes', NEW y \in votes',
                        x.voter \in Honest, x.phase = "prepare", x.block \in Blocks,
                        y.voter = x.voter, y.phase = "commit", y.round < x.round,
                        y.block # x.block
                 PROVE  \E p \in (y.round + 1) .. x.round : Polka(votes', p, x.block)
    BY DEF Locks
  <2>2. \E p \in (y.round + 1) .. x.round : Polka(votes, p, x.block)
    <3>1. CASE x \notin votes
      BY <3>1, <2>1 DEF GoodStep
    <3>2. CASE x \in votes
      <4>1. y \in votes
        <5>1. SUFFICES ASSUME y \notin votes PROVE FALSE
          OBVIOUS
        <5>2. round[x.voter] <= y.round /\ x.round <= round[x.voter]
          BY <5>1, <3>2, <2>1 DEF GoodStep, OnlyPast
        <5>3. x.round \in Nat /\ y.round \in Nat /\ round[x.voter] \in Nat
          BY <2>1, VoteFields DEF GoodStep
        <5> QED
          BY <5>2, <5>3, <2>1
      <4> QED
        BY <4>1, <3>2, <2>1 DEF Locks
    <3> QED
      BY <3>1, <3>2
  <2> QED
    BY <2>2, CertificatesGrow DEF GoodStep
<1>5. Safe'
  BY SafeStep
<1> QED
  BY <1>1, <1>2, <1>3, <1>4, <1>5

\* A decided value keeps the certificate it was decided with.
LEMMA DecisionsStep ==
  ASSUME QuorumFacts, TypeOK, Decisions, Next, GoodStep PROVE Decisions'
<1>1. SUFFICES ASSUME NEW v \in Honest, decided'[v] # None
               PROVE  \E r \in Nat : CommitCert(votes', r, decided'[v])
  BY DEF Decisions
<1>2. CASE decided'[v] = decided[v]
  BY <1>1, <1>2, CertificatesGrow DEF Decisions, GoodStep
<1>3. CASE decided'[v] # decided[v]
  <2>1. PICK u \in Honest : HonestStep(u)
    BY <1>3 DEF Next, ByzantineStep
  <2>2. u = v /\ MayDecide(decided'[v], votes')
    BY <2>1, <1>3 DEF HonestStep, TypeOK
  <2> QED
    BY <2>2, VoteFields DEF MayDecide, GoodStep
<1> QED
  BY <1>2, <1>3

-----------------------------------------------------------------------------
(* The theorems.                                                            *)

\* The invariant holds before any honest vote.
LEMMA Initially ==
  ASSUME QuorumFacts, Init PROVE Inv
<1>1. TypeOK
  BY DEF Init, TypeOK
<1>2. \A x \in votes : x.voter \notin Honest
  BY DEF Init, Honest
<1>3. Safe
  <2>1. SUFFICES ASSUME NEW b \in Blocks, NEW s \in Nat, Polka(votes, s, b) PROVE FALSE
    BY DEF Safe
  <2>2. PICK w \in Honest : w \in VotersIn(votes, "prepare", s, b)
    BY <2>1, VotersAreValidators DEF QuorumFacts, Polka
  <2> QED
    BY <2>2, <1>2 DEF VotersIn, MkVote
<1> QED
  BY <1>1, <1>2, <1>3 DEF Init, Inv, VotesInv, OnlyPast, Once, Backed, Locks, Decisions

\* The inductive invariant holds of every behaviour the vote rules allow.
THEOREM Invariance ==
  ASSUME QuorumFacts PROVE Spec => []Inv
<1>1. Inv /\ [Next]_vars => Inv'
  <2>1. SUFFICES ASSUME Inv, [Next]_vars PROVE Inv'
    OBVIOUS
  <2>2. CASE Next
    BY <2>1, <2>2, StepIsGood, VotesInvStep, DecisionsStep DEF Inv
  <2>3. CASE UNCHANGED vars
    BY <2>1, <2>3 DEF vars, Inv, TypeOK, VotesInv, OnlyPast, Once, Backed, Locks, Safe,
                      WontCommit, Decisions
  <2> QED
    BY <2>1, <2>2, <2>3
<1>2. Init => Inv
  BY Initially
<1> QED
  BY <1>1, <1>2, PTL DEF Spec

\* A block with a COMMIT quorum admits no PREPARE quorum for another block at any
\* later round: the claim on which the comment of unlocks_us rests.
LEMMA CommittedStays ==
  ASSUME Inv, NEW a \in Blocks, NEW b \in Blocks, NEW r \in Nat, NEW s \in Nat,
         r < s, CommitCert(votes, r, a), Polka(votes, s, b)
  PROVE  a = b
<1>1. SUFFICES ASSUME a # b PROVE FALSE
  OBVIOUS
<1>2. PICK w \in Honest : w \in VotersIn(votes, "commit", r, a) /\ WontCommit(w, a, r)
  BY <1>1, VotersAreValidators DEF Inv, VotesInv, Safe, CommitCert
<1> QED
  BY <1>2 DEF WontCommit, VotersIn

\* Two COMMIT certificates of one height, of whatever rounds, are for one block:
\* what the comment of Certificate::verify says of honest cells.
LEMMA CertificatesAgree ==
  ASSUME QuorumFacts, Inv, NEW a \in Blocks, NEW b \in Blocks, NEW r \in Nat, NEW s \in Nat,
         CommitCert(votes, r, a), CommitCert(votes, s, b), r <= s
  PROVE  a = b
<1>1. PICK w \in Honest : w \in VotersIn(votes, "commit", r, a) /\ w \in VotersIn(votes, "commit", s, b)
  BY VotersAreValidators DEF QuorumFacts, CommitCert
<1> DEFINE x == MkVote("commit", r, a, w)
           y == MkVote("commit", s, b, w)
<1>2. /\ x \in votes /\ x.voter = w /\ x.phase = "commit" /\ x.round = r /\ x.block = a
      /\ y \in votes /\ y.voter = w /\ y.phase = "commit" /\ y.round = s /\ y.block = b
  BY <1>1 DEF VotersIn, MkVote
<1>3. CASE r = s
  BY <1>2, <1>3 DEF Inv, VotesInv, Once
<1>4. CASE r < s
  <2>1. Polka(votes, s, b)
    BY <1>2 DEF Inv, VotesInv, Backed
  <2> QED
    BY <2>1, <1>4, CommittedStays
<1> QED
  BY <1>3, <1>4

\* No two honest validators of a cell finalize different blocks at one height.
THEOREM AgreementHolds ==
  ASSUME QuorumFacts PROVE Spec => []Agreement
<1>1. Inv => Agreement
  <2>1. SUFFICES ASSUME Inv, NEW v \in Honest, NEW w \in Honest,
                        decided[v] # None, decided[w] # None
                 PROVE  decided[v] = decided[w]
    BY DEF Agreement
  <2>2. decided[v] \in Blocks /\ decided[w] \in Blocks
    BY <2>1 DEF Inv, TypeOK
  <2>3. PICK r \in Nat : CommitCert(votes, r, decided[v])
    BY <2>1 DEF Inv, Decisions
  <2>4. PICK s \in Nat : CommitCert(votes, s, decided[w])
    BY <2>1 DEF Inv, Decisions
  <2>5. r <= s \/ s <= r
    OBVIOUS
  <2> QED
    BY <2>1, <2>2, <2>3, <2>4, <2>5, CertificatesAgree
<1> QED
  BY <1>1, Invariance, PTL
=============================================================================
