--------------------------- MODULE TaxisCellProofs ---------------------------
(***************************************************************************)
(* The engine of TaxisCell implements VoteRules, for every cell, every     *)
(* rota and every bound on the rounds, and inherits agreement from it.     *)
(* The same holds when proposals are those of TaxisProposer, and agreement *)
(* also when validators restart and forget (TaxisRestart).                 *)
(*                                                                         *)
(* What links the two is the bookkeeping of the engine: sent_prepare and   *)
(* sent_commit record every vote the validator cast at the height, and the *)
(* lock is the latest block it sent a COMMIT for, with the PREPARE quorum  *)
(* that justified it.                                                      *)
(***************************************************************************)
EXTENDS TaxisRestart, TaxisProposer, FiniteSetTheorems, TLAPS

\* CellParams::is_safe: two quorums of a cell of n validators have at least f + 1
\* members in common, so one of them is not among any f.
LEMMA QuorumsMeet ==
  ASSUME NEW B \in SUBSET Validators, Cardinality(B) <= F,
         NEW S \in SUBSET Validators, NEW T \in SUBSET Validators, IsQuorum(S), IsQuorum(T)
  PROVE  \E v \in Validators \ B : v \in S /\ v \in T
<1>1. /\ IsFiniteSet(S) /\ IsFiniteSet(T) /\ IsFiniteSet(S \cup T) /\ IsFiniteSet(S \cap T)
      /\ IsFiniteSet(B)
  BY CellAssumption, FS_Subset, FS_Union, FS_Intersection
<1>2. Cardinality(S \cup T) = Cardinality(S) + Cardinality(T) - Cardinality(S \cap T)
  BY <1>1, FS_Union
<1>3. Cardinality(S \cup T) <= N
  BY CellAssumption, FS_Subset DEF N
<1>4. N \in Nat /\ Cardinality(S) \in Nat /\ Cardinality(T) \in Nat /\ Cardinality(S \cap T) \in Nat
      /\ Cardinality(S \cup T) \in Nat /\ Cardinality(B) \in Nat
  BY <1>1, CellAssumption, FS_CardinalityType DEF N
<1>5. N >= 1
  BY CellAssumption, FS_EmptySet, <1>4 DEF N
<1>6. 2 * Q >= N + F + 1 /\ F \in Int /\ Q \in Int
  BY <1>4, <1>5 DEF Q, F
<1>7. Cardinality(S \cap T) > Cardinality(B)
  BY <1>2, <1>3, <1>4, <1>6 DEF IsQuorum
<1>8. ~(S \cap T \subseteq B)
  <2>1. SUFFICES ASSUME S \cap T \subseteq B PROVE FALSE
    OBVIOUS
  <2>2. Cardinality(S \cap T) <= Cardinality(B)
    BY <1>1, <2>1, FS_Subset
  <2> QED
    BY <2>2, <1>7, <1>4
<1> QED
  BY <1>8

\* In particular an honest one.
COROLLARY QuorumsShareHonest ==
  ASSUME NEW S \in SUBSET Validators, NEW T \in SUBSET Validators, IsQuorum(S), IsQuorum(T)
  PROVE  \E v \in Honest : v \in S /\ v \in T
BY QuorumsMeet, CellAssumption DEF Honest

\* A quorum stays one as it grows.
LEMMA QuorumsGrow ==
  ASSUME NEW S \in SUBSET Validators, NEW T \in SUBSET Validators, IsQuorum(S), S \subseteq T
  PROVE  IsQuorum(T)
<1>1. IsFiniteSet(T)
  BY CellAssumption, FS_Subset
<1>2. /\ Cardinality(S) <= Cardinality(T)
      /\ Cardinality(S) \in Nat /\ Cardinality(T) \in Nat
  BY <1>1, FS_Subset, FS_CardinalityType
<1>3. N \in Nat
  BY CellAssumption, FS_CardinalityType DEF N
<1> QED
  BY <1>2, <1>3 DEF IsQuorum, Q, F

\* Only validators are counted.
LEMMA VotersAreValidators ==
  ASSUME NEW vs, NEW ph, NEW r, NEW b
  PROVE  VotersIn(vs, ph, r, b) \in SUBSET Validators
BY DEF VotersIn

\* A certificate stays valid as votes are added.
LEMMA CertificatesGrow ==
  ASSUME NEW us, NEW vs, us \subseteq vs, NEW r, NEW b
  PROVE  /\ Polka(us, r, b) => Polka(vs, r, b)
         /\ CommitCert(us, r, b) => CommitCert(vs, r, b)
<1>1. \A ph : VotersIn(us, ph, r, b) \subseteq VotersIn(vs, ph, r, b)
  BY DEF VotersIn
<1> QED
  BY <1>1, VotersAreValidators, QuorumsGrow DEF Polka, CommitCert

\* A vote is its four fields.
LEMMA VoteFields ==
  ASSUME NEW x \in Vote
  PROVE  /\ x.round \in Nat /\ x.voter \in Validators /\ x.block \in Blocks \cup {Nil}
         /\ x.phase \in {"prepare", "commit"}
         /\ x = MkVote(x.phase, x.round, x.block, x.voter)
BY DEF Vote, MkVote

-----------------------------------------------------------------------------

(* The bookkeeping is what a restart loses, so it is stated of a set R of  *)
(* validators: those that have not restarted.  The rest holds of every     *)
(* honest validator.                                                       *)

\* sent_prepare and sent_commit are complete, and no vote is ahead of its round.
Recorded(R) ==
  \A v \in R : \A x \in votes : (Active(v) /\ x.voter = v) =>
     /\ x.round <= round[v]
     /\ x.phase = "prepare" => x.round \in sentPrepare[v]
     /\ x.phase = "commit" => x.round \in sentCommit[v]

\* The lock is proven.
LockIsProven ==
  \A v \in Honest : locked[v] # None =>
     locked[v].round <= round[v] /\ Polka(votes, locked[v].round, locked[v].block)

\* The lock is no older than any COMMIT the validator sent.
LockIsLatest(R) ==
  \A v \in R : \A y \in votes : (Active(v) /\ y.voter = v /\ y.phase = "commit") =>
     /\ locked[v] # None
     /\ y.round <= locked[v].round
     /\ y.round = locked[v].round => y.block = locked[v].block

\* Whoever prepared a block has it until it decides.
PreparedHeld(R) ==
  \A v \in R : \A x \in votes :
     (Active(v) /\ x.voter = v /\ x.phase = "prepare" /\ x.block \in Blocks) => x.block \in held[v]

\* A decision, made or parked, is a certified one.
Certified ==
  \A v \in Honest :
     /\ pending[v] # None => \E r \in Rounds : CommitCert(votes, r, pending[v])
     /\ decided[v] # None => \E r \in Rounds : CommitCert(votes, r, decided[v])

CInv(R) == TypeOK /\ Recorded(R) /\ LockIsProven /\ LockIsLatest(R) /\ PreparedHeld(R) /\ Certified

-----------------------------------------------------------------------------
(* Every handler has one of five effects on the votes.                      *)

Holds(v, b) ==
  /\ Active(v)
  /\ held' = [held EXCEPT ![v] = @ \cup {b}]
  /\ UNCHANGED <<round, sentPrepare, sentCommit, locked, pending, decided, votes>>

Prepares(v, b) ==
  /\ Active(v)
  /\ round[v] \notin sentPrepare[v]
  /\ b \in Blocks => \/ locked[v] = None
                     \/ locked[v].block = b
                     \/ \E p \in Rounds : locked[v].round < p /\ p <= round[v] /\ Polka(votes, p, b)
  /\ Prepare(v, round[v], b)
  /\ held' \in [Honest -> SUBSET Blocks]
  /\ \A w \in Honest : held[w] \subseteq held'[w]
  /\ b \in Blocks => b \in held'[v]
  /\ UNCHANGED <<round, sentCommit, locked, pending, decided>>

Enters(v, r) == Active(v) /\ round[v] < r /\ EnterRound(v, r)

Decides(v, b) ==
  /\ Active(v)
  /\ \E r \in Rounds : CommitCert(votes, r, b)
  /\ \E S : Finalize(v, b, S)

Effect(v) ==
  \/ \E b \in Blocks : Holds(v, b)
  \/ \E b \in Blocks \cup {Nil} : Prepares(v, b)
  \/ \E r \in Rounds : Enters(v, r)
  \/ \E b \in Blocks : CheckPrepared(v, b)
  \/ \E b \in Blocks : Decides(v, b)

\* on_propose, whatever proof of lock comes with the block: one for something else, or
\* none that exists, unlocks nothing.
LEMMA ProposalIsAnEffect ==
  ASSUME TypeOK, Certified, NEW v \in Honest, NEW b \in Blocks, NEW p, OnPropose(v, b, p) PROVE Effect(v)
<1> USE CellConstants DEF TypeOK
<1>1. CASE pending[v] = b
  <2>1. b # None
    BY VotesAssumption
  <2>2. Decides(v, b)
    BY <1>1, <2>1 DEF OnPropose, Decides, Certified
  <2> QED
    BY <2>2 DEF Effect
<1>2. CASE pending[v] # b /\ LockAllows(v, b, p) /\ round[v] \notin sentPrepare[v] /\ ProposerOk(v, b, p)
  <2>1. \/ locked[v] = None
        \/ locked[v].block = b
        \/ \E q \in Rounds : locked[v].round < q /\ q <= round[v] /\ Polka(votes, q, b)
    BY <1>2 DEF LockAllows, UnlocksUs, PolOk, Proofs, Rounds
  <2>2. Prepares(v, b)
    BY <1>2, <2>1 DEF OnPropose, Prepares, Kept
  <2> QED
    BY <2>2 DEF Effect
<1>3. CASE pending[v] # b /\ ~(LockAllows(v, b, p) /\ round[v] \notin sentPrepare[v] /\ ProposerOk(v, b, p))
  BY <1>3 DEF OnPropose, Holds, Effect, Kept
<1> QED
  BY <1>1, <1>2, <1>3

\* Every handler of consensus.rs has one of the five effects.
LEMMA EveryStepIsAnEffect ==
  ASSUME TypeOK, Certified, Next PROVE \E v \in Honest : Effect(v)
<1> USE CellConstants DEF TypeOK
<1>1. PICK v \in Honest :
        \/ OnTimeout(v)
        \/ RoundFailedByVotes(v)
        \/ \E r \in Rounds : MaybeAdvanceRound(v, r)
        \/ \E b \in Blocks : CheckPrepared(v, b)
        \/ \E b \in Blocks : CheckCommitted(v, b)
        \/ \E b \in Blocks : OnCommitCert(v, b)
        \/ \E b \in Blocks : OnBody(v, b)
        \/ \E b \in Blocks : \E p \in Proofs(b) : OnPropose(v, b, p)
  BY DEF Next
<1>2. round[v] \in Rounds /\ round[v] \in Nat
  BY DEF Rounds
<1>3. ASSUME OnTimeout(v) PROVE Effect(v)
  <2>1. CASE round[v] \notin sentPrepare[v]
    <3>1. Nil \notin Blocks
      BY VotesAssumption
    <3>2. Prepares(v, Nil)
      BY <1>3, <2>1, <3>1 DEF OnTimeout, Prepares
    <3> QED
      BY <3>2 DEF Effect
  <2>2. CASE round[v] \in sentPrepare[v]
    <3>1. round[v] + 1 \in Rounds /\ Enters(v, round[v] + 1)
      BY <1>2, <1>3, <2>2 DEF OnTimeout, Enters, Rounds
    <3> QED
      BY <3>1 DEF Effect
  <2> QED
    BY <2>1, <2>2
<1>4. ASSUME RoundFailedByVotes(v) PROVE Effect(v)
  <2>1. round[v] + 1 \in Rounds /\ Enters(v, round[v] + 1)
    BY <1>2, <1>4 DEF RoundFailedByVotes, Enters, Rounds
  <2> QED
    BY <2>1 DEF Effect
<1>5. ASSUME NEW r \in Rounds, MaybeAdvanceRound(v, r) PROVE Effect(v)
  BY <1>5 DEF MaybeAdvanceRound, Enters, Effect
<1>6. ASSUME NEW b \in Blocks, CheckCommitted(v, b) PROVE Effect(v)
  BY <1>2, <1>6 DEF CheckCommitted, Decides, Effect
<1>7. ASSUME NEW b \in Blocks, OnCommitCert(v, b) PROVE Effect(v)
  BY <1>7 DEF OnCommitCert, Decides, Effect
<1>8. ASSUME NEW b \in Blocks, OnBody(v, b) PROVE Effect(v)
  <2>1. CASE pending[v] = b
    <3>1. b # None
      BY VotesAssumption
    <3>2. Decides(v, b)
      BY <1>8, <2>1, <3>1 DEF OnBody, Decides, Certified
    <3> QED
      BY <3>2 DEF Effect
  <2>2. CASE pending[v] # b
    BY <1>8, <2>2 DEF OnBody, Holds, Effect
  <2> QED
    BY <2>1, <2>2
<1>9. ASSUME NEW b \in Blocks, NEW p \in Proofs(b), OnPropose(v, b, p) PROVE Effect(v)
  BY <1>9, ProposalIsAnEffect
<1>10. ASSUME NEW b \in Blocks, CheckPrepared(v, b) PROVE Effect(v)
  BY <1>10 DEF Effect
<1> QED
  BY <1>1, <1>3, <1>4, <1>5, <1>6, <1>7, <1>8, <1>9, <1>10

\* Each effect keeps every variable within its type.
LEMMA TypeStep ==
  ASSUME TypeOK, NEW v \in Honest, Effect(v) PROVE TypeOK'
<1> USE CellConstants DEF TypeOK
<1>0. v \in Validators /\ round[v] \in Rounds /\ Rounds \subseteq Nat /\ 0 \in Rounds
  BY DEF Rounds, Honest
<1>1. ASSUME NEW ph \in {"prepare", "commit"}, NEW r \in Rounds, NEW b \in Blocks \cup {Nil}
      PROVE  MkVote(ph, r, b, v) \in Vote
  BY <1>0 DEF MkVote, Vote
<1>2. ASSUME NEW b \in Blocks, Holds(v, b) PROVE TypeOK'
  BY <1>2 DEF Holds
<1>3. ASSUME NEW b \in Blocks \cup {Nil}, Prepares(v, b) PROVE TypeOK'
  <2>1. MkVote("prepare", round[v], b, v) \in Vote
    BY Zenon, <1>0, <1>1
  <2>2. votes' \subseteq Vote
    BY <1>3, <2>1 DEF Prepares, Prepare
  <2>3. sentPrepare' \in [Honest -> SUBSET Rounds]
    BY <1>0, <1>3 DEF Prepares, Prepare
  <2> QED
    BY <1>3, <2>2, <2>3 DEF Prepares
<1>4. ASSUME NEW r \in Rounds, Enters(v, r) PROVE TypeOK'
  <2>1. CASE RepreparesLock(v, r)
    <3>1. locked[v].block \in Blocks
      BY <2>1 DEF RepreparesLock, Proven
    <3>2. MkVote("prepare", r, locked[v].block, v) \in Vote
      BY <3>1, <1>1
    <3> QED
      BY <1>0, <1>4, <2>1, <3>2 DEF Enters, EnterRound, Prepare
  <2>2. CASE ~RepreparesLock(v, r)
    BY <1>4, <2>2 DEF Enters, EnterRound
  <2> QED
    BY <2>1, <2>2
<1>5. ASSUME NEW b \in Blocks, CheckPrepared(v, b) PROVE TypeOK'
  <2>1. [block |-> b, round |-> round[v]] \in Proven
    BY <1>0 DEF Proven
  <2>2. MkVote("commit", round[v], b, v) \in Vote
    BY Zenon, <1>0, <1>1
  <2> QED
    BY <1>0, <1>5, <2>1, <2>2 DEF CheckPrepared, LockOn
<1>6. ASSUME NEW b \in Blocks, Decides(v, b) PROVE TypeOK'
  BY <1>0, <1>6 DEF Decides, Finalize
<1> QED
  BY <1>2, <1>3, <1>4, <1>5, <1>6 DEF Effect

\* Rounds are ordered: ...
LEMMA RoundOrder ==
  /\ \A a \in Nat : a <= a
  /\ \A a, b, c \in Nat : (a <= b /\ b <= c) => a <= c
  /\ \A a, b \in Nat : a < b => a <= b
OBVIOUS

\* ... and a round from above another up to a third is in the interval after the first.
LEMMA RoundBetween ==
  /\ \A a, b, c \in Nat : (a <= b /\ a # b /\ b <= c) => b \in (a + 1) .. c
  /\ \A a, b, c, d \in Nat : (a <= b /\ b < c /\ c <= d) => c \in (a + 1) .. d
OBVIOUS

\* One validator's part of the bookkeeping: what it voted for is on record, ...
InOrder(w) ==
  \A y \in votes : (Active(w) /\ y.voter = w) =>
     /\ y.round <= round[w]
     /\ y.phase = "prepare" => y.round \in sentPrepare[w]
     /\ y.phase = "commit" => /\ y.round \in sentCommit[w]
                              /\ locked[w] # None /\ y.round <= locked[w].round
                              /\ y.round = locked[w].round => y.block = locked[w].block
     /\ (y.phase = "prepare" /\ y.block \in Blocks) => y.block \in held[w]

\* ... and its lock is proven.
ProvenLock(w) ==
  locked[w] # None => locked[w].round <= round[w] /\ Polka(votes, locked[w].round, locked[w].block)

\* The bookkeeping of a cell is that of its validators, ...
LEMMA InOrderFrom ==
  ASSUME NEW R, Recorded(R), LockIsLatest(R), PreparedHeld(R), NEW w \in R PROVE InOrder(w)
BY DEF InOrder, Recorded, LockIsLatest, PreparedHeld

\* ... after a step as before it.
LEMMA InOrderTo ==
  ASSUME NEW R, \A w \in R : InOrder(w)' PROVE Recorded(R)' /\ LockIsLatest(R)' /\ PreparedHeld(R)'
<1>1. Recorded(R)'
  BY DEF InOrder, Recorded
<1>2. LockIsLatest(R)'
  BY DEF InOrder, LockIsLatest
<1>3. PreparedHeld(R)'
  BY DEF InOrder, PreparedHeld
<1> QED
  BY <1>1, <1>2, <1>3

\* A step of v, which adds only votes of v, leaves the bookkeeping of the others alone.
LEMMA OthersKeep ==
  ASSUME NEW v, NEW w, w # v, votes \subseteq votes', \A y \in votes' : y \in votes \/ y.voter = v,
         decided'[w] = decided[w], round'[w] = round[w], locked'[w] = locked[w],
         sentPrepare'[w] = sentPrepare[w], sentCommit'[w] = sentCommit[w], held[w] \subseteq held'[w]
  PROVE  (InOrder(w) => InOrder(w)') /\ (ProvenLock(w) => ProvenLock(w)')
<1>1. InOrder(w) => InOrder(w)'
  <2> SUFFICES ASSUME InOrder(w), NEW y \in votes', Active(w)', y.voter = w
               PROVE  /\ y.round <= round'[w]
                      /\ y.phase = "prepare" => y.round \in sentPrepare'[w]
                      /\ y.phase = "commit" => /\ y.round \in sentCommit'[w]
                                               /\ locked'[w] # None /\ y.round <= locked'[w].round
                                               /\ y.round = locked'[w].round => y.block = locked'[w].block
                      /\ (y.phase = "prepare" /\ y.block \in Blocks) => y.block \in held'[w]
    BY DEF InOrder
  <2>1. y \in votes /\ Active(w)
    BY DEF Active
  <2> QED
    BY <2>1 DEF InOrder
<1>2. ProvenLock(w) => ProvenLock(w)'
  BY CertificatesGrow DEF ProvenLock
<1> QED
  BY <1>1, <1>2

\* A validator that stands still, while votes of others may arrive, keeps a proven lock.
LEMMA LockStays ==
  ASSUME NEW v, ProvenLock(v), locked'[v] = locked[v], votes \subseteq votes',
         locked[v] # None => locked[v].round <= round'[v]
  PROVE  ProvenLock(v)'
BY CertificatesGrow DEF ProvenLock

\* v's own bookkeeping survives a vote x it adds, when x is on record and, if it is a
\* COMMIT, what v is locked on.
LEMMA OwnVote ==
  ASSUME NEW v, InOrder(v), NEW x, votes' = votes \cup {x}, Active(v),
         \A y \in votes : y.voter = v => y.round <= round'[v],
         sentPrepare[v] \subseteq sentPrepare'[v], sentCommit[v] \subseteq sentCommit'[v],
         held[v] \subseteq held'[v],
         x.round <= round'[v],
         x.phase = "prepare" => x.round \in sentPrepare'[v],
         (x.phase = "prepare" /\ x.block \in Blocks) => x.block \in held'[v],
         x.phase = "commit" => /\ x.round \in sentCommit'[v]
                               /\ locked'[v] # None /\ x.round <= locked'[v].round
                               /\ x.round = locked'[v].round => x.block = locked'[v].block,
         \A y \in votes : (y.voter = v /\ y.phase = "commit") =>
            /\ locked'[v] # None /\ y.round <= locked'[v].round
            /\ y.round = locked'[v].round => y.block = locked'[v].block
  PROVE  InOrder(v)'
<1> SUFFICES ASSUME NEW y \in votes', Active(v)', y.voter = v
             PROVE  /\ y.round <= round'[v]
                    /\ y.phase = "prepare" => y.round \in sentPrepare'[v]
                    /\ y.phase = "commit" => /\ y.round \in sentCommit'[v]
                                             /\ locked'[v] # None /\ y.round <= locked'[v].round
                                             /\ y.round = locked'[v].round => y.block = locked'[v].block
                    /\ (y.phase = "prepare" /\ y.block \in Blocks) => y.block \in held'[v]
  BY DEF InOrder
<1>1. CASE y = x
  BY <1>1
<1>2. CASE y \in votes
  <2>1. /\ y.phase = "prepare" => y.round \in sentPrepare[v]
        /\ y.phase = "commit" => y.round \in sentCommit[v]
        /\ (y.phase = "prepare" /\ y.block \in Blocks) => y.block \in held[v]
    BY <1>2 DEF InOrder
  <2> QED
    BY <1>2, <2>1
<1> QED
  BY <1>1, <1>2

\* The bookkeeping survives every effect: v adds at most one vote, of the round it
\* is in or enters, and records it.
LEMMA CInvStep ==
  ASSUME NEW R \in SUBSET Honest, CInv(R), NEW v \in Honest, Effect(v), TypeOK' PROVE CInv(R)'
<1> DEFINE Goal == (\A w \in Honest : (w \in R => InOrder(w)') /\ ProvenLock(w)') /\ Certified'
<1>0. /\ TypeOK /\ Certified
      /\ \A w \in Honest : ProvenLock(w) /\ (w \in R => InOrder(w))
  BY InOrderFrom DEF CInv, LockIsProven, ProvenLock
<1>d. /\ round \in [Honest -> Rounds] /\ held \in [Honest -> SUBSET Blocks]
      /\ sentPrepare \in [Honest -> SUBSET Rounds] /\ sentCommit \in [Honest -> SUBSET Rounds]
      /\ locked \in [Honest -> Proven \cup {None}] /\ decided \in [Honest -> Blocks \cup {None}]
      /\ pending \in [Honest -> Blocks \cup {None}] /\ votes \subseteq Vote
  BY <1>0 DEF TypeOK
<1>r. Rounds \subseteq Nat
  BY CellConstants DEF Rounds
<1>n. /\ round[v] \in Nat /\ round[v] \in Rounds
      /\ \A y \in votes : y.round \in Nat
  BY Zenon, <1>d, <1>r, VoteFields
<1>l. locked[v] # None => locked[v].round \in Nat
  <2>1. locked[v] \in Proven \cup {None}
    BY <1>d
  <2> QED
    BY Zenon, <2>1, <1>r DEF Proven
<1>2. ASSUME votes \subseteq votes', UNCHANGED <<pending, decided>> PROVE Certified'
  BY <1>0, <1>2, CertificatesGrow DEF Certified
<1>1. ASSUME NEW b \in Blocks, Holds(v, b) PROVE Goal
  <2>1. /\ UNCHANGED <<round, sentPrepare, sentCommit, locked, pending, decided, votes>>
        /\ \A w \in Honest : held[w] \subseteq held'[w]
    BY <1>d, <1>1 DEF Holds
  <2>2. ASSUME NEW w \in Honest PROVE (InOrder(w) => InOrder(w)') /\ (ProvenLock(w) => ProvenLock(w)')
    BY <2>1 DEF InOrder, ProvenLock, Active
  <2> QED
    BY <1>0, <1>2, <2>1, <2>2
<1>3. ASSUME NEW b \in Blocks \cup {Nil}, Prepares(v, b) PROVE Goal
  <2> DEFINE x == MkVote("prepare", round[v], b, v)
  <2>1. /\ votes' = votes \cup {x} /\ Active(v)
        /\ sentPrepare' = [sentPrepare EXCEPT ![v] = @ \cup {round[v]}]
        /\ \A w \in Honest : held[w] \subseteq held'[w]
        /\ b \in Blocks => b \in held'[v]
        /\ UNCHANGED <<round, sentCommit, locked, pending, decided>>
    BY <1>3 DEF Prepares, Prepare
  <2>2. x.phase = "prepare" /\ x.round = round[v] /\ x.voter = v /\ x.block = b
    BY DEF MkVote
  <2> HIDE DEF x
  <2>3. /\ sentPrepare'[v] = sentPrepare[v] \cup {round[v]}
        /\ \A w \in Honest : w # v => sentPrepare'[w] = sentPrepare[w]
    BY <1>d, <2>1
  <2>4. \A w \in Honest : w # v => (InOrder(w) => InOrder(w)') /\ (ProvenLock(w) => ProvenLock(w)')
    BY Zenon, <2>1, <2>2, <2>3, OthersKeep
  <2>5. ProvenLock(v)'
    BY Zenon, <1>0, <2>1, LockStays DEF ProvenLock
  <2>6. ASSUME v \in R PROVE InOrder(v)'
    <3>1. /\ \A y \in votes : y.voter = v => y.round <= round'[v]
          /\ \A y \in votes : (y.voter = v /\ y.phase = "commit") =>
                /\ locked'[v] # None /\ y.round <= locked'[v].round
                /\ y.round = locked'[v].round => y.block = locked'[v].block
      BY Zenon, <1>0, <2>1, <2>6 DEF InOrder
    <3>2. x.round <= round'[v]
      BY <1>n, <2>1, <2>2, RoundOrder
    <3> QED
      BY <1>0, <2>1, <2>2, <2>3, <2>6, <3>1, <3>2, OwnVote
  <2> QED
    BY Zenon, <1>0, <1>2, <2>1, <2>4, <2>5, <2>6
<1>4. ASSUME NEW r \in Rounds, Enters(v, r) PROVE Goal
  <2>1. /\ round' = [round EXCEPT ![v] = r] /\ round[v] < r /\ Active(v)
        /\ UNCHANGED <<held, sentCommit, locked, pending, decided>>
    BY <1>4 DEF Enters, EnterRound
  <2>2. round'[v] = r /\ \A w \in Honest : w # v => round'[w] = round[w]
    BY <1>d, <2>1
  <2>3. r \in Nat /\ round[v] <= r
    BY <1>n, <1>r, <2>1
  <2>4. ASSUME v \in R, NEW y \in votes, y.voter = v
        PROVE  /\ y.round <= r
               /\ y.phase = "commit" => /\ locked[v] # None /\ y.round <= locked[v].round
                                        /\ y.round = locked[v].round => y.block = locked[v].block
    <3>1. /\ y.round <= round[v]
          /\ y.phase = "commit" => /\ locked[v] # None /\ y.round <= locked[v].round
                                   /\ y.round = locked[v].round => y.block = locked[v].block
      BY <1>0, <2>1, <2>4 DEF InOrder
    <3>2. y.round <= r
      BY <1>n, <2>3, <3>1
    <3> QED
      BY <3>1, <3>2
  <2>5. locked[v] # None => locked[v].round <= r
    <3>1. locked[v] # None => locked[v].round <= round[v]
      BY <1>0 DEF ProvenLock
    <3> QED
      BY <1>n, <1>l, <2>3, <3>1
  <2>6. CASE RepreparesLock(v, r)
    <3> DEFINE x == MkVote("prepare", r, locked[v].block, v)
    <3>1. /\ votes' = votes \cup {x}
          /\ sentPrepare' = [sentPrepare EXCEPT ![v] = @ \cup {r}]
          /\ locked[v].block \in held[v]
      BY <1>4, <2>6 DEF Enters, EnterRound, Prepare, RepreparesLock
    <3>2. x.phase = "prepare" /\ x.round = r /\ x.voter = v /\ x.block = locked[v].block
      BY DEF MkVote
    <3> HIDE DEF x
    <3>3. /\ sentPrepare'[v] = sentPrepare[v] \cup {r}
          /\ \A w \in Honest : w # v => sentPrepare'[w] = sentPrepare[w]
      BY <1>d, <3>1
    <3>4. \A w \in Honest : w # v => (InOrder(w) => InOrder(w)') /\ (ProvenLock(w) => ProvenLock(w)')
      BY SMTT(60), <2>1, <2>2, <3>1, <3>2, <3>3, OthersKeep
    <3>5. ProvenLock(v)'
      BY <1>0, <2>1, <2>2, <2>5, <3>1, LockStays
    <3>6. ASSUME v \in R PROVE InOrder(v)'
      <4>1. x.round <= round'[v]
        BY <2>2, <2>3, <3>2
      <4>2. /\ \A y \in votes : y.voter = v => y.round <= round'[v]
            /\ \A y \in votes : (y.voter = v /\ y.phase = "commit") =>
                  /\ locked'[v] # None /\ y.round <= locked'[v].round
                  /\ y.round = locked'[v].round => y.block = locked'[v].block
        BY <2>1, <2>2, <2>4, <3>6
      <4> QED
        BY <1>0, <2>1, <3>1, <3>2, <3>3, <3>6, <4>1, <4>2, OwnVote
    <3> QED
      BY <1>0, <1>2, <2>1, <3>1, <3>4, <3>5, <3>6
  <2>7. CASE ~RepreparesLock(v, r)
    <3>1. UNCHANGED <<votes, sentPrepare>>
      BY <1>4, <2>7 DEF Enters, EnterRound
    <3>2. \A w \in Honest : w # v => (InOrder(w) => InOrder(w)') /\ (ProvenLock(w) => ProvenLock(w)')
      BY SMTT(60), <2>1, <2>2, <3>1, OthersKeep
    <3>3. ProvenLock(v)'
      BY Zenon, <1>0, <2>1, <2>2, <2>5, <3>1, LockStays
    <3>4. ASSUME v \in R PROVE InOrder(v)'
      <4>1. \A y \in votes : y.voter = v => y.round <= round'[v]
        BY <2>2, <2>4, <3>4
      <4> QED
        BY <1>0, <2>1, <3>1, <3>4, <4>1 DEF InOrder, Active
    <3> QED
      BY <1>0, <1>2, <2>1, <3>1, <3>2, <3>3, <3>4
  <2> QED
    BY <2>6, <2>7
<1>5. ASSUME NEW b \in Blocks, CheckPrepared(v, b) PROVE Goal
  <2> DEFINE x == MkVote("commit", round[v], b, v)
             lock == [block |-> b, round |-> round[v]]
  <2>1. /\ votes' = votes \cup {x} /\ Active(v)
        /\ sentCommit' = [sentCommit EXCEPT ![v] = @ \cup {round[v]}]
        /\ locked' = [locked EXCEPT ![v] = lock]
        /\ round[v] \notin sentCommit[v] /\ Polka(votes, round[v], b)
        /\ UNCHANGED <<round, held, sentPrepare, pending, decided>>
    BY <1>5 DEF CheckPrepared, LockOn
  <2>2. x.phase = "commit" /\ x.round = round[v] /\ x.voter = v /\ x.block = b
    BY DEF MkVote
  <2>3. lock # None /\ lock.block = b /\ lock.round = round[v]
    BY <1>n, CellConstants DEF Proven
  <2> HIDE DEF x, lock
  <2>4. /\ sentCommit'[v] = sentCommit[v] \cup {round[v]}
        /\ \A w \in Honest : w # v => sentCommit'[w] = sentCommit[w]
    BY <1>d, <2>1
  <2>5. locked'[v] = lock /\ \A w \in Honest : w # v => locked'[w] = locked[w]
    BY <1>d, <2>1
  <2>6. \A w \in Honest : w # v => (InOrder(w) => InOrder(w)') /\ (ProvenLock(w) => ProvenLock(w)')
    BY Zenon, <2>1, <2>2, <2>4, <2>5, OthersKeep
  <2>7. ProvenLock(v)'
    <3>1. Polka(votes', round[v], b)
      BY <2>1, CertificatesGrow
    <3>2. round[v] <= round[v]
      BY <1>n
    <3> QED
      BY <2>1, <2>3, <2>5, <3>1, <3>2 DEF ProvenLock
  <2>8. ASSUME v \in R PROVE InOrder(v)'
    <3>1. ASSUME NEW y \in votes, y.voter = v
          PROVE  y.round <= round[v] /\ (y.phase = "commit" => y.round # round[v])
      BY Zenon, <1>0, <2>1, <2>8, <3>1 DEF InOrder
    <3>2. x.round <= round[v]
      BY <1>n, <2>2
    <3>3. \A y \in votes : (y.voter = v /\ y.phase = "commit") =>
            /\ locked'[v] # None /\ y.round <= locked'[v].round
            /\ y.round = locked'[v].round => y.block = locked'[v].block
      BY <2>3, <2>5, <3>1
    <3>4. x.phase = "commit" => /\ x.round \in sentCommit'[v]
                                /\ locked'[v] # None /\ x.round <= locked'[v].round
                                /\ x.round = locked'[v].round => x.block = locked'[v].block
      BY <2>2, <2>3, <2>4, <2>5, <3>2
    <3>5. x.phase # "prepare"
      BY <2>2
    <3> QED
      BY Zenon, <1>0, <2>1, <2>4, <2>8, <3>1, <3>2, <3>3, <3>4, <3>5, OwnVote
  <2> QED
    BY <1>0, <1>2, <2>1, <2>6, <2>7, <2>8
<1>6. ASSUME NEW b \in Blocks, Decides(v, b) PROVE Goal
  <2>1. votes' = votes /\ \E r \in Rounds : CommitCert(votes, r, b)
    BY <1>6 DEF Decides, Finalize
  <2>2. CASE /\ decided' = [decided EXCEPT ![v] = b] /\ pending' = [pending EXCEPT ![v] = None]
             /\ round' = [round EXCEPT ![v] = 0] /\ held' = [held EXCEPT ![v] = {}]
             /\ sentPrepare' = [sentPrepare EXCEPT ![v] = {}]
             /\ sentCommit' = [sentCommit EXCEPT ![v] = {}]
             /\ locked' = [locked EXCEPT ![v] = None]
    <3>1. \A w \in Honest : w # v =>
            /\ decided'[w] = decided[w] /\ pending'[w] = pending[w] /\ round'[w] = round[w]
            /\ held'[w] = held[w] /\ locked'[w] = locked[w]
            /\ sentPrepare'[w] = sentPrepare[w] /\ sentCommit'[w] = sentCommit[w]
      BY <1>d, <2>2
    <3>2. decided'[v] = b /\ pending'[v] = None /\ locked'[v] = None /\ b # None
      BY <1>d, <2>2, VotesAssumption
    <3>3. \A w \in Honest : w # v => (InOrder(w) => InOrder(w)') /\ (ProvenLock(w) => ProvenLock(w)')
      BY Zenon, <2>1, <3>1, OthersKeep
    <3>4. InOrder(v)' /\ ProvenLock(v)'
      BY Zenon, <3>2 DEF InOrder, ProvenLock, Active
    <3>5. Certified'
      BY <1>0, <2>1, <3>1, <3>2 DEF Certified
    <3> QED
      BY <1>0, <3>3, <3>4, <3>5
  <2>3. CASE /\ pending' = [pending EXCEPT ![v] = b]
             /\ UNCHANGED <<round, held, sentPrepare, sentCommit, locked, decided>>
    <3>1. \A w \in Honest : pending'[w] = b \/ pending'[w] = pending[w]
      BY <1>d, <2>3
    <3>2. Certified'
      BY <1>0, <2>1, <2>3, <3>1 DEF Certified
    <3>3. \A w \in Honest : (InOrder(w) => InOrder(w)') /\ (ProvenLock(w) => ProvenLock(w)')
      BY ZenonT(60), <2>1, <2>3 DEF InOrder, ProvenLock, Active
    <3> QED
      BY <1>0, <3>2, <3>3
  <2> QED
    BY <1>6, <2>2, <2>3 DEF Decides, Finalize
<1>7. Goal
  BY <1>1, <1>3, <1>4, <1>5, <1>6 DEF Effect
<1>8. Recorded(R)' /\ LockIsLatest(R)' /\ PreparedHeld(R)'
  BY <1>7, InOrderTo
<1>9. LockIsProven'
  BY <1>7 DEF LockIsProven, ProvenLock
<1> QED
  BY <1>7, <1>8, <1>9 DEF CInv

-----------------------------------------------------------------------------
(* The simulation.                                                          *)

\* The instance's notions of vote and certificate are this module's.
LEMMA SameNotions ==
  /\ VR!Vote = Vote /\ VR!Honest = Honest
  /\ \A vs, r, b : VR!Polka(vs, r, b) <=> Polka(vs, r, b)
  /\ \A vs, r, b : VR!CommitCert(vs, r, b) <=> CommitCert(vs, r, b)
BY DEF VR!Vote, Vote, VR!Honest, Honest, VR!Polka, Polka, VR!CommitCert, CommitCert,
       VR!IsQuorum, IsQuorum, VR!VotersIn, VotersIn, VR!MkVote, MkVote,
       VR!Q, Q, VR!F, F, VR!N, N, VR!Cardinality, Cardinality

\* A cell of fresh engines is an initial state of the abstract cell.
LEMMA InitRefines ==
  ASSUME Init PROVE VR!Init
<1>1. RoundOf = [v \in Honest |-> 0]
  BY VotesAssumption DEF Init, RoundOf, Active
<1>2. \A x \in votes : x \in Vote /\ x.voter \in Byzantine
  BY CellAssumption, CellConstants DEF Init, Vote, Rounds
<1> QED
  BY <1>1, <1>2, SameNotions DEF Init, VR!Init

\* Rounds are natural numbers, the one past the last included.
LEMMA RoundsAreNat == Rounds \subseteq Nat /\ 0 \in Rounds
BY CellConstants DEF Rounds

\* ... in the abstraction too.
LEMMA RoundOfType ==
  ASSUME TypeOK PROVE \A v \in Honest : RoundOf[v] \in Nat /\ round[v] \in Nat
BY CellConstants DEF TypeOK, RoundOf, Rounds

\* Adding one vote x of v, in the round v is in or moves to, is an honest step when
\* it keeps the three rules.
LEMMA AddVote ==
  ASSUME NEW R \in SUBSET Honest, CInv(R), TypeOK', NEW v \in R, Active(v), UNCHANGED decided,
         NEW r \in Rounds, round' = [round EXCEPT ![v] = r], round[v] <= r,
         NEW x \in Vote, votes' = votes \cup {x}, x.voter = v, x.round = r,
         \A y \in votes : (y.voter = v /\ y.phase = x.phase) => y.round # r,
         x.phase = "commit" => x.block \in Blocks /\ Polka(votes, r, x.block),
         x.phase = "prepare" /\ x.block \in Blocks => 
            \/ locked[v] = None
            \/ locked[v].block = x.block
            \/ \E p \in Rounds : locked[v].round < p /\ p <= r /\ Polka(votes, p, x.block)
  PROVE  VR!HonestStep(v)
<1> DEFINE D == votes' \ votes
<1>1. /\ RoundOf[v] = round[v] /\ RoundOf'[v] = r /\ r \in Nat /\ round[v] \in Nat
      /\ RoundOf' = [RoundOf EXCEPT ![v] = RoundOf'[v]]
  <2>1. r \in Nat /\ round[v] \in Nat
    BY Zenon, RoundsAreNat DEF CInv, TypeOK
  <2>2. RoundOf[v] = round[v]
    BY DEF RoundOf
  <2>3. RoundOf' = [w \in Honest |-> IF Active(w) THEN round'[w] ELSE MaxRound + 1]
    <3>1. \A w \in Honest : Active(w)' <=> Active(w)
      BY DEF Active
    <3> QED
      BY <3>1 DEF RoundOf
  <2>4. \A w \in Honest : w # v => round'[w] = round[w]
    BY DEF CInv, TypeOK
  <2>5. round'[v] = r
    BY DEF CInv, TypeOK
  <2>6. RoundOf'[v] = r /\ \A w \in Honest : w # v => RoundOf'[w] = RoundOf[w]
    BY <2>3, <2>4, <2>5 DEF RoundOf
  <2>7. RoundOf' = [RoundOf EXCEPT ![v] = RoundOf'[v]]
    <3> DEFINE g == [RoundOf EXCEPT ![v] = RoundOf'[v]]
    <3>1. RoundOf = [w \in Honest |-> RoundOf[w]]
      BY DEF RoundOf
    <3>2. g = [w \in Honest |-> IF w = v THEN RoundOf'[v] ELSE RoundOf[w]]
      BY <3>1
    <3>3. RoundOf' = [w \in Honest |-> RoundOf'[w]]
      BY <2>3
    <3> QED
      BY <3>2, <3>3, <2>6
  <2> QED
    BY <2>1, <2>2, <2>6, <2>7
<1>2. D \subseteq {x} /\ votes \subseteq votes' /\ votes \cup D = votes'
  OBVIOUS
<1>3. VR!OnePerRound(v, votes, D)
  BY <1>2 DEF VR!OnePerRound
<1>4. VR!CommitsBacked(votes, D)
  BY Zenon, <1>2, SameNotions, CertificatesGrow DEF VR!CommitsBacked
<1>5. VR!LockRespected(v, votes, D)
  <2>1. SUFFICES ASSUME NEW y \in votes', x \in D, x.phase = "prepare", x.block \in Blocks,
                        y.voter = v, y.phase = "commit", y.round < x.round, y.block # x.block
                 PROVE  \E p \in (y.round + 1) .. x.round : Polka(votes, p, x.block)
    BY ZenonT(60), <1>2, SameNotions DEF VR!LockRespected
  <2>2. y \in votes /\ y.round \in Nat
    BY Zenon, <2>1, VoteFields DEF CInv, TypeOK
  <2>3. /\ locked[v] # None /\ y.round <= locked[v].round
        /\ y.round = locked[v].round => y.block = locked[v].block
        /\ locked[v].round <= round[v] /\ Polka(votes, locked[v].round, locked[v].block)
    BY <2>1, <2>2 DEF CInv, LockIsProven, LockIsLatest
  <2>4. locked[v].round \in Nat /\ Rounds \subseteq Nat
    <3>1. locked[v] \in Proven
      BY Zenon, <2>3 DEF CInv, TypeOK
    <3> QED
      BY <3>1, RoundsAreNat DEF Proven
  <2>5. CASE locked[v].block = x.block
    <3>1. y.round # locked[v].round
      BY <2>1, <2>3, <2>5
    <3>2. locked[v].round <= x.round
      BY <1>1, <2>3, <2>4, RoundOrder
    <3>3. x.round \in Nat
      BY <1>1
    <3>4. locked[v].round \in (y.round + 1) .. x.round
      BY <2>2, <2>3, <2>4, <3>1, <3>2, <3>3, RoundBetween
    <3> QED
      BY Zenon, <2>3, <2>5, <3>4
  <2>6. CASE \E p \in Rounds : locked[v].round < p /\ p <= r /\ Polka(votes, p, x.block)
    <3>1. PICK p \in Rounds : locked[v].round < p /\ p <= r /\ Polka(votes, p, x.block)
      BY <2>6
    <3>2. p \in Nat /\ r \in Nat
      BY Zenon, <1>1, <2>4
    <3>3. p \in (y.round + 1) .. r
      BY Zenon, <2>2, <2>3, <2>4, <3>1, <3>2, RoundBetween
    <3> QED
      BY <3>1, <3>3
  <2> QED
    BY SMTT(60), <2>1, <2>3, <2>5, <2>6
<1>6. VR!Cast(v, RoundOf[v], RoundOf'[v], votes, D)
  <2>1. RoundOf[v] <= RoundOf'[v] /\ RoundOf[v] <= r /\ r <= RoundOf'[v]
    BY <1>1
  <2>2. ASSUME NEW y \in D
        PROVE  y \in VR!Vote /\ y.voter = v /\ RoundOf[v] <= y.round /\ y.round <= RoundOf'[v]
    <3>1. y = x
      BY Zenon, <1>2
    <3> QED
      BY <2>1, <3>1, SameNotions
  <2> QED
    BY Zenon, <1>3, <1>4, <1>5, <2>1, <2>2 DEF VR!Cast
<1> QED
  BY <1>1, <1>2, <1>6 DEF VR!HonestStep

\* Leaving the round or the height without a vote is an honest step too.
LEMMA MoveOn ==
  ASSUME TypeOK, TypeOK', NEW v \in Honest, Active(v), UNCHANGED votes,
         \A w \in Honest : w # v => RoundOf'[w] = RoundOf[w],
         RoundOf[v] <= RoundOf'[v],
         \/ UNCHANGED decided
         \/ \E b \in Blocks : /\ decided' = [decided EXCEPT ![v] = b]
                              /\ \E r \in Rounds : CommitCert(votes, r, b)
  PROVE  VR!HonestStep(v)
<1>1. RoundOf' = [RoundOf EXCEPT ![v] = RoundOf'[v]]
  <2>1. RoundOf = [w \in Honest |-> RoundOf[w]] /\ RoundOf' = [w \in Honest |-> RoundOf'[w]]
    BY DEF RoundOf
  <2> QED
    BY <2>1
<1>2. RoundOf'[v] \in Nat
  BY CellConstants DEF TypeOK, RoundOf, Rounds
<1>3. VR!Cast(v, RoundOf[v], RoundOf'[v], votes, votes' \ votes)
  BY Zenon DEF VR!Cast, VR!OnePerRound, VR!CommitsBacked, VR!LockRespected
<1>4. ASSUME NEW b \in Blocks, NEW r \in Rounds, CommitCert(votes, r, b),
             decided' = [decided EXCEPT ![v] = b]
      PROVE  /\ decided[v] = None
             /\ decided' = [decided EXCEPT ![v] = decided'[v]]
             /\ VR!MayDecide(decided'[v], votes')
  <2>1. PICK w \in Honest : w \in VotersIn(votes, "commit", r, b)
    BY <1>4, QuorumsShareHonest, VotersAreValidators DEF CommitCert
  <2>2. MkVote("commit", r, b, w) \in votes /\ MkVote("commit", r, b, w).round = r
    BY <2>1 DEF VotersIn, MkVote
  <2>3. decided'[v] = b
    BY Zenon, <1>4 DEF TypeOK
  <2> QED
    BY ZenonT(60), <1>4, <2>2, <2>3, SameNotions DEF VR!MayDecide, Active
<1> QED
  BY <1>1, <1>2, <1>3, <1>4 DEF VR!HonestStep

\* A validator that has kept its books takes an honest step, or none the rules see.
LEMMA StepRefines ==
  ASSUME NEW R \in SUBSET Honest, CInv(R), TypeOK', NEW v \in R, Effect(v)
  PROVE  VR!HonestStep(v) \/ UNCHANGED <<RoundOf, votes, decided>>
<1>0. /\ TypeOK /\ Recorded(R) /\ v \in Validators /\ v \in Honest
      /\ round[v] \in Rounds /\ round[v] \in Nat /\ Rounds \subseteq Nat
  BY Zenon, RoundsAreNat DEF CInv, TypeOK, Honest
<1>2. ASSUME NEW b \in Blocks, Holds(v, b) PROVE UNCHANGED <<RoundOf, votes, decided>>
  BY Zenon, <1>2 DEF Holds, RoundOf, Active
<1>3. ASSUME NEW b \in Blocks \cup {Nil}, Prepares(v, b) PROVE VR!HonestStep(v)
  <2> DEFINE x == MkVote("prepare", round[v], b, v)
  <2>1. x \in Vote /\ x.voter = v /\ x.round = round[v] /\ x.phase = "prepare" /\ x.block = b
    BY <1>0 DEF MkVote, Vote
  <2>2. /\ votes' = votes \cup {x} /\ UNCHANGED <<round, decided>> /\ Active(v)
        /\ round[v] \notin sentPrepare[v]
    BY <1>3 DEF Prepares, Prepare
  <2>3. round' = [round EXCEPT ![v] = round[v]]
    BY <1>0, <2>2 DEF TypeOK
  <2>4. \A y \in votes : (y.voter = v /\ y.phase = "prepare") => y.round # round[v]
    BY <1>0, <2>2 DEF Recorded
  <2>5. b \in Blocks => \/ locked[v] = None
                        \/ locked[v].block = b
                        \/ \E p \in Rounds : locked[v].round < p /\ p <= round[v] /\ Polka(votes, p, b)
    BY Zenon, <1>3 DEF Prepares
  <2> HIDE DEF x
  <2> QED
    <3>1. x.phase = "commit" => x.block \in Blocks /\ Polka(votes, round[v], x.block)
      BY <2>1
    <3>2. x.phase = "prepare" /\ x.block \in Blocks =>
            \/ locked[v] = None
            \/ locked[v].block = x.block
            \/ \E p \in Rounds : locked[v].round < p /\ p <= round[v] /\ Polka(votes, p, x.block)
      BY <2>1, <2>5
    <3>3. \A y \in votes : (y.voter = v /\ y.phase = x.phase) => y.round # round[v]
      BY <2>1, <2>4
    <3>4. round[v] <= round[v] /\ round[v] \in Rounds
      BY <1>0
    <3>5. Active(v) /\ UNCHANGED decided /\ votes' = votes \cup {x}
      BY <2>2
    <3> QED
      BY <2>1, <2>3, <3>1, <3>2, <3>3, <3>4, <3>5, AddVote, ZenonT(60)
<1>4. ASSUME NEW r \in Rounds, Enters(v, r) PROVE VR!HonestStep(v)
  <2>1. /\ round' = [round EXCEPT ![v] = r] /\ round[v] < r /\ Active(v)
        /\ UNCHANGED <<sentCommit, locked, decided>>
    BY <1>4 DEF Enters, EnterRound
  <2>2. CASE RepreparesLock(v, r)
    <3> DEFINE x == MkVote("prepare", r, locked[v].block, v)
    <3>1. locked[v].block \in Blocks
      BY <1>0, <2>2 DEF RepreparesLock, TypeOK, Proven
    <3>2. x \in Vote /\ x.voter = v /\ x.round = r /\ x.phase = "prepare" /\ x.block = locked[v].block
      BY <1>0, <3>1 DEF MkVote, Vote
    <3>3. votes' = votes \cup {x}
      BY <1>4, <2>2 DEF Enters, EnterRound, Prepare
    <3>4. \A y \in votes : (y.voter = v /\ y.phase = "prepare") => y.round # r
      <4>1. r \notin sentPrepare[v]
        BY <2>2 DEF RepreparesLock
      <4> QED
        BY Zenon, <1>0, <2>1, <4>1 DEF Recorded
    <3> HIDE DEF x
    <3> QED
      <4>1. x.phase = "commit" => x.block \in Blocks /\ Polka(votes, r, x.block)
        BY <3>2
      <4>2. x.phase = "prepare" /\ x.block \in Blocks =>
              \/ locked[v] = None
              \/ locked[v].block = x.block
              \/ \E p \in Rounds : locked[v].round < p /\ p <= r /\ Polka(votes, p, x.block)
        BY <3>2
      <4>3. \A y \in votes : (y.voter = v /\ y.phase = x.phase) => y.round # r
        BY <3>2, <3>4
      <4>4. round[v] <= r
        BY <1>0, <2>1
      <4> QED
        BY ZenonT(60), <2>1, <3>2, <3>3, <4>1, <4>2, <4>3, <4>4, AddVote
  <2>3. CASE ~RepreparesLock(v, r)
    <3>1. UNCHANGED votes
      BY <1>4, <2>3 DEF Enters, EnterRound
    <3>2. RoundOf[v] = round[v] /\ RoundOf'[v] = r /\ \A w \in Honest : w # v => RoundOf'[w] = RoundOf[w]
      BY <1>0, <2>1 DEF RoundOf, Active, TypeOK
    <3>3. RoundOf[v] <= RoundOf'[v]
      <4>1. round[v] \in Nat /\ r \in Nat
        BY <1>0
      <4> QED
        BY <2>1, <3>2, <4>1, RoundOrder
    <3>4. TypeOK /\ Active(v) /\ v \in Honest /\ UNCHANGED decided
      BY <1>0, <2>1
    <3> QED
      BY Zenon, <3>1, <3>2, <3>3, <3>4, MoveOn
  <2> QED
    BY <2>2, <2>3
<1>5. ASSUME NEW b \in Blocks, CheckPrepared(v, b) PROVE VR!HonestStep(v)
  <2> DEFINE x == MkVote("commit", round[v], b, v)
  <2>1. x \in Vote /\ x.voter = v /\ x.round = round[v] /\ x.phase = "commit" /\ x.block = b
    BY <1>0 DEF MkVote, Vote
  <2>2. /\ votes' = votes \cup {x} /\ UNCHANGED <<round, decided>> /\ Active(v)
        /\ round[v] \notin sentCommit[v] /\ Polka(votes, round[v], b)
    BY <1>5 DEF CheckPrepared, LockOn
  <2>3. round' = [round EXCEPT ![v] = round[v]]
    BY <1>0, <2>2 DEF TypeOK
  <2>4. \A y \in votes : (y.voter = v /\ y.phase = "commit") => y.round # round[v]
    BY Zenon, <1>0, <2>2 DEF Recorded
  <2> HIDE DEF x
  <2> QED
    <3>1. x.phase = "commit" => x.block \in Blocks /\ Polka(votes, round[v], x.block)
      BY Zenon, <2>1, <2>2
    <3>2. x.phase = "prepare" /\ x.block \in Blocks =>
            \/ locked[v] = None
            \/ locked[v].block = x.block
            \/ \E p \in Rounds : locked[v].round < p /\ p <= round[v] /\ Polka(votes, p, x.block)
      BY Zenon, <2>1
    <3>3. \A y \in votes : (y.voter = v /\ y.phase = x.phase) => y.round # round[v]
      BY <2>1, <2>4
    <3>4. round[v] <= round[v] /\ round[v] \in Rounds
      BY <1>0
    <3>5. Active(v) /\ UNCHANGED decided /\ votes' = votes \cup {x}
      BY <2>2
    <3> QED
      BY ZenonT(60), <2>1, <2>3, <3>1, <3>2, <3>3, <3>4, <3>5, AddVote
<1>6. ASSUME NEW b \in Blocks, Decides(v, b)
      PROVE  VR!HonestStep(v) \/ UNCHANGED <<RoundOf, votes, decided>>
  <2>1. CASE UNCHANGED <<round, decided, votes>>
    BY <2>1 DEF RoundOf, Active
  <2>2. CASE decided' = [decided EXCEPT ![v] = b] /\ round' = [round EXCEPT ![v] = 0] /\ UNCHANGED votes
    <3>1. Active(v) /\ \E r \in Rounds : CommitCert(votes, r, b)
      BY <1>6 DEF Decides
    <3>2. decided'[v] = b /\ b # None
      BY <1>0, <2>2, VotesAssumption DEF TypeOK
    <3>3. RoundOf[v] = round[v] /\ RoundOf'[v] = MaxRound + 1
      BY Zenon, <1>0, <3>1, <3>2 DEF RoundOf, Active
    <3>4. \A w \in Honest : w # v => RoundOf'[w] = RoundOf[w]
      BY <1>0, <2>2 DEF RoundOf, Active, TypeOK
    <3>5. RoundOf[v] <= RoundOf'[v]
      <4>1. MaxRound \in Nat /\ round[v] <= MaxRound
        BY <1>0, CellConstants DEF Rounds
      <4> QED
        BY <1>0, <3>3, <4>1
    <3>6. \E c \in Blocks : /\ decided' = [decided EXCEPT ![v] = c]
                             /\ \E r \in Rounds : CommitCert(votes, r, c)
      BY Zenon, <2>2, <3>1
    <3>7. TypeOK /\ UNCHANGED votes
      BY <1>0, <2>2
    <3> QED
      BY Zenon, <3>1, <3>4, <3>5, <3>6, <3>7, MoveOn
  <2> QED
    BY <1>6, <2>1, <2>2 DEF Decides, Finalize
<1> QED
  BY <1>2, <1>3, <1>4, <1>5, <1>6 DEF Effect

-----------------------------------------------------------------------------
(* The theorems.                                                            *)

\* Nothing has been voted by an honest validator at first.
LEMMA CInvInitially ==
  ASSUME Init, NEW R \in SUBSET Honest PROVE CInv(R)
<1> USE CellConstants
<1>1. TypeOK
  <2>1. 0 \in Rounds /\ Rounds \subseteq Nat
    BY DEF Rounds
  <2>2. votes \subseteq Vote
    BY Zenon, <2>1, CellAssumption DEF Init, Vote
  <2> QED
    BY <2>1, <2>2 DEF Init, TypeOK
<1>2. \A x \in votes : x.voter \notin Honest
  BY DEF Init, Honest
<1>3. Recorded(R) /\ LockIsLatest(R) /\ PreparedHeld(R)
  BY <1>2 DEF Recorded, LockIsLatest, PreparedHeld
<1>4. LockIsProven /\ Certified
  BY DEF Init, LockIsProven, Certified
<1> QED
  BY <1>1, <1>3, <1>4 DEF CInv

\* Every handler keeps the bookkeeping, of whichever validators have kept theirs so far.
LEMMA CInvNext ==
  ASSUME NEW R \in SUBSET Honest, CInv(R), [Next]_vars PROVE CInv(R)'
<1>1. CASE Next
  <2>1. PICK v \in Honest : Effect(v)
    BY <1>1, EveryStepIsAnEffect DEF CInv
  <2>2. TypeOK'
    BY <2>1, TypeStep DEF CInv
  <2> QED
    BY <2>1, <2>2, CInvStep
<1>2. CASE UNCHANGED vars
  BY Zenon, <1>2 DEF vars, CInv, TypeOK, Recorded, LockIsProven, LockIsLatest, PreparedHeld, Certified, Active
<1> QED
  BY <1>1, <1>2

\* The engine's bookkeeping invariant.
THEOREM CInvariance == Spec => []CInv(Honest)
<1>1. CInv(Honest) /\ [Next]_vars => CInv(Honest)'
  BY CInvNext
<1>2. Init => CInv(Honest)
  BY CInvInitially
<1> QED
  BY <1>1, <1>2, PTL DEF Spec

\* Every variable of the engine keeps its type.
THEOREM TypeCorrect == Spec => []TypeOK
<1>1. CInv(Honest) => TypeOK
  BY DEF CInv
<1> QED
  BY <1>1, CInvariance, PTL

\* Every effect is a step of the abstract cell.
LEMMA EffectRefines ==
  ASSUME CInv(Honest), NEW v \in Honest, Effect(v) PROVE [VR!Next]_(VR!vars)
<1>1. TypeOK'
  BY TypeStep DEF CInv
<1>2. VR!HonestStep(v) \/ UNCHANGED <<RoundOf, votes, decided>>
  BY <1>1, StepRefines
<1> QED
  BY <1>2, SameNotions DEF VR!Next, VR!vars

\* A step that leaves the engines alone leaves the abstract cell alone.
LEMMA StutterRefines == ASSUME UNCHANGED vars PROVE UNCHANGED VR!vars
BY DEF vars, VR!vars, RoundOf, Active

\* The engine casts only votes that VoteRules allows, and decides only as it
\* allows: every handler of consensus.rs is a step of the abstract cell.
THEOREM Implements == Spec => ImplementsVoteRules
<1>1. CInv(Honest) /\ [Next]_vars => [VR!Next]_(VR!vars)
  <2>1. SUFFICES ASSUME CInv(Honest), [Next]_vars PROVE [VR!Next]_(VR!vars)
    OBVIOUS
  <2>2. CASE Next
    BY <2>1, <2>2, EveryStepIsAnEffect, EffectRefines DEF CInv
  <2>3. CASE UNCHANGED vars
    BY <2>3, StutterRefines
  <2> QED
    BY <2>1, <2>2, <2>3
<1>2. Init => VR!Init
  BY InitRefines
<1> QED
  BY <1>1, <1>2, CInvariance, PTL DEF Spec, ImplementsVoteRules, VR!Spec

-----------------------------------------------------------------------------
(* Proposing.  What maybe_propose sends and the lottery of round 0 picks   *)
(* is prepared under the same two gates as any other proposal.             *)

\* prepare_round0_min votes at most once, and for a block the lock allows.
LEMMA LotteryIsAnEffect ==
  ASSUME TypeOK, NEW v \in Honest, Active(v), NEW ranked, NEW S \in SUBSET Blocks,
         PrepareRound0Min(v, ranked, S),
         held' \in [Honest -> SUBSET Blocks], S \subseteq held'[v],
         \A w \in Honest : held[w] \subseteq held'[w],
         UNCHANGED <<round, sentCommit, locked, pending, decided>>
  PROVE  Effect(v) \/ UNCHANGED <<sentPrepare, votes>>
<1>1. ASSUME NEW b \in S, MayPrepareMin(v, b), Prepare(v, 0, b) PROVE Effect(v)
  <2>1. b \in Blocks /\ b \in held'[v] /\ round[v] = 0 /\ 0 \notin sentPrepare[v]
    BY <1>1 DEF MayPrepareMin
  <2>2. locked[v] = None \/ locked[v].block = b
    BY <1>1 DEF MayPrepareMin
  <2>3. Prepares(v, b)
    BY Zenon, <1>1, <2>1, <2>2 DEF Prepares
  <2> QED
    BY Zenon, <2>1, <2>3 DEF Effect
<1> QED
  BY <1>1 DEF PrepareRound0Min

\* Every handler, proposing included, has one of the five effects or none on the votes.
LEMMA ProposerStepIsAnEffect ==
  ASSUME TypeOK, Certified, [PNext]_<<vars, pvars>>
  PROVE  UNCHANGED vars \/ \E v \in Honest : Effect(v)
<1>1. ASSUME NEW v \in Honest, NEW ranked, NEW S \in SUBSET Blocks,
             Active(v), PrepareRound0Min(v, ranked, S) \/ UNCHANGED <<sentPrepare, votes>>,
             S \subseteq held[v],
             UNCHANGED <<round, held, sentCommit, locked, pending, decided>>
      PROVE  UNCHANGED vars \/ Effect(v)
  <2>1. held' \in [Honest -> SUBSET Blocks] /\ S \subseteq held'[v]
        /\ \A w \in Honest : held[w] \subseteq held'[w]
    BY <1>1 DEF TypeOK
  <2>2. Effect(v) \/ UNCHANGED <<sentPrepare, votes>>
    BY <1>1, <2>1, LotteryIsAnEffect
  <2> QED
    BY <1>1, <2>2 DEF vars
<1>2. ASSUME NEW v \in Honest, Tick(v) PROVE UNCHANGED vars \/ Effect(v)
  <2>1. held[v] \in SUBSET Blocks
    BY DEF TypeOK
  <2>2. /\ Active(v) /\ UNCHANGED <<round, held, sentCommit, locked, pending, decided>>
        /\ PrepareRound0Min(v, tickets[v], held[v]) \/ UNCHANGED <<sentPrepare, votes>>
    BY Zenon, <1>2 DEF Tick, TickRound0Window
  <2> QED
    BY <1>1, <2>1, <2>2
<1>3. ASSUME NEW v \in Honest, EntersRound(v) \/ Tallies(v) PROVE \E w \in Honest : Effect(w)
  <2>1. Next
    BY <1>3 DEF EntersRound, Tallies, Next
  <2> QED
    BY <2>1, EveryStepIsAnEffect
<1>4. ASSUME NEW v \in Honest, NEW m \in Proposal, TakeProposal(v, m) PROVE Effect(v)
  <2>1. m.block \in Blocks
    BY DEF Proposal
  <2> QED
    BY <1>4, <2>1, ProposalIsAnEffect DEF TakeProposal
<1>5. ASSUME NEW v \in Honest, NEW m \in Proposal, EnterLottery(v, m) PROVE Effect(v)
  <2> DEFINE b == m.block
             S == Kept(v, b)
  <2>1. b \in Blocks /\ b # None /\ S = held[v] \cup {b} /\ S \in SUBSET Blocks
    BY VotesAssumption DEF Proposal, Kept, TypeOK
  <2>2. CASE pending[v] = b
    <3>1. Active(v) /\ Finalize(v, b, S)
      BY Zenon, <1>5, <2>2 DEF EnterLottery
    <3>2. \E r \in Rounds : CommitCert(votes, r, b)
      BY ZenonT(60), <2>1, <2>2 DEF Certified
    <3> HIDE DEF S, b
    <3>3. Decides(v, b)
      BY <3>1, <3>2 DEF Decides
    <3> QED
      BY Zenon, <2>1, <3>3 DEF Effect
  <2>3. CASE pending[v] # b
    <3>1. /\ Active(v) /\ held' = [held EXCEPT ![v] = S]
          /\ UNCHANGED <<round, sentCommit, locked, pending, decided>>
          /\ \/ \E ranked : PrepareRound0Min(v, ranked, S)
             \/ UNCHANGED <<sentPrepare, votes>>
      BY Zenon, <1>5, <2>3 DEF EnterLottery, RankRound0
    <3> HIDE DEF S, b
    <3>2. /\ held' \in [Honest -> SUBSET Blocks] /\ S \subseteq held'[v]
          /\ \A w \in Honest : held[w] \subseteq held'[w]
      BY <2>1, <3>1 DEF TypeOK
    <3>3. Effect(v) \/ UNCHANGED <<sentPrepare, votes>>
      BY <2>1, <3>1, <3>2, LotteryIsAnEffect
    <3>4. ASSUME UNCHANGED <<sentPrepare, votes>> PROVE Holds(v, b)
      BY <2>1, <3>1, <3>4 DEF Holds, TypeOK
    <3> QED
      BY <2>1, <3>3, <3>4 DEF Effect
  <2> QED
    BY <2>2, <2>3
<1>6. ASSUME NEW v \in Honest, NEW m \in Proposal, OnSkeleton(v, m) PROVE UNCHANGED vars \/ Effect(v)
  <2>1. held[v] \in SUBSET Blocks
    BY DEF TypeOK
  <2>2. /\ Active(v) /\ UNCHANGED <<round, held, sentCommit, locked, pending, decided>>
        /\ \/ \E ranked : PrepareRound0Min(v, ranked, held[v])
           \/ UNCHANGED <<sentPrepare, votes>>
    BY <1>6 DEF OnSkeleton, RankRound0
  <2> QED
    BY Zenon, <1>1, <2>1, <2>2
<1>7. ASSUME NEW v \in Honest, NEW m \in Proposal, RefuseProposal(v, m) PROVE UNCHANGED vars
  BY <1>7 DEF RefuseProposal
<1>8. ASSUME NEW v \in Honest, NoteHeight(v) PROVE UNCHANGED vars
  BY <1>8 DEF NoteHeight
<1>9. CASE UNCHANGED <<vars, pvars>>
  BY <1>9
<1> QED
  BY <1>2, <1>3, <1>4, <1>5, <1>6, <1>7, <1>8, <1>9 DEF PNext

\* The bookkeeping invariant holds with proposing too.
LEMMA ProposerInvariance == PSpec => []CInv(Honest)
<1>1. PInit => CInv(Honest)
  BY CInvInitially DEF PInit
<1>2. CInv(Honest) /\ [PNext]_<<vars, pvars>> => CInv(Honest)'
  <2>1. SUFFICES ASSUME CInv(Honest), [PNext]_<<vars, pvars>> PROVE CInv(Honest)'
    OBVIOUS
  <2>2. CASE UNCHANGED vars
    BY <2>1, <2>2, CInvNext
  <2>3. ASSUME NEW v \in Honest, Effect(v) PROVE CInv(Honest)'
    BY <2>1, <2>3, TypeStep, CInvStep DEF CInv
  <2> QED
    BY <2>1, <2>2, <2>3, ProposerStepIsAnEffect DEF CInv
<1> QED
  BY <1>1, <1>2, PTL DEF PSpec

\* An engine that proposes by maybe_propose and picks by the lottery of round 0 casts
\* no vote that VoteRules forbids, whatever tickets, skeletons and proofs of lock reach it.
THEOREM ProposerImplements == PSpec => ImplementsVoteRules
<1>1. PInit => VR!Init
  BY InitRefines DEF PInit
<1>2. CInv(Honest) /\ [PNext]_<<vars, pvars>> => [VR!Next]_(VR!vars)
  <2>1. SUFFICES ASSUME CInv(Honest), [PNext]_<<vars, pvars>> PROVE [VR!Next]_(VR!vars)
    OBVIOUS
  <2> QED
    BY <2>1, ProposerStepIsAnEffect, EffectRefines, StutterRefines DEF CInv
<1> QED
  BY <1>1, <1>2, ProposerInvariance, PTL DEF PSpec, ImplementsVoteRules, VR!Spec

-----------------------------------------------------------------------------
(* Restarts.  A validator that restarts forgets its votes and its lock: of *)
(* it, only what the certificates show is known.                           *)

Reliable == Honest \ Crashers

\* Whatever a validator does, it signs in its own name and leaves the others alone.
LEMMA OwnStep ==
  ASSUME TypeOK, NEW v \in Honest, Effect(v)
  PROVE  /\ votes \subseteq votes' /\ \A x \in votes' \ votes : x.voter = v
         /\ \A w \in Honest : w # v => round'[w] = round[w] /\ decided'[w] = decided[w]
<1> DEFINE Own == /\ votes \subseteq votes' /\ \A x \in votes' \ votes : x.voter = v
                  /\ \A w \in Honest : w # v => round'[w] = round[w] /\ decided'[w] = decided[w]
<1>0. round \in [Honest -> Rounds] /\ decided \in [Honest -> Blocks \cup {None}]
  BY DEF TypeOK
<1>1. ASSUME NEW ph, NEW r, NEW b PROVE MkVote(ph, r, b, v).voter = v
  BY DEF MkVote
<1>2. ASSUME NEW b \in Blocks, Holds(v, b) PROVE Own
  BY Zenon, <1>2 DEF Holds
<1>3. ASSUME NEW b \in Blocks \cup {Nil}, Prepares(v, b) PROVE Own
  <2>1. votes' = votes \cup {MkVote("prepare", round[v], b, v)} /\ UNCHANGED <<round, decided>>
    BY Zenon, <1>3 DEF Prepares, Prepare
  <2> QED
    BY Zenon, <1>1, <2>1
<1>4. ASSUME NEW r \in Rounds, Enters(v, r) PROVE Own
  <2>1. /\ votes' \in {votes, votes \cup {MkVote("prepare", r, locked[v].block, v)}}
        /\ round' = [round EXCEPT ![v] = r] /\ UNCHANGED decided
    BY <1>4 DEF Enters, EnterRound, Prepare
  <2>2. votes \subseteq votes' /\ \A x \in votes' \ votes : x.voter = v
    BY Zenon, <1>1, <2>1
  <2>3. \A w \in Honest : w # v => round'[w] = round[w]
    BY <1>0, <2>1
  <2> QED
    BY <2>1, <2>2, <2>3
<1>5. ASSUME NEW b \in Blocks, CheckPrepared(v, b) PROVE Own
  <2>1. votes' = votes \cup {MkVote("commit", round[v], b, v)} /\ UNCHANGED <<round, decided>>
    BY <1>5 DEF CheckPrepared
  <2> QED
    BY <1>1, <2>1
<1>6. ASSUME NEW b \in Blocks, Decides(v, b) PROVE Own
  <2>1. /\ UNCHANGED votes
        /\ round' \in {round, [round EXCEPT ![v] = 0]}
        /\ decided' \in {decided, [decided EXCEPT ![v] = b]}
    BY <1>6 DEF Decides, Finalize
  <2>2. \A w \in Honest : w # v => round'[w] = round[w]
    BY <1>0, <2>1
  <2>3. \A w \in Honest : w # v => decided'[w] = decided[w]
    BY <1>0, <2>1
  <2> QED
    BY <2>1, <2>2, <2>3
<1> QED
  BY Zenon, <1>2, <1>3, <1>4, <1>5, <1>6 DEF Effect

\* A restart breaks no one else's bookkeeping, and no certificate.
LEMMA RestartStep ==
  ASSUME CInv(Reliable), NEW v \in Crashers, Restart(v) PROVE CInv(Reliable)'
<1>0. /\ v \in Honest /\ v \notin Reliable /\ Reliable \subseteq Honest /\ 0 \in Rounds
      /\ TypeOK /\ Recorded(Reliable) /\ LockIsProven /\ LockIsLatest(Reliable) /\ PreparedHeld(Reliable) /\ Certified
  BY RestartConstants, CellConstants DEF Reliable, CInv, Rounds
<1>1. /\ UNCHANGED votes
      /\ \A w \in Reliable : /\ round'[w] = round[w] /\ held'[w] = held[w] /\ locked'[w] = locked[w]
                             /\ sentPrepare'[w] = sentPrepare[w] /\ sentCommit'[w] = sentCommit[w]
                             /\ Active(w)' <=> Active(w)
  BY <1>0 DEF Restart, TypeOK, Active
<1>2. TypeOK'
  BY <1>0 DEF Restart, TypeOK
<1>3. Recorded(Reliable)' /\ LockIsLatest(Reliable)' /\ PreparedHeld(Reliable)'
  <2> SUFFICES ASSUME NEW w \in Reliable PROVE InOrder(w)'
    BY InOrderTo
  <2>1. InOrder(w)
    BY <1>0, InOrderFrom
  <2> QED
    BY Zenon, <1>1, <2>1 DEF InOrder
<1>4. LockIsProven' /\ Certified'
  BY <1>0 DEF Restart, TypeOK, LockIsProven, Certified
<1> QED
  BY <1>2, <1>3, <1>4 DEF CInv

\* The bookkeeping of those that never restart, and every certificate, survive.
LEMMA RestartInvariance == RSpec => []CInv(Reliable)
<1>1. Reliable \in SUBSET Honest
  BY DEF Reliable
<1>2. RInit => CInv(Reliable)
  BY <1>1, CInvInitially DEF RInit
<1>3. CInv(Reliable) /\ [RNext]_rvars => CInv(Reliable)'
  <2>1. SUFFICES ASSUME CInv(Reliable), [RNext]_rvars PROVE CInv(Reliable)'
    OBVIOUS
  <2>2. [Next]_vars \/ \E v \in Crashers : Restart(v)
    BY <2>1 DEF RNext, rvars
  <2> QED
    BY <1>1, <2>1, <2>2, CInvNext, RestartStep
<1> QED
  BY <1>2, <1>3, PTL DEF RSpec

-----------------------------------------------------------------------------
(* What follows from the vote rules.                                       *)

VRP == INSTANCE VoteRulesProofs WITH round <- RoundOf

\* The instance of VoteRules that carries its theorems is the same specification.
LEMMA SameRules ==
  /\ VR!Init => VRP!Init
  /\ [VR!Next]_(VR!vars) => [VRP!Next]_(VRP!vars)
<1>1. /\ VRP!Vote = VR!Vote /\ VRP!Honest = VR!Honest
      /\ \A vs, r, b : VRP!Polka(vs, r, b) = VR!Polka(vs, r, b)
      /\ \A vs, r, b : VRP!CommitCert(vs, r, b) = VR!CommitCert(vs, r, b)
  BY DEF VR!Vote, VRP!Vote, VR!Honest, VRP!Honest, VR!Polka, VRP!Polka, VR!CommitCert, VRP!CommitCert,
         VR!IsQuorum, VRP!IsQuorum, VR!VotersIn, VRP!VotersIn, VR!MkVote, VRP!MkVote,
         VR!Q, VRP!Q, VR!F, VRP!F, VR!N, VRP!N, VR!Cardinality, VRP!Cardinality
<1>2. VR!Init => VRP!Init
  BY <1>1 DEF VR!Init, VRP!Init
<1>3. VR!ByzantineStep => VRP!ByzantineStep
  BY <1>1 DEF VR!ByzantineStep, VRP!ByzantineStep
<1>4. ASSUME NEW v PROVE VR!HonestStep(v) => VRP!HonestStep(v)
  <2>1. \A D : VR!OnePerRound(v, votes, D) => VRP!OnePerRound(v, votes, D)
    BY DEF VR!OnePerRound, VRP!OnePerRound
  <2>2. \A D : VR!CommitsBacked(votes, D) => VRP!CommitsBacked(votes, D)
    BY <1>1 DEF VR!CommitsBacked, VRP!CommitsBacked
  <2>3. \A D : VR!LockRespected(v, votes, D) => VRP!LockRespected(v, votes, D)
    BY <1>1 DEF VR!LockRespected, VRP!LockRespected
  <2>4. \A lo, hi, D : VR!Cast(v, lo, hi, votes, D) => VRP!Cast(v, lo, hi, votes, D)
    BY <1>1, <2>1, <2>2, <2>3 DEF VR!Cast, VRP!Cast
  <2>5. \A b, vs : VR!MayDecide(b, vs) => VRP!MayDecide(b, vs)
    BY <1>1 DEF VR!MayDecide, VRP!MayDecide
  <2> QED
    BY <2>4, <2>5 DEF VR!HonestStep, VRP!HonestStep
<1> QED
  BY <1>1, <1>2, <1>3, <1>4 DEF VR!Next, VRP!Next, VR!vars, VRP!vars

\* The assumptions of the instance are those of the cell, and its quorums the cell's.
LEMMA SameAssumptions == VRP!CellAssumption /\ VRP!VotesAssumption /\ VRP!QuorumFacts
<1>1. VRP!CellAssumption /\ VRP!VotesAssumption
  BY CellAssumption, VotesAssumption
     DEF VRP!CellAssumption, VRP!F, F, VRP!N, N, VRP!Cardinality, Cardinality, VRP!IsFiniteSet, IsFiniteSet
<1>2. VRP!Honest = Honest /\ \A S : VRP!IsQuorum(S) <=> IsQuorum(S)
  BY DEF VRP!Honest, Honest, VRP!IsQuorum, IsQuorum, VRP!Q, Q, VRP!F, F, VRP!N, N,
         VRP!Cardinality, Cardinality
<1> QED
  BY <1>1, <1>2, QuorumsShareHonest, QuorumsGrow DEF VRP!QuorumFacts

\* No two honest validators finalize different blocks at one height, in any cell
\* with at most F Byzantine members, under any rota and any message schedule.
THEOREM CellAgreement == Spec => []Agreement
<1>1. VR!Spec => VRP!Spec
  BY SameRules, PTL DEF VR!Spec, VRP!Spec
<1>2. VRP!Spec => []VRP!Agreement
  BY VRP!AgreementHolds, SameAssumptions, PTL
<1>3. VRP!Agreement => Agreement
  BY DEF VRP!Agreement, Agreement, VRP!Honest, Honest
<1> QED
  BY <1>1, <1>2, <1>3, Implements, PTL DEF ImplementsVoteRules

\* The same, with honest proposals those of maybe_propose and the lottery of round 0.
THEOREM ProposerAgreement == PSpec => []Agreement
<1>1. VR!Spec => VRP!Spec
  BY SameRules, PTL DEF VR!Spec, VRP!Spec
<1>2. VRP!Spec => []VRP!Agreement
  BY VRP!AgreementHolds, SameAssumptions, PTL
<1>3. VRP!Agreement => Agreement
  BY DEF VRP!Agreement, Agreement, VRP!Honest, Honest
<1> QED
  BY <1>1, <1>2, <1>3, ProposerImplements, PTL DEF ImplementsVoteRules

\* with_last_commit replaces a certificate by an equal one: at height 0, where there is
\* none, and wherever all proposers recorded the same certificate of the parent.
OneParentCert ==
  \A v \in Honest : LastCert[v] # None => \A b \in Blocks : WithLastCommit(b, v) = b

\* valid_value is a block and the round of its certificate.
ValidTyped == valid \in [Honest -> Proven \cup {None}]

\* maybe_propose: what it sends anew carries no proof of lock, and what it re-offers one
\* for the block it sends.
LEMMA OffersKeepIdentity ==
  ASSUME OneParentCert, TypeOK, ValidTyped, ReofferKeepsIdentity,
         NEW v \in Honest, NEW r, MaybePropose(v, r)
  PROVE  ReofferKeepsIdentity'
<1>1. ASSUME MayPropose(v, r), NEW m \in Offers(v, r), m.pol # None PROVE m.pol.block = m.block
  <2> DEFINE p == Preferred(v)
  <2>1. p \in Proven \cup {None}
    BY DEF Preferred, TypeOK, ValidTyped
  <2>2. LastCert[v] # None
    BY <1>1 DEF MayPropose
  <2>3. CASE p = None
    BY <1>1, <2>3 DEF Offers
  <2>4. CASE p # None
    <3>1. p.block \in Blocks
      BY <2>1, <2>4 DEF Proven
    <3>2. WithLastCommit(p.block, v) = p.block
      BY <2>2, <3>1 DEF OneParentCert
    <3>3. m.block = WithLastCommit(p.block, v) /\ m.pol = p
      <4> DEFINE w == IF InLottery(r) THEN v ELSE None
                 b == WithLastCommit(p.block, v)
      <4>1. m = [block |-> b, pol |-> p, witness |-> w]
        BY <1>1, <2>4, Zenon DEF Offers
      <4> HIDE DEF w, b, p
      <4>2. m.block = b /\ m.pol = p
        BY <4>1
      <4> QED
        BY <4>2, Zenon DEF b
    <3> QED
      BY <3>2, <3>3
  <2> QED
    BY <2>3, <2>4
<1>2. CASE MayPropose(v, r)
  <2>1. PICK m \in Offers(v, r) : offers' = offers \cup {m}
    BY <1>2 DEF MaybePropose
  <2> QED
    BY <1>1, <1>2, <2>1 DEF ReofferKeepsIdentity
<1>3. CASE ~MayPropose(v, r)
  BY <1>3 DEF MaybePropose, ReofferKeepsIdentity
<1> QED
  BY <1>2, <1>3

\* Where all recorded the same certificate of the parent, a re-offered block is the block
\* its proof of lock names (Block::pol), whoever re-offers it, under a lock or a valid_value.
THEOREM ReoffersKeepIdentity ==
  ASSUME OneParentCert
  PROVE  PSpec => []ReofferKeepsIdentity
<1>1. PInit => ValidTyped /\ ReofferKeepsIdentity
  BY DEF PInit, ValidTyped, ReofferKeepsIdentity
<1>2. ASSUME TypeOK, ValidTyped, ReofferKeepsIdentity, [PNext]_<<vars, pvars>>
      PROVE  ValidTyped' /\ ReofferKeepsIdentity'
  <2>1. ASSUME UNCHANGED offers PROVE ReofferKeepsIdentity'
    BY <1>2, <2>1 DEF ReofferKeepsIdentity
  <2>2. ASSUME UNCHANGED valid PROVE ValidTyped'
    BY <1>2, <2>2 DEF ValidTyped
  <2>3. ASSUME NEW v \in Honest, NEW m \in Proposal, NoteValidValue(v, m) PROVE ValidTyped'
    <3>1. m.pol \in Proven \cup {None} /\ (PolOf(m) # NoPol => m.pol # None)
      BY DEF Proposal, PolOf
    <3> QED
      BY <1>2, <2>3, <3>1 DEF NoteValidValue, ValidTyped
  <2>4. ASSUME NEW v \in Honest, Tick(v) PROVE ValidTyped' /\ ReofferKeepsIdentity'
    BY <1>2, <2>2, <2>4, OffersKeepIdentity DEF Tick
  <2>5. ASSUME NEW v \in Honest, EntersRound(v) PROVE ValidTyped' /\ ReofferKeepsIdentity'
    BY <1>2, <2>1, <2>2, <2>5, OffersKeepIdentity DEF EntersRound
  <2>6. ASSUME NEW v \in Honest, NoteHeight(v) \/ Tallies(v) PROVE UNCHANGED <<valid, offers>>
    BY <2>6 DEF NoteHeight, Tallies, pvars
  <2>7. ASSUME NEW v \in Honest, NEW m \in Proposal,
               RefuseProposal(v, m) \/ TakeProposal(v, m) \/ EnterLottery(v, m)
        PROVE  NoteValidValue(v, m) /\ UNCHANGED offers
    BY Zenon, <2>7 DEF RefuseProposal, TakeProposal, EnterLottery
  <2>8. ASSUME NEW v \in Honest, NEW m \in Proposal, OnSkeleton(v, m)
        PROVE  UNCHANGED <<valid, offers>>
    BY Zenon, <2>8 DEF OnSkeleton
  <2>9. CASE UNCHANGED <<vars, pvars>>
    BY <2>1, <2>2, <2>9 DEF pvars
  <2> QED
    BY <1>2, <2>1, <2>2, <2>3, <2>4, <2>5, <2>6, <2>7, <2>8, <2>9 DEF PNext
<1>3. CInv(Honest) => TypeOK
  BY DEF CInv
<1> QED
  BY <1>1, <1>2, <1>3, ProposerInvariance, PTL DEF PSpec

\* The abstract inductive invariant holds of the engine.
THEOREM AbstractInvariance == Spec => []VRP!Inv
<1>1. VR!Spec => VRP!Spec
  BY SameRules, PTL DEF VR!Spec, VRP!Spec
<1>2. VRP!Spec => []VRP!Inv
  BY VRP!Invariance, SameAssumptions, PTL
<1> QED
  BY <1>1, <1>2, Implements, PTL DEF ImplementsVoteRules

\* A certificate is the same thing to the instance.
LEMMA SameCertificates ==
  /\ \A vs, r, b : VRP!Polka(vs, r, b) = Polka(vs, r, b)
  /\ \A vs, r, b : VRP!CommitCert(vs, r, b) = CommitCert(vs, r, b)
  /\ VRP!Honest = Honest
BY Zenon DEF VRP!Polka, Polka, VRP!CommitCert, CommitCert, VRP!IsQuorum, IsQuorum, VRP!VotersIn, VotersIn,
       VRP!MkVote, MkVote, VRP!Q, Q, VRP!F, F, VRP!N, N, VRP!Cardinality, Cardinality, VRP!Honest, Honest

\* A block with a COMMIT quorum admits no PREPARE quorum for another block at any
\* later round: the claim in the comment of unlocks_us.
THEOREM CommittedValueStays == Spec => []CommittedValueHolds
<1>1. VRP!Inv => CommittedValueHolds
  <2>1. SUFFICES ASSUME VRP!Inv, NEW a \in Blocks, NEW b \in Blocks, NEW r \in Rounds,
                        CommitCert(votes, r, a), NEW s \in r + 1 .. MaxRound, Polka(votes, s, b)
                 PROVE  a = b
    BY DEF CommittedValueHolds
  <2>2. r \in Nat /\ s \in Nat /\ r < s
    BY CellConstants DEF Rounds
  <2>3. VRP!CommitCert(votes, r, a) /\ VRP!Polka(votes, s, b)
    BY <2>1, SameCertificates
  <2> QED
    BY <2>1, <2>2, <2>3, SameAssumptions, VRP!CommittedStays
<1> QED
  BY <1>1, AbstractInvariance, PTL

\* A decision parked for want of its body agrees with every decision made or
\* parked elsewhere.
THEOREM ParkedDecisionsAgree == Spec => []ParkedAgree
<1>1. CInv(Honest) /\ VRP!Inv => ParkedAgree
  <2>1. SUFFICES ASSUME CInv(Honest), VRP!Inv, NEW v \in Honest, NEW w \in Honest, pending[v] # None,
                        NEW d \in {decided[w], pending[w]}, d # None
                 PROVE  pending[v] = d
    BY DEF ParkedAgree
  <2>2. pending[v] \in Blocks /\ d \in Blocks
    BY <2>1 DEF CInv, TypeOK
  <2>3. \E r \in Nat : VRP!CommitCert(votes, r, pending[v])
    <3>1. \E r \in Rounds : CommitCert(votes, r, pending[v])
      BY <2>1 DEF CInv, Certified
    <3> QED
      BY Zenon, <3>1, SameCertificates, RoundsAreNat
  <2>4. \E s \in Nat : VRP!CommitCert(votes, s, d)
    <3>1. CASE d = pending[w]
      <4>1. \E s \in Rounds : CommitCert(votes, s, d)
        BY <2>1, <3>1 DEF CInv, Certified
      <4> QED
        BY Zenon, <4>1, SameCertificates, RoundsAreNat
    <3>2. CASE d = decided[w]
      BY <2>1, <3>2, SameCertificates DEF VRP!Inv, VRP!Decisions
    <3> QED
      BY <2>1, <3>1, <3>2
  <2>5. PICK r \in Nat : VRP!CommitCert(votes, r, pending[v])
    BY <2>3
  <2>6. PICK s \in Nat : VRP!CommitCert(votes, s, d)
    BY <2>4
  <2>7. r <= s \/ s <= r
    OBVIOUS
  <2> QED
    BY <2>1, <2>2, <2>5, <2>6, <2>7, SameAssumptions, VRP!CertificatesAgree
<1> QED
  BY <1>1, CInvariance, AbstractInvariance, PTL

\* The certificate a decision is parked on names a validator that has the body: an
\* honest one that prepared the block and committed to it (maybe_request_body).
THEOREM CertifiedBodyIsHeld == Spec => []CertifiedBodyHeld
<1>1. CInv(Honest) /\ VRP!Inv => CertifiedBodyHeld
  <2>1. SUFFICES ASSUME CInv(Honest), VRP!Inv, NEW b \in Blocks, NEW r \in Rounds, CommitCert(votes, r, b)
                 PROVE  \E w \in Honest \cap VotersIn(votes, "commit", r, b) : b \in held[w] \cup {decided[w]}
    BY DEF CertifiedBodyHeld
  <2>2. r \in Nat /\ Rounds \subseteq Nat
    BY CellConstants DEF Rounds
  <2>3. Polka(votes, r, b)
    <3>1. PICK v \in Honest : v \in VotersIn(votes, "commit", r, b)
      BY <2>1, QuorumsShareHonest, VotersAreValidators DEF CommitCert
    <3> DEFINE x == MkVote("commit", r, b, v)
    <3>2. x \in votes /\ x.voter = v /\ x.phase = "commit" /\ x.round = r /\ x.block = b
      BY <3>1 DEF VotersIn, MkVote
    <3> HIDE DEF x
    <3> QED
      BY <2>1, <3>2, SameCertificates DEF VRP!Inv, VRP!VotesInv, VRP!Backed
  <2>4. PICK w \in Honest : w \in VotersIn(votes, "commit", r, b) /\ w \in VotersIn(votes, "prepare", r, b)
    BY <2>1, <2>3, QuorumsShareHonest, VotersAreValidators DEF CommitCert, Polka
  <2>5. CASE Active(w)
    <3> DEFINE x == MkVote("prepare", r, b, w)
    <3>1. x \in votes /\ x.voter = w /\ x.phase = "prepare" /\ x.block = b
      BY <2>4 DEF VotersIn, MkVote
    <3> HIDE DEF x
    <3> QED
      BY Zenon, <2>1, <2>4, <2>5, <3>1 DEF CInv, PreparedHeld
  <2>6. CASE ~Active(w)
    <3>1. PICK s \in Rounds : CommitCert(votes, s, decided[w])
      BY <2>1, <2>6 DEF CInv, Certified, Active
    <3>2. decided[w] \in Blocks
      BY <2>1, <2>6 DEF CInv, TypeOK, Active
    <3>3. VRP!CommitCert(votes, s, decided[w]) /\ VRP!CommitCert(votes, r, b)
      BY <2>1, <3>1, SameCertificates
    <3>4. s \in Nat /\ (r <= s \/ s <= r)
      BY <2>2
    <3>5. decided[w] = b
      BY <2>1, <2>2, <3>2, <3>3, <3>4, SameAssumptions, VRP!CertificatesAgree
    <3> QED
      BY <2>4, <3>5
  <2> QED
    BY <2>5, <2>6
<1> QED
  BY <1>1, CInvariance, AbstractInvariance, PTL

-----------------------------------------------------------------------------
(* Restarts.  A validator that restarts forgets its votes and its lock, so *)
(* to the others it may as well be Byzantine: the vote rules hold of the   *)
(* validators that never restart, in a cell whose faulty members are the   *)
(* Byzantine ones and those that may restart.                              *)

Faulty == Byzantine \cup Crashers
ReliableRound == [v \in Reliable |-> RoundOf[v]]
ReliableDecided == [v \in Reliable |-> decided[v]]

VRR == INSTANCE VoteRulesProofs WITH Byzantine <- Faulty, round <- ReliableRound, decided <- ReliableDecided

\* The fault budget covers both kinds.
LEMMA RestartAssumptions == VRR!CellAssumption /\ VRR!VotesAssumption /\ VRR!QuorumFacts
<1>1. VRR!CellAssumption /\ VRR!VotesAssumption
  BY Zenon, CellAssumption, VotesAssumption, RestartConstants
     DEF VRR!CellAssumption, VRR!F, F, VRR!N, N, VRR!Cardinality, Cardinality, VRR!IsFiniteSet, IsFiniteSet,
         Faulty, Honest
<1>2. VRR!Honest = Validators \ Faulty /\ \A S : VRR!IsQuorum(S) <=> IsQuorum(S)
  BY Zenon DEF VRR!Honest, VRR!IsQuorum, IsQuorum, VRR!Q, Q, VRR!F, F, VRR!N, N,
         VRR!Cardinality, Cardinality
<1>3. Faulty \in SUBSET Validators /\ Cardinality(Faulty) <= F
  BY CellAssumption, RestartConstants DEF Faulty, Honest
<1> QED
  BY <1>1, <1>2, <1>3, QuorumsMeet, QuorumsGrow DEF VRR!QuorumFacts

\* Votes and certificates do not depend on who is faulty.
LEMMA RestartCertificates ==
  /\ VRR!Honest = Reliable /\ VRR!Vote = Vote
  /\ \A vs, r, b : VRR!Polka(vs, r, b) <=> Polka(vs, r, b)
  /\ \A vs, r, b : VRR!CommitCert(vs, r, b) <=> CommitCert(vs, r, b)
BY Zenon DEF VRR!Polka, Polka, VRR!CommitCert, CommitCert, VRR!IsQuorum, IsQuorum, VRR!VotersIn, VotersIn,
       VRR!MkVote, MkVote, VRR!Vote, Vote, VRR!Q, Q, VRR!F, F, VRR!N, N, VRR!Cardinality, Cardinality,
       VRR!Honest, Honest, Reliable, Faulty

\* An honest step of a validator that never restarts is one of the smaller cell.
LEMMA ReliableStep ==
  ASSUME TypeOK, TypeOK', NEW v \in Reliable, VR!HonestStep(v) PROVE VRR!HonestStep(v)
<1>1. /\ VRR!Vote = VR!Vote
      /\ \A vs, r, b : VRR!Polka(vs, r, b) <=> VR!Polka(vs, r, b)
      /\ \A vs, r, b : VRR!CommitCert(vs, r, b) <=> VR!CommitCert(vs, r, b)
  BY SameNotions, RestartCertificates
<1>2. \A D : VR!OnePerRound(v, votes, D) => VRR!OnePerRound(v, votes, D)
  BY DEF VR!OnePerRound, VRR!OnePerRound
<1>3. \A D : VR!CommitsBacked(votes, D) => VRR!CommitsBacked(votes, D)
  BY <1>1 DEF VR!CommitsBacked, VRR!CommitsBacked
<1>4. \A D : VR!LockRespected(v, votes, D) => VRR!LockRespected(v, votes, D)
  BY <1>1 DEF VR!LockRespected, VRR!LockRespected
<1>5. \A lo, hi, D : VR!Cast(v, lo, hi, votes, D) => VRR!Cast(v, lo, hi, votes, D)
  BY <1>1, <1>2, <1>3, <1>4 DEF VR!Cast, VRR!Cast
<1>6. \A b, vs : VR!MayDecide(b, vs) => VRR!MayDecide(b, vs)
  BY <1>1 DEF VR!MayDecide, VRR!MayDecide
<1>7. v \in Honest /\ Reliable \subseteq Honest
  BY DEF Reliable
<1>8. /\ ReliableRound[v] = RoundOf[v] /\ ReliableRound'[v] = RoundOf'[v]
      /\ ReliableDecided[v] = decided[v] /\ ReliableDecided'[v] = decided'[v]
  BY Zenon DEF ReliableRound, ReliableDecided
<1>9. ReliableRound' = [ReliableRound EXCEPT ![v] = ReliableRound'[v]]
  <2>1. RoundOf' = [RoundOf EXCEPT ![v] = RoundOf'[v]] /\ DOMAIN RoundOf = Honest
    BY Zenon DEF VR!HonestStep, RoundOf
  <2>2. \A w \in Reliable : w # v => RoundOf'[w] = RoundOf[w]
    BY <1>7, <2>1
  <2> QED
    BY Zenon, <1>8, <2>2 DEF ReliableRound
<1>10. \/ UNCHANGED ReliableDecided
       \/ /\ ReliableDecided[v] = None
          /\ ReliableDecided' = [ReliableDecided EXCEPT ![v] = ReliableDecided'[v]]
          /\ VRR!MayDecide(ReliableDecided'[v], votes')
  <2>1. CASE UNCHANGED decided
    BY <2>1 DEF ReliableDecided
  <2>2. CASE /\ decided[v] = None
             /\ decided' = [decided EXCEPT ![v] = decided'[v]]
             /\ VR!MayDecide(decided'[v], votes')
    <3>1. \A w \in Reliable : w # v => decided'[w] = decided[w]
      BY <1>7, <2>2 DEF TypeOK
    <3>2. ReliableDecided' = [ReliableDecided EXCEPT ![v] = ReliableDecided'[v]]
      BY Zenon, <1>8, <3>1 DEF ReliableDecided
    <3> QED
      BY Zenon, <1>6, <1>8, <2>2, <3>2
  <2> QED
    BY Zenon, <2>1, <2>2 DEF VR!HonestStep
<1> QED
  BY Zenon, <1>5, <1>8, <1>9, <1>10 DEF VR!HonestStep, VRR!HonestStep

\* With the restarting validators counted as faulty, the cell keeps the vote rules.
LEMMA RestartRefines == RSpec => VRR!Spec
<1>1. RInit => VRR!Init
  <2>1. SUFFICES ASSUME RInit PROVE VRR!Init
    OBVIOUS
  <2>2. RoundOf = [v \in Honest |-> 0]
    BY <2>1, VotesAssumption DEF RInit, Init, RoundOf, Active
  <2>3. ReliableRound = [v \in Reliable |-> 0] /\ ReliableDecided = [v \in Reliable |-> None]
    BY <2>1, <2>2 DEF RInit, Init, ReliableRound, ReliableDecided, Reliable
  <2>4. \A x \in votes : x \in Vote /\ x.voter \in Faulty
    BY SMTT(60), <2>1, CellAssumption, CellConstants DEF RInit, Init, Vote, Rounds, Faulty
  <2> QED
    BY <2>3, <2>4, RestartCertificates DEF VRR!Init
<1>2. CInv(Reliable) /\ CInv(Reliable)' /\ [RNext]_rvars => [VRR!Next]_(VRR!vars)
  <2>1. SUFFICES ASSUME CInv(Reliable), CInv(Reliable)', [RNext]_rvars PROVE [VRR!Next]_(VRR!vars)
    OBVIOUS
  <2>2. Reliable \in SUBSET Honest /\ TypeOK /\ TypeOK' /\ Certified
    BY <2>1 DEF Reliable, CInv
  <2>3. ASSUME NEW v \in Honest, Effect(v) PROVE [VRR!Next]_(VRR!vars)
    <3>1. CASE v \in Reliable
      <4>1. VR!HonestStep(v) \/ UNCHANGED <<RoundOf, votes, decided>>
        BY <2>1, <2>2, <2>3, <3>1, StepRefines
      <4>2. CASE VR!HonestStep(v)
        BY <2>2, <3>1, <4>2, ReliableStep, RestartCertificates DEF VRR!Next
      <4>3. CASE UNCHANGED <<RoundOf, votes, decided>>
        BY <4>3 DEF VRR!vars, ReliableRound, ReliableDecided
      <4> QED
        BY <4>1, <4>2, <4>3
    <3>2. CASE v \notin Reliable
      <4>1. v \in Faulty
        BY <3>2 DEF Reliable, Faulty
      <4>2. /\ votes \subseteq votes' /\ \A x \in votes' \ votes : x.voter = v
            /\ \A w \in Reliable : RoundOf'[w] = RoundOf[w] /\ decided'[w] = decided[w]
        BY Zenon, <2>2, <2>3, <3>2, OwnStep DEF RoundOf, Active
      <4>3. UNCHANGED <<ReliableRound, ReliableDecided>>
        BY <4>2 DEF ReliableRound, ReliableDecided
      <4>4. \A x \in votes' \ votes : x \in Vote /\ x.voter \in Faulty
        BY Zenon, <2>2, <4>1, <4>2 DEF TypeOK
      <4> QED
        BY <4>2, <4>3, <4>4, RestartCertificates DEF VRR!Next, VRR!ByzantineStep
    <3> QED
      BY <3>1, <3>2
  <2>4. ASSUME NEW v \in Crashers, Restart(v) PROVE UNCHANGED VRR!vars
    <3>1. v \notin Reliable
      BY DEF Reliable
    <3>2. \A w \in Reliable : RoundOf'[w] = RoundOf[w] /\ decided'[w] = decided[w]
      BY Zenon, <2>2, <2>4, <3>1 DEF Restart, TypeOK, RoundOf, Active
    <3> QED
      BY Zenon, <2>4, <3>2 DEF Restart, VRR!vars, ReliableRound, ReliableDecided
  <2>5. CASE UNCHANGED vars
    <3>1. UNCHANGED <<round, votes, decided>>
      BY <2>5 DEF vars
    <3>2. \A w \in Reliable : RoundOf'[w] = RoundOf[w] /\ decided'[w] = decided[w]
      <4>1. \A w \in Honest : Active(w)' <=> Active(w)
        BY <3>1 DEF Active
      <4>2. RoundOf' = RoundOf
        BY <3>1, <4>1 DEF RoundOf
      <4> QED
        BY Zenon, <3>1, <4>2
    <3>3. UNCHANGED <<ReliableRound, ReliableDecided>>
      BY Zenon, <3>2 DEF ReliableRound, ReliableDecided
    <3> QED
      BY <3>1, <3>3 DEF VRR!vars
  <2>6. Next \/ (\E v \in Crashers : Restart(v)) \/ UNCHANGED vars
    BY <2>1 DEF RNext, rvars
  <2> QED
    BY <2>2, <2>3, <2>4, <2>5, <2>6, EveryStepIsAnEffect
<1> QED
  BY <1>1, <1>2, RestartInvariance, PTL DEF RSpec, VRR!Spec

\* Certificates agree across restarts: two COMMIT certificates of one height, of whatever
\* rounds, are for one block.
LEMMA RestartCertificatesAgree ==
  ASSUME VRR!Inv, NEW a \in Blocks, NEW b \in Blocks, NEW r \in Rounds, NEW s \in Rounds,
         CommitCert(votes, r, a), CommitCert(votes, s, b)
  PROVE  a = b
<1>1. r \in Nat /\ s \in Nat /\ (r <= s \/ s <= r)
  BY CellConstants DEF Rounds
<1>2. VRR!CommitCert(votes, r, a) /\ VRR!CommitCert(votes, s, b)
  BY RestartCertificates
<1> QED
  BY <1>1, <1>2, RestartAssumptions, VRR!CertificatesAgree

\* No two honest validators finalize different blocks at one height, also one that has
\* restarted, forgotten its votes, its lock and its decision, and decides again: as long
\* as the Byzantine and the restarting validators together stay within the fault budget.
THEOREM RestartAgreement == RSpec => []Agreement
<1>1. VRR!Spec => []VRR!Inv
  BY VRR!Invariance, RestartAssumptions, PTL
<1>2. CInv(Reliable) /\ VRR!Inv => Agreement
  <2>1. SUFFICES ASSUME CInv(Reliable), VRR!Inv, NEW v \in Honest, NEW w \in Honest,
                        decided[v] # None, decided[w] # None
                 PROVE  decided[v] = decided[w]
    BY DEF Agreement
  <2>2. decided[v] \in Blocks /\ decided[w] \in Blocks
    BY <2>1 DEF CInv, TypeOK
  <2>3. PICK r \in Rounds : CommitCert(votes, r, decided[v])
    BY ZenonT(60), <2>1 DEF CInv, Certified
  <2>4. PICK s \in Rounds : CommitCert(votes, s, decided[w])
    BY <2>1 DEF CInv, Certified
  <2> QED
    BY <2>1, <2>2, <2>3, <2>4, RestartCertificatesAgree
<1> QED
  BY <1>1, <1>2, RestartInvariance, RestartRefines, PTL
=============================================================================
