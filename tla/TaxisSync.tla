----------------------------- MODULE TaxisSync -----------------------------
(***************************************************************************)
(* Catching up: checkpoints of the executed state, state sync and restart  *)
(* (fanos-taxis/consensus.rs, chain.rs, fanos-node/taxis_driver.rs).       *)
(*                                                                         *)
(* A validator that missed the votes of a height never sees them again.    *)
(* It moves on when a newer block, or a peer it asks, shows it the COMMIT  *)
(* certificate of its height, or it jumps to a checkpoint: an executed     *)
(* state a quorum has attested.  The driver keeps the last checkpoint on   *)
(* disk, and a restarted validator starts from it.                         *)
(*                                                                         *)
(* What one height decides is TaxisCell's subject, so here a decided block *)
(* is its height.  Block h executes when block h + 1 is finalized, the     *)
(* earliest RevealWindow allows.                                           *)
(***************************************************************************)
EXTENDS CellQuorum

CONSTANTS Quiet,        \* the blocks whose execution leaves the state as it was
          Outages,      \* the sets of honest validators that may restart together
          Corruptible,  \* the honest validators whose state may go wrong
          MaxFaults,    \* bound: the restarts and corruptions of each
          MaxHeight,    \* bound: the heights decided
          None

Heights == 0 .. MaxHeight - 1

\* An executed state: that after block `height`, right or wrong.
State == [height : Heights, good : BOOLEAN]

ASSUME SyncConstants ==
  /\ Quiet \subseteq Nat
  /\ Outages \subseteq SUBSET Honest /\ Corruptible \subseteq Honest
  /\ ~ IsQuorum(Byzantine \cup Corruptible)
  /\ MaxFaults \in Nat /\ MaxHeight \in Nat \ {0}
  /\ None \notin Nat /\ None \notin State

VARIABLES
  next,        \* next[v]: height(), the height v is deciding
  done,        \* done[v]: how many blocks its state is the result of
  good,        \* good[v]: whether that state is what executing them gives
  lastCert,    \* lastCert[v]: the height of last_finalized_cert, or None
  certified,   \* certified[v]: the heights it retains a COMMIT certificate of
  parked,      \* parked[v]: pending_finalize, decided heights without the body
  bodies,      \* bodies[v]: recent_bodies, the finalized blocks it retains
  heads,       \* heads[v]: sync_heads, the executed states it retains
  checkpoint,  \* checkpoint[v]: the newest attested state it knows of, or None
  diverged,    \* diverged[v]: a quorum attested another state than v did
  disk,        \* disk[v]: the checkpoint the driver has written, or None
  execVotes,   \* every execution attestation sent
  tip,         \* how many heights the cell has decided
  faults       \* faults[v]: how often v has restarted or gone wrong

cursor == <<next, done, good, lastCert>>
retained == <<certified, parked, bodies, heads, checkpoint, diverged>>
svars == <<cursor, retained, disk, execVotes, tip, faults>>

\* state_root() after `count` blocks: a quiet block does not change it.
Root(count, isGood) == <<Cardinality((0 .. count - 1) \ Quiet), isGood>>

\* prune_recovery_retention, applied to a set of heights.
Pruned(H, ck) == IF ck = None THEN H ELSE {h \in H : h >= ck.height}

PrunedHeads(S, ck) == IF ck = None THEN S ELSE {x \in S : x.height >= ck.height}

-----------------------------------------------------------------------------
(* Deciding a height.                                                      *)

\* maybe_propose abstains above height 0 without a certificate to record.
MayPropose(v) == next[v] = 0 \/ lastCert[v] # None

\* valid_last_commit: what every peer asks of the block v then proposes.
ValidLastCommit(v) == next[v] = 0 \/ lastCert[v] = next[v] - 1

\* Mutant of CertifiedAfter: the certificate is consumed by last_finalized_cert.
CertifiedAfter_Consumed(v) == certified[v] \ {next[v]}

\* Mutant of CertifiedAfter: filed under the height that follows.
CertifiedAfter_NextHeight(v) == certified[v] \cup {next[v] + 1}

\* The certificates v holds once it finalizes: this height's is kept for its peers.
CertifiedAfter(v) == certified[v] \cup {next[v]}

\* The validators S finalize their height, holding its certificate and body.  Each
\* executes what is now due and attests the state it reaches.
Finalize(S) ==
  LET ran(v) == {x \in Heights : done[v] <= x /\ x < next[v]} IN
  /\ next' = [v \in Honest |-> IF v \in S THEN next[v] + 1 ELSE next[v]]
  /\ done' = [v \in Honest |-> IF v \in S /\ done[v] < next[v] THEN next[v] ELSE done[v]]
  /\ lastCert' = [v \in Honest |-> IF v \in S THEN next[v] ELSE lastCert[v]]
  /\ certified' = [v \in Honest |->
       IF v \in S THEN Pruned(CertifiedAfter(v), checkpoint[v]) ELSE certified[v]]
  /\ bodies' = [v \in Honest |->
       IF v \in S THEN Pruned(bodies[v] \cup {next[v]}, checkpoint[v]) ELSE bodies[v]]
  /\ parked' = [v \in Honest |-> IF v \in S THEN parked[v] \ {next[v]} ELSE parked[v]]
  /\ heads' = [v \in Honest |->
       IF v \in S
         THEN PrunedHeads(heads[v], checkpoint[v]) \cup {[height |-> x, good |-> good[v]] : x \in ran(v)}
         ELSE heads[v]]
  /\ execVotes' = execVotes \cup
       UNION {{[voter |-> v, height |-> x, good |-> good[v]] : x \in ran(v)} : v \in S}
  /\ tip' = IF \E v \in S : next[v] = tip THEN tip + 1 ELSE tip
  /\ UNCHANGED <<good, checkpoint, diverged, disk, faults>>

\* A quorum at height h votes a proposal through; S are those that hear the votes.
\* The others of the height can vote it through again in a later round.
Decide(h, S) ==
  LET at == {v \in Honest : next[v] = h} IN
  /\ IsQuorum(at \cup Byzantine)
  /\ \E p \in at \cup Byzantine : p \in Honest => MayPropose(p) /\ ValidLastCommit(p)
  /\ S # {} /\ S \subseteq at
  /\ Finalize(S)

-----------------------------------------------------------------------------
(* Certificates and bodies that arrive after the votes.                    *)

\* finalize without the body.
Park(v) ==
  /\ certified' = [certified EXCEPT ![v] = @ \cup {next[v]}]
  /\ parked' = [parked EXCEPT ![v] = @ \cup {next[v]}]
  /\ UNCHANGED <<cursor, bodies, heads, checkpoint, diverged, disk, execVotes, tip, faults>>

\* adopt_commit_cert, for v's own height: v finalizes if it has the body, which is
\* for the network to say, and else parks the decision until it gets one.
AdoptCommitCert(v) ==
  /\ next[v] \notin parked[v]
  /\ \/ Finalize({v})
     \/ Park(v)

\* adopt_certified_parent: a proposal of p's, one height up, records the certificate.
AdoptCertifiedParent(v, p) ==
  /\ next[p] = next[v] + 1
  /\ MayPropose(p) /\ ValidLastCommit(p)
  /\ AdoptCommitCert(v)

\* on_need_body answered, and on_body.
OnBody(v, p) ==
  /\ next[v] \in parked[v]
  /\ next[v] \in bodies[p]
  /\ Finalize({v})

-----------------------------------------------------------------------------
(* Checkpoints.                                                            *)

Attesters(h, isGood) == {x.voter : x \in {y \in execVotes : y.height = h /\ y.good = isGood}}

\* Mutant of Attested: the votes are grouped by height alone.
Attested_AnyRoot(h, isGood) ==
  IsQuorum(Attesters(h, TRUE) \cup Attesters(h, FALSE) \cup Byzantine)

\* The state after block h has the signatures of a certificate; a faulty validator
\* signs anything.
Attested(h, isGood) == IsQuorum(Attesters(h, isGood) \cup Byzantine)

\* try_form_checkpoint: the vote that completes a quorum at height h reaches v.  v's
\* own attestation of h is the state it retains of h.
TryFormCheckpoint(v, h, isGood) ==
  LET ck == [height |-> h, good |-> isGood] IN
  /\ checkpoint[v] # None => checkpoint[v].height < h
  /\ Attested(h, isGood)
  /\ checkpoint' = [checkpoint EXCEPT ![v] = ck]
  /\ diverged' = [diverged EXCEPT ![v] = @ \/ [height |-> h, good |-> ~isGood] \in heads[v]]
  /\ heads' = [heads EXCEPT ![v] = PrunedHeads(@, ck)]
  /\ certified' = [certified EXCEPT ![v] = Pruned(@, ck)]
  /\ bodies' = [bodies EXCEPT ![v] = Pruned(@, ck)]
  /\ UNCHANGED <<cursor, parked, disk, execVotes, tip, faults>>

\* servable_sync: the checkpoint and the snapshot it certifies are both at hand.
Servable(v) == checkpoint[v] # None /\ \E x \in heads[v] : x.height = checkpoint[v].height

\* What the driver then writes: the certificate, and the snapshot v retains.
Persist(v) ==
  /\ Servable(v)
  /\ checkpoint[v].height > (IF disk[v] = None THEN 0 ELSE disk[v].cert.height)
  /\ disk' = [disk EXCEPT ![v] =
       [cert |-> checkpoint[v],
        snapshot |-> CHOOSE x \in heads[v] : x.height = checkpoint[v].height]]
  /\ UNCHANGED <<cursor, retained, execVotes, tip, faults>>

-----------------------------------------------------------------------------
(* State sync.                                                             *)

\* maybe_request_sync: votes of a greater height, or a quorum's word, have reached v.
Asks(v) == diverged[v] \/ \E p \in Honest : next[p] > next[v]

\* on_sync_req: p contradicts v's have_root at the height below v's, if p retains it.
Contradicts(p, v) ==
  LET executed == IF next[v] = 0 THEN 0 ELSE next[v] - 1 IN
  \E x \in heads[p] : x.height = executed /\ Root(executed + 1, x.good) # Root(done[v], good[v])

\* on_sync_req answers with the checkpoint, and else with a certificate if it can.
ServesCheckpoint(p, v) ==
  /\ Servable(p)
  /\ checkpoint[p].height > next[v] \/ Contradicts(p, v)

\* Mutant of ServesCert: a request is answered with a checkpoint or not at all.
ServesCert_Never(p, v) == FALSE

ServesCert(p, v) == ~ ServesCheckpoint(p, v) /\ next[v] \in certified[p]

\* Mutant of Acceptable: no checkpoint is too old.
Acceptable_AnyHeight(v, cert, snapshot) == Attested(cert.height, cert.good) /\ snapshot = cert

\* on_sync_resp's guards: forward only, unless v knows its state is not the cell's; a
\* quorum signed the certificate; the snapshot restores to the state it names.
Acceptable(v, cert, snapshot) ==
  /\ cert.height >= next[v] \/ diverged[v]
  /\ Attested(cert.height, cert.good)
  /\ snapshot = cert

\* Mutant of Adopted: the adopted snapshot is not kept for v's own peers.
Adopted_NotKept(cert) == {}

\* The executed states v retains once it has adopted a checkpoint.
Adopted(cert) == {cert}

\* on_sync_resp: v takes over the certified state, and parks the decisions above it.
OnSyncResp(v, cert, snapshot, above) ==
  /\ Acceptable(v, cert, snapshot)
  /\ next' = [next EXCEPT ![v] = cert.height + 1]
  /\ done' = [done EXCEPT ![v] = cert.height + 1]
  /\ good' = [good EXCEPT ![v] = cert.good]
  /\ heads' = [heads EXCEPT ![v] = Adopted(cert)]
  /\ checkpoint' = [checkpoint EXCEPT ![v] = cert]
  /\ diverged' = [diverged EXCEPT ![v] = FALSE]
  /\ parked' = [parked EXCEPT ![v] = {h \in above : h > cert.height}]
  /\ certified' = [certified EXCEPT ![v] = @ \cup {h \in above : h > cert.height}]
  /\ UNCHANGED <<lastCert, bodies, disk, execVotes, tip, faults>>

\* v asks p, and p's answer reaches it.
Sync(v, p) ==
  /\ Asks(v)
  /\ \/ /\ ServesCheckpoint(p, v)
        /\ \E x \in heads[p] :
             /\ x.height = checkpoint[p].height
             /\ OnSyncResp(v, checkpoint[p], x, {h \in certified[p] : h > x.height})
     \/ /\ ServesCert(p, v)
        /\ AdoptCommitCert(v)

\* An answer that comes late, again or from a faulty validator: whatever signatures
\* exist can be sent, with any snapshot.  A parked block's proposal may still arrive.
StrayAnswer(v) ==
  \/ \E cert, snapshot \in State, above \in SUBSET (0 .. tip - 1) :
       OnSyncResp(v, cert, snapshot, above)
  \/ next[v] < tip /\ (AdoptCommitCert(v) \/ (next[v] \in parked[v] /\ Finalize({v})))

-----------------------------------------------------------------------------
(* Faults.                                                                 *)

\* The driver starts a new engine and feeds it the file, which passes on_sync_resp's
\* guards or is of no use.
Restart(S) ==
  LET usable(v) == disk[v] # None /\ disk[v].snapshot = disk[v].cert
      height(v) == IF usable(v) THEN disk[v].cert.height + 1 ELSE 0
      restarted(f, to(_)) == [v \in Honest |-> IF v \in S THEN to(v) ELSE f[v]]
      empty(v) == {} IN
  /\ \A v \in S : faults[v] < MaxFaults
  /\ faults' = [v \in Honest |-> IF v \in S THEN faults[v] + 1 ELSE faults[v]]
  /\ next' = restarted(next, height)
  /\ done' = restarted(done, height)
  /\ good' = restarted(good, LAMBDA v : ~usable(v) \/ disk[v].cert.good)
  /\ lastCert' = restarted(lastCert, LAMBDA v : None)
  /\ heads' = restarted(heads, LAMBDA v : IF usable(v) THEN Adopted(disk[v].cert) ELSE {})
  /\ checkpoint' = restarted(checkpoint, LAMBDA v : IF usable(v) THEN disk[v].cert ELSE None)
  /\ diverged' = restarted(diverged, LAMBDA v : FALSE)
  /\ parked' = restarted(parked, empty)
  /\ certified' = restarted(certified, empty)
  /\ bodies' = restarted(bodies, empty)
  /\ disk' = restarted(disk, LAMBDA v : IF usable(v) THEN disk[v] ELSE None)
  /\ UNCHANGED <<execVotes, tip>>

\* The fault `diverged` exists for: v's executed state is not the cell's.
GoWrong(v) ==
  /\ good[v] /\ faults[v] < MaxFaults
  /\ good' = [good EXCEPT ![v] = FALSE]
  /\ faults' = [faults EXCEPT ![v] = @ + 1]
  /\ UNCHANGED <<next, done, lastCert, retained, disk, execVotes, tip>>

-----------------------------------------------------------------------------
SInit ==
  /\ next = [v \in Honest |-> 0] /\ done = [v \in Honest |-> 0]
  /\ good = [v \in Honest |-> TRUE] /\ lastCert = [v \in Honest |-> None]
  /\ certified = [v \in Honest |-> {}] /\ parked = [v \in Honest |-> {}]
  /\ bodies = [v \in Honest |-> {}] /\ heads = [v \in Honest |-> {}]
  /\ checkpoint = [v \in Honest |-> None] /\ diverged = [v \in Honest |-> FALSE]
  /\ disk = [v \in Honest |-> None] /\ execVotes = {} /\ tip = 0
  /\ faults = [v \in Honest |-> 0]

CatchUp(v) == \E p \in Honest : AdoptCertifiedParent(v, p) \/ OnBody(v, p) \/ Sync(v, p)

SNext ==
  \/ \E h \in Heights, S \in SUBSET Honest : Decide(h, S)
  \/ \E v \in Honest :
       \/ CatchUp(v)
       \/ StrayAnswer(v)
       \/ \E h \in Heights, isGood \in BOOLEAN : TryFormCheckpoint(v, h, isGood)
       \/ Persist(v)
  \/ \E S \in Outages : Restart(S)
  \/ \E v \in Corruptible : GoWrong(v)

SSpec == SInit /\ [][SNext]_svars

\* A quorum of honest validators at one height, one of which may propose, decides it:
\* the faulty ones help at most as long as they like.
HonestDecide ==
  \E h \in Heights, S \in SUBSET Honest :
     LET at == {v \in Honest : next[v] = h} IN
     /\ IsQuorum(at)
     /\ \E p \in at : MayPropose(p) /\ ValidLastCommit(p)
     /\ Decide(h, S)

HonestCheckpoint(v) ==
  \E h \in Heights, isGood \in BOOLEAN :
     IsQuorum(Attesters(h, isGood)) /\ TryFormCheckpoint(v, h, isGood)

\* The rota reaches every validator, every lagging validator asks again at each tick,
\* a request sent again and again is answered, and honest attestations arrive.
SFairSpec ==
  /\ SSpec
  /\ WF_svars(HonestDecide)
  /\ \A v \in Honest : WF_svars(CatchUp(v)) /\ WF_svars(HonestCheckpoint(v))

-----------------------------------------------------------------------------
STypeOK ==
  /\ next \in [Honest -> 0 .. MaxHeight] /\ done \in [Honest -> 0 .. MaxHeight]
  /\ good \in [Honest -> BOOLEAN] /\ diverged \in [Honest -> BOOLEAN]
  /\ lastCert \in [Honest -> Heights \cup {None}]
  /\ certified \in [Honest -> SUBSET Heights] /\ parked \in [Honest -> SUBSET Heights]
  /\ bodies \in [Honest -> SUBSET Heights] /\ heads \in [Honest -> SUBSET State]
  /\ checkpoint \in [Honest -> State \cup {None}]
  /\ disk \in [Honest -> [cert : State, snapshot : State] \cup {None}]
  /\ execVotes \subseteq [voter : Honest, height : Heights, good : BOOLEAN]
  /\ tip \in 0 .. MaxHeight /\ faults \in [Honest -> 0 .. MaxFaults]

\* A divergent minority's root never forms a certificate (try_form_checkpoint), in
\* memory, on disk or handed over by a peer.
CheckpointsAreRight ==
  \A v \in Honest : /\ checkpoint[v] # None => checkpoint[v].good
                    /\ disk[v] # None => disk[v].cert.good

\* What v serves leads to its own head: it holds the certificate and the body of every
\* height between its checkpoint and the height it is deciding, whichever way it came
\* by them (finalize, on_sync_resp, prune_recovery_retention).
ServesUpToItsHead ==
  \A v \in Honest : Servable(v) =>
     checkpoint[v].height + 1 .. next[v] - 1 \subseteq certified[v] \cap bodies[v]

\* A validator that has executed as far as its checkpoint can serve it, also when it was
\* itself rescued or restarted a moment ago (on_sync_resp, prune_recovery_retention).
RescuedCanServe ==
  \A v \in Honest : (checkpoint[v] # None /\ checkpoint[v].height < done[v]) => Servable(v)

\* A validator that has no evidence against its state and does not restart never gives
\* up a height it has decided (on_sync_resp, "forward-only").
NoRollback ==
  [][\A v \in Honest : next'[v] < next[v] => diverged[v] \/ faults'[v] # faults[v]]_svars

\* Every validator reaches the last height and stays there, also one that restarts from
\* its disk or from genesis: the votes it missed never come again, but the certificates,
\* the bodies and the checkpoints its peers retain bring it there (on_sync_req).
EveryoneCatchesUp == <>[](\A v \in Honest : next[v] = MaxHeight)

\* TaxisParams::state_dir: when every validator restarts with a checkpoint on its disk,
\* "the cell can re-seed itself".
WholeCellResumes ==
  (\A v \in Honest : faults[v] > 0 /\ disk[v] # None) ~> (\A v \in Honest : next[v] = MaxHeight)

\* maybe_propose abstains "rather than broadcast a block peers will reject".
ProposalsRecordTheParent == \A v \in Honest : MayPropose(v) => ValidLastCommit(v)

\* servable_sync returns "the current checkpoint and the snapshot it certifies".
ServedSnapshotIsCertified ==
  \A v \in Honest : Servable(v) => \E x \in heads[v] : x = checkpoint[v]

\* on_sync_req: have_root "is the state it holds after executing the one below it", so a
\* requester whose state is right is not contradicted.
HealthyNotContradicted ==
  \A p, v \in Honest : (\A x \in heads[p] : x.good) /\ good[v] => ~ Contradicts(p, v)

\* try_form_checkpoint: a validator level with the cell that has attested another state
\* than its checkpoint's knows it.
DivergenceNoticed ==
  \A v \in Honest :
     (/\ checkpoint[v] # None /\ next[v] = tip /\ ~good[v]
      /\ [height |-> checkpoint[v].height, good |-> FALSE] \in heads[v]) => diverged[v]
=============================================================================
