--------------------------- MODULE TaxisSyncProofs ---------------------------
(***************************************************************************)
(* What TaxisSync promises, proved for every cell, every set of validators *)
(* that may restart together and every minority whose state may go wrong.  *)
(***************************************************************************)
EXTENDS TaxisSync, FiniteSetTheorems, TLAPS

\* Only a validator whose state may go wrong has a wrong one, or has attested one.
WrongStates ==
  /\ \A v \in Honest : ~good[v] => v \in Corruptible
  /\ \A x \in execVotes : ~x.good => x.voter \in Corruptible

\* v keeps the certificate and the body of every block it has decided above its
\* checkpoint, also of a checkpoint it has not reached yet and cannot serve.
RetainsBlocks ==
  \A v \in Honest, h \in Heights :
     (h < next[v] /\ (checkpoint[v] = None \/ checkpoint[v].height < h))
        => h \in certified[v] /\ h \in bodies[v]

\* v keeps the state after every block it has executed from its checkpoint on.
RetainsStates ==
  \A v \in Honest, h \in Heights :
     (h < done[v] /\ (checkpoint[v] = None \/ checkpoint[v].height <= h))
        => \E x \in heads[v] : x.height = h

\* The inductive invariant.
SInv == STypeOK /\ CheckpointsAreRight /\ WrongStates /\ RetainsBlocks /\ RetainsStates

-----------------------------------------------------------------------------
(* The steps, by what they do to a validator.                              *)

\* The actions of SNext that share a body, with the guard their callers give it.
Finalizes(S) == (\A v \in S : next[v] < MaxHeight) /\ Finalize(S)

Parks(v) == next[v] < MaxHeight /\ Park(v)

\* Every step finalizes, parks, adopts, forms, writes, restarts or goes wrong, at a
\* height of the cell.
LEMMA StepForms ==
  ASSUME STypeOK, SNext
  PROVE  \/ \E S \in SUBSET Honest : Finalizes(S)
         \/ \E v \in Honest : Parks(v)
         \/ \E v \in Honest, cert \in State, snapshot \in State, above \in SUBSET Heights :
               OnSyncResp(v, cert, snapshot, above)
         \/ \E v \in Honest, h \in Heights, isGood \in BOOLEAN : TryFormCheckpoint(v, h, isGood)
         \/ \E v \in Honest : Persist(v)
         \/ \E S \in SUBSET Honest : Restart(S)
         \/ \E v \in Corruptible : GoWrong(v)
<1> DEFINE Goal == \/ \E S \in SUBSET Honest : Finalizes(S)
                   \/ \E v \in Honest : Parks(v)
                   \/ \E v \in Honest, cert \in State, snapshot \in State, above \in SUBSET Heights :
                         OnSyncResp(v, cert, snapshot, above)
<1>1. ASSUME NEW h \in Heights, NEW S \in SUBSET Honest, Decide(h, S) PROVE Goal
  <2>1. \A v \in S : next[v] < MaxHeight
    BY <1>1, SyncConstants DEF Decide, Heights
  <2>2. Finalizes(S)
    BY <1>1, <2>1 DEF Decide, Finalizes
  <2> QED
    BY <2>2
<1>2. ASSUME NEW v \in Honest, next[v] < MaxHeight, Finalize({v}) \/ AdoptCommitCert(v) PROVE Goal
  <2>1. CASE Finalize({v})
    <3>1. Finalizes({v}) /\ {v} \in SUBSET Honest
      BY <1>2, <2>1 DEF Finalizes
    <3> QED
      BY <3>1
  <2>2. CASE Park(v)
    BY <1>2, <2>2 DEF Parks
  <2> QED
    BY <1>2, <2>1, <2>2 DEF AdoptCommitCert
<1>3. ASSUME NEW v \in Honest, NEW p \in Honest, AdoptCertifiedParent(v, p) PROVE Goal
  <2>1. next[v] < MaxHeight
    BY <1>3, SyncConstants DEF AdoptCertifiedParent, STypeOK
  <2> QED
    BY Zenon, <1>2, <1>3, <2>1 DEF AdoptCertifiedParent
<1>4. ASSUME NEW v \in Honest, NEW p \in Honest, OnBody(v, p) PROVE Goal
  <2>1. next[v] \in Heights
    BY <1>4 DEF OnBody, STypeOK
  <2>2. next[v] < MaxHeight
    BY <2>1, SyncConstants DEF Heights
  <2> QED
    BY <1>2, <1>4, <2>2 DEF OnBody
<1>5. ASSUME NEW v \in Honest, NEW p \in Honest, Sync(v, p) PROVE Goal
  <2>1. CASE ServesCert(p, v) /\ AdoptCommitCert(v)
    <3>1. next[v] \in Heights
      BY <2>1 DEF ServesCert, STypeOK
    <3>2. next[v] < MaxHeight
      BY <3>1, SyncConstants DEF Heights
    <3> QED
      BY Zenon, <1>2, <2>1, <3>2
  <2>2. ASSUME ServesCheckpoint(p, v), NEW x \in heads[p],
               OnSyncResp(v, checkpoint[p], x, {h \in certified[p] : h > x.height})
        PROVE  Goal
    <3>1. checkpoint[p] \in State /\ x \in State
      BY <2>2 DEF ServesCheckpoint, Servable, STypeOK
    <3>2. {h \in certified[p] : h > x.height} \in SUBSET Heights
      BY DEF STypeOK
    <3> QED
      BY <2>2, <3>1, <3>2
  <2> QED
    BY Zenon, <1>5, <2>1, <2>2 DEF Sync
<1>6. ASSUME NEW v \in Honest, StrayAnswer(v) PROVE Goal
  <2>1. 0 .. tip - 1 \subseteq Heights
    BY SyncConstants DEF STypeOK, Heights
  <2>2. ASSUME NEW cert \in State, NEW snapshot \in State, NEW above \in SUBSET (0 .. tip - 1),
               OnSyncResp(v, cert, snapshot, above)
        PROVE  Goal
    <3>1. above \in SUBSET Heights
      BY <2>1
    <3> QED
      BY <2>2, <3>1
  <2>3. CASE next[v] < tip /\ (AdoptCommitCert(v) \/ Finalize({v}))
    <3>1. next[v] < MaxHeight
      BY <2>3, SyncConstants DEF STypeOK
    <3> QED
      BY <1>2, <2>3, <3>1
  <2> QED
    BY <1>6, <2>2, <2>3 DEF StrayAnswer
<1>7. Outages \subseteq SUBSET Honest
  BY SyncConstants
<1> HIDE DEF Goal
<1>8. \/ Goal
      \/ \E v \in Honest, h \in Heights, isGood \in BOOLEAN : TryFormCheckpoint(v, h, isGood)
      \/ \E v \in Honest : Persist(v)
      \/ \E S \in SUBSET Honest : Restart(S)
      \/ \E v \in Corruptible : GoWrong(v)
  BY <1>1, <1>3, <1>4, <1>5, <1>6, <1>7 DEF SNext, CatchUp
<1> QED
  BY <1>8 DEF Goal

-----------------------------------------------------------------------------
(* Wrong states.                                                           *)

\* Faulty validators and those whose state went wrong are no quorum together, so a wrong
\* state never has the signatures of a certificate.
LEMMA NoWrongCertificate ==
  ASSUME WrongStates, NEW h PROVE ~ Attested(h, FALSE)
<1> DEFINE A == Attesters(h, FALSE) \cup Byzantine
           B == Byzantine \cup Corruptible
<1>1. A \subseteq B
  BY DEF Attesters, WrongStates
<1>2. B \subseteq Validators
  BY CellAssumption, SyncConstants DEF Honest
<1>3. IsFiniteSet(B)
  BY <1>2, CellAssumption, FS_Subset
<1>4. IsFiniteSet(A) /\ Cardinality(A) <= Cardinality(B)
  BY Zenon, <1>1, <1>3, FS_Subset
<1>5. Cardinality(A) \in Nat /\ Cardinality(B) \in Nat /\ N \in Nat
  BY <1>3, <1>4, CellAssumption, FS_CardinalityType DEF N
<1>6. Q \in Int
  BY <1>5 DEF Q, F
<1>7. ~ (Cardinality(B) >= Q)
  BY SyncConstants DEF IsQuorum
<1> HIDE DEF A, B
<1>8. ~ (Cardinality(A) >= Q)
  BY <1>4, <1>5, <1>6, <1>7
<1> QED
  BY <1>8 DEF Attested, IsQuorum, A

\* What a certificate names is therefore the right state.
LEMMA CertifiedIsRight ==
  ASSUME WrongStates, NEW h, NEW isGood \in BOOLEAN, Attested(h, isGood) PROVE isGood
BY Zenon, NoWrongCertificate

\* A wrong state comes only from GoWrong, and is attested only by those who hold it.
LEMMA WrongStatesStep ==
  ASSUME SInv, [SNext]_svars PROVE WrongStates'
<1> USE DEF SInv
<1>1. ASSUME NEW S \in SUBSET Honest, Finalizes(S) PROVE WrongStates'
  BY <1>1 DEF Finalizes, Finalize, WrongStates
<1>2. ASSUME UNCHANGED <<good, execVotes>> PROVE WrongStates'
  BY <1>2 DEF WrongStates
<1>3. ASSUME NEW v \in Honest, NEW cert \in State, NEW snapshot, NEW above,
             OnSyncResp(v, cert, snapshot, above)
      PROVE  WrongStates'
  <2>1. cert.good \in BOOLEAN /\ Attested(cert.height, cert.good)
    BY <1>3 DEF OnSyncResp, Acceptable, State
  <2>2. cert.good
    BY <2>1, CertifiedIsRight
  <2> QED
    BY <1>3, <2>2 DEF OnSyncResp, WrongStates, STypeOK
<1>4. ASSUME NEW S \in SUBSET Honest, Restart(S) PROVE WrongStates'
  <2>1. /\ execVotes' = execVotes
        /\ \A v \in Honest : good'[v] = IF v \in S
             THEN ~(disk[v] # None /\ disk[v].snapshot = disk[v].cert) \/ disk[v].cert.good
             ELSE good[v]
    BY <1>4 DEF Restart
  <2>2. \A v \in Honest : ~good'[v] => ~good[v]
    BY Zenon, <2>1 DEF CheckpointsAreRight
  <2> QED
    BY <2>1, <2>2 DEF WrongStates
<1>5. ASSUME NEW v \in Corruptible, GoWrong(v) PROVE WrongStates'
  BY <1>5, SyncConstants DEF GoWrong, WrongStates, STypeOK
<1> QED
  BY Zenon, StepForms, <1>1, <1>2, <1>3, <1>4, <1>5
     DEF Parks, Park, TryFormCheckpoint, Persist, cursor, svars

\* A checkpoint is formed, adopted, written and read back only with its certificate.
LEMMA CheckpointsStep ==
  ASSUME SInv, [SNext]_svars PROVE CheckpointsAreRight'
<1> USE DEF SInv
<1>1. ASSUME UNCHANGED <<checkpoint, disk>> PROVE CheckpointsAreRight'
  BY <1>1 DEF CheckpointsAreRight
<1>2. ASSUME NEW v \in Honest, NEW cert \in State, NEW snapshot, NEW above,
             OnSyncResp(v, cert, snapshot, above)
      PROVE  CheckpointsAreRight'
  <2>1. cert.good \in BOOLEAN /\ Attested(cert.height, cert.good)
    BY <1>2 DEF OnSyncResp, Acceptable, State
  <2>2. cert.good
    BY <2>1, CertifiedIsRight
  <2> QED
    BY <1>2, <2>2 DEF OnSyncResp, CheckpointsAreRight, STypeOK
<1>3. ASSUME NEW v \in Honest, NEW h \in Heights, NEW isGood \in BOOLEAN,
             TryFormCheckpoint(v, h, isGood)
      PROVE  CheckpointsAreRight'
  <2>1. isGood
    BY <1>3, CertifiedIsRight DEF TryFormCheckpoint
  <2> QED
    BY <1>3, <2>1 DEF TryFormCheckpoint, CheckpointsAreRight, STypeOK
<1>4. ASSUME NEW v \in Honest, Persist(v) PROVE CheckpointsAreRight'
  BY <1>4 DEF Persist, Servable, retained, CheckpointsAreRight, STypeOK
<1>5. ASSUME NEW S \in SUBSET Honest, Restart(S) PROVE CheckpointsAreRight'
  <2> DEFINE usable(v) == disk[v] # None /\ disk[v].snapshot = disk[v].cert
  <2>1. \A v \in Honest :
          /\ checkpoint'[v] = IF v \in S THEN IF usable(v) THEN disk[v].cert ELSE None ELSE checkpoint[v]
          /\ disk'[v] = IF v \in S THEN IF usable(v) THEN disk[v] ELSE None ELSE disk[v]
    BY <1>5 DEF Restart
  <2> QED
    BY <2>1 DEF CheckpointsAreRight
<1> QED
  BY StepForms, <1>1, <1>2, <1>3, <1>4, <1>5
     DEF Finalizes, Finalize, Parks, Park, GoWrong, retained, svars

-----------------------------------------------------------------------------
(* Types.                                                                  *)

\* Every height below MaxHeight is one, and so is the height after it or MaxHeight.
LEMMA HeightFacts ==
  /\ \A h \in Heights : h \in Nat /\ h < MaxHeight /\ h + 1 \in 0 .. MaxHeight /\ h \in 0 .. MaxHeight
  /\ \A h \in 0 .. MaxHeight : h \in Nat /\ (h < MaxHeight => h \in Heights)
  /\ MaxHeight \in Nat
BY SyncConstants DEF Heights

\* A state is a height and whether it is right.
LEMMA StateFacts ==
  /\ \A x \in State : x.height \in Heights /\ x.good \in BOOLEAN /\ x # None
  /\ \A h \in Heights, isGood \in BOOLEAN : [height |-> h, good |-> isGood] \in State
BY SyncConstants DEF State

\* Finalizing keeps every cursor and every retained height within the cell's heights.
LEMMA FinalizeType ==
  ASSUME STypeOK, NEW S \in SUBSET Honest, Finalizes(S) PROVE STypeOK'
<1> USE HeightFacts, StateFacts
<1>1. \A v \in S : next[v] \in Heights
  BY DEF Finalizes, STypeOK
<1>2. next' \in [Honest -> 0 .. MaxHeight]
  BY <1>1 DEF Finalizes, Finalize, STypeOK
<1>3. done' \in [Honest -> 0 .. MaxHeight]
  BY DEF Finalizes, Finalize, STypeOK
<1>4. lastCert' \in [Honest -> Heights \cup {None}]
  BY <1>1 DEF Finalizes, Finalize, STypeOK
<1>5. certified' \in [Honest -> SUBSET Heights]
  BY <1>1 DEF Finalizes, Finalize, CertifiedAfter, Pruned, STypeOK
<1>6. bodies' \in [Honest -> SUBSET Heights]
  BY <1>1 DEF Finalizes, Finalize, Pruned, STypeOK
<1>7. parked' \in [Honest -> SUBSET Heights]
  BY DEF Finalizes, Finalize, STypeOK
<1>8. heads' \in [Honest -> SUBSET State]
  <2> DEFINE ran(v) == {x \in Heights : done[v] <= x /\ x < next[v]}
             to(v) == IF v \in S
                        THEN PrunedHeads(heads[v], checkpoint[v]) \cup {[height |-> x, good |-> good[v]] : x \in ran(v)}
                        ELSE heads[v]
  <2>1. heads' = [v \in Honest |-> to(v)]
    BY DEF Finalizes, Finalize
  <2>2. ASSUME NEW v \in Honest PROVE to(v) \in SUBSET State
    <3>1. heads[v] \in SUBSET State /\ good[v] \in BOOLEAN
      BY DEF STypeOK
    <3>2. PrunedHeads(heads[v], checkpoint[v]) \in SUBSET State
      BY <3>1 DEF PrunedHeads
    <3> QED
      BY <3>1, <3>2
  <2> QED
    BY <2>1, <2>2
<1>9. execVotes' \subseteq [voter : Honest, height : Heights, good : BOOLEAN]
  <2>1. \A v \in S : good[v] \in BOOLEAN
    BY DEF STypeOK
  <2>2. execVotes \subseteq [voter : Honest, height : Heights, good : BOOLEAN]
    BY DEF STypeOK
  <2>3. execVotes' = execVotes \cup
          UNION {{[voter |-> v, height |-> x, good |-> good[v]] :
                    x \in {y \in Heights : done[v] <= y /\ y < next[v]}} : v \in S}
    BY DEF Finalizes, Finalize
  <2>4. ASSUME NEW e \in execVotes', e \notin execVotes
        PROVE  e \in [voter : Honest, height : Heights, good : BOOLEAN]
    <3>1. PICK v \in S, x \in Heights : e = [voter |-> v, height |-> x, good |-> good[v]]
      BY <2>3, <2>4
    <3> QED
      BY <2>1, <3>1
  <2> QED
    BY <2>2, <2>4
<1>10. tip' \in 0 .. MaxHeight
  BY <1>1 DEF Finalizes, Finalize, STypeOK
<1>11. /\ good' \in [Honest -> BOOLEAN] /\ diverged' \in [Honest -> BOOLEAN]
       /\ checkpoint' \in [Honest -> State \cup {None}]
       /\ disk' \in [Honest -> [cert : State, snapshot : State] \cup {None}]
       /\ faults' \in [Honest -> 0 .. MaxFaults]
  BY DEF Finalizes, Finalize, STypeOK
<1> QED
  BY <1>2, <1>3, <1>4, <1>5, <1>6, <1>7, <1>8, <1>9, <1>10, <1>11 DEF STypeOK

\* The file passes on_sync_resp's guards: its snapshot is the one its certificate names.
Usable(v) == disk[v] # None /\ disk[v].snapshot = disk[v].cert

\* The function f with the entries of S replaced.
Restarted(f, S, g) == [v \in Honest |-> IF v \in S THEN g[v] ELSE f[v]]

\* Restarting leads back to the height after the written checkpoint, or to genesis.
LEMMA RestartForm ==
  ASSUME NEW S \in SUBSET Honest, Restart(S)
  PROVE  /\ next' = Restarted(next, S, [v \in Honest |-> IF Usable(v) THEN disk[v].cert.height + 1 ELSE 0])
         /\ done' = Restarted(done, S, [v \in Honest |-> IF Usable(v) THEN disk[v].cert.height + 1 ELSE 0])
         /\ good' = Restarted(good, S, [v \in Honest |-> ~Usable(v) \/ disk[v].cert.good])
         /\ lastCert' = Restarted(lastCert, S, [v \in Honest |-> None])
         /\ heads' = Restarted(heads, S, [v \in Honest |-> IF Usable(v) THEN {disk[v].cert} ELSE {}])
         /\ checkpoint' = Restarted(checkpoint, S, [v \in Honest |-> IF Usable(v) THEN disk[v].cert ELSE None])
         /\ diverged' = Restarted(diverged, S, [v \in Honest |-> FALSE])
         /\ parked' = Restarted(parked, S, [v \in Honest |-> {}])
         /\ certified' = Restarted(certified, S, [v \in Honest |-> {}])
         /\ bodies' = Restarted(bodies, S, [v \in Honest |-> {}])
         /\ disk' = Restarted(disk, S, [v \in Honest |-> IF Usable(v) THEN disk[v] ELSE None])
         /\ faults' = Restarted(faults, S, [v \in Honest |-> faults[v] + 1])
         /\ execVotes' = execVotes /\ tip' = tip /\ \A v \in S : faults[v] < MaxFaults
BY DEF Restart, Adopted, Usable, Restarted

\* The same, for the validator v.
LEMMA RestartOf ==
  ASSUME NEW S \in SUBSET Honest, Restart(S), NEW v \in Honest
  PROVE  /\ v \notin S =>
              /\ next'[v] = next[v] /\ done'[v] = done[v] /\ faults'[v] = faults[v]
              /\ checkpoint'[v] = checkpoint[v] /\ heads'[v] = heads[v]
              /\ certified'[v] = certified[v] /\ bodies'[v] = bodies[v]
         /\ v \in S => faults'[v] = faults[v] + 1
         /\ (v \in S /\ Usable(v)) =>
              /\ next'[v] = disk[v].cert.height + 1 /\ done'[v] = disk[v].cert.height + 1
              /\ checkpoint'[v] = disk[v].cert /\ heads'[v] = {disk[v].cert}
         /\ (v \in S /\ ~Usable(v)) => next'[v] = 0 /\ done'[v] = 0
<1> DEFINE H == [u \in Honest |-> IF Usable(u) THEN disk[u].cert.height + 1 ELSE 0]
           C == [u \in Honest |-> IF Usable(u) THEN disk[u].cert ELSE None]
           X == [u \in Honest |-> IF Usable(u) THEN {disk[u].cert} ELSE {}]
<1>1. next' = Restarted(next, S, H) /\ done' = Restarted(done, S, H)
  BY Zenon, RestartForm
<1>2. checkpoint' = Restarted(checkpoint, S, C) /\ heads' = Restarted(heads, S, X)
  BY Zenon, RestartForm
<1>3. /\ certified' = Restarted(certified, S, [u \in Honest |-> {}])
      /\ bodies' = Restarted(bodies, S, [u \in Honest |-> {}])
      /\ faults' = Restarted(faults, S, [u \in Honest |-> faults[u] + 1])
  BY Zenon, RestartForm
<1> QED
  BY <1>1, <1>2, <1>3 DEF Restarted

\* A function restarted within its type keeps it.
LEMMA RestartedType ==
  ASSUME NEW T, NEW f \in [Honest -> T], NEW S \in SUBSET Honest, NEW g,
         \A v \in S : g[v] \in T
  PROVE  Restarted(f, S, g) \in [Honest -> T]
BY DEF Restarted

\* Restarting keeps every variable within its type.
LEMMA RestartType ==
  ASSUME STypeOK, NEW S \in SUBSET Honest, Restart(S) PROVE STypeOK'
<1>1. \A v \in Honest : Usable(v) => /\ disk[v] \in [cert : State, snapshot : State]
                                     /\ disk[v].cert \in State
  BY DEF Usable, STypeOK
<1>2. \A v \in Honest : Usable(v) => /\ disk[v].cert.height + 1 \in 0 .. MaxHeight
                                     /\ disk[v].cert.good \in BOOLEAN
  BY <1>1, HeightFacts, StateFacts
<1>3. next' \in [Honest -> 0 .. MaxHeight]
  <2> DEFINE g == [v \in Honest |-> IF Usable(v) THEN disk[v].cert.height + 1 ELSE 0]
  <2>1. next' = Restarted(next, S, g)
    BY Zenon, RestartForm
  <2>2. \A v \in S : g[v] \in 0 .. MaxHeight
    BY <1>2, HeightFacts
  <2> HIDE DEF g
  <2> QED
    BY Zenon, <2>1, <2>2, RestartedType DEF STypeOK
<1>4. done' \in [Honest -> 0 .. MaxHeight]
  <2> DEFINE g == [v \in Honest |-> IF Usable(v) THEN disk[v].cert.height + 1 ELSE 0]
  <2>1. done' = Restarted(done, S, g)
    BY Zenon, RestartForm
  <2>2. \A v \in S : g[v] \in 0 .. MaxHeight
    BY <1>2, HeightFacts
  <2> HIDE DEF g
  <2> QED
    BY Zenon, <2>1, <2>2, RestartedType DEF STypeOK
<1>5. good' \in [Honest -> BOOLEAN]
  <2> DEFINE g == [v \in Honest |-> ~Usable(v) \/ disk[v].cert.good]
  <2>1. good' = Restarted(good, S, g)
    BY Zenon, RestartForm
  <2>2. \A v \in S : g[v] \in BOOLEAN
    BY Zenon, <1>2
  <2> HIDE DEF g
  <2> QED
    BY Zenon, <2>1, <2>2, RestartedType DEF STypeOK
<1>6. heads' \in [Honest -> SUBSET State]
  <2> DEFINE g == [v \in Honest |-> IF Usable(v) THEN {disk[v].cert} ELSE {}]
  <2>1. heads' = Restarted(heads, S, g)
    BY Zenon, RestartForm
  <2>2. \A v \in S : g[v] \in SUBSET State
    BY <1>1
  <2> HIDE DEF g
  <2> QED
    BY Zenon, <2>1, <2>2, RestartedType DEF STypeOK
<1>7. checkpoint' \in [Honest -> State \cup {None}]
  <2> DEFINE g == [v \in Honest |-> IF Usable(v) THEN disk[v].cert ELSE None]
  <2>1. checkpoint' = Restarted(checkpoint, S, g)
    BY Zenon, RestartForm
  <2>2. \A v \in S : g[v] \in (State \cup {None})
    BY <1>1
  <2> HIDE DEF g
  <2> QED
    BY Zenon, <2>1, <2>2, RestartedType DEF STypeOK
<1>8. disk' \in [Honest -> [cert : State, snapshot : State] \cup {None}]
  <2> DEFINE g == [v \in Honest |-> IF Usable(v) THEN disk[v] ELSE None]
  <2>1. disk' = Restarted(disk, S, g)
    BY Zenon, RestartForm
  <2>2. \A v \in S : g[v] \in ([cert : State, snapshot : State] \cup {None})
    BY <1>1
  <2> HIDE DEF g
  <2> QED
    BY Zenon, <2>1, <2>2, RestartedType DEF STypeOK
<1>9. faults' \in [Honest -> 0 .. MaxFaults]
  <2> DEFINE g == [v \in Honest |-> faults[v] + 1]
  <2>1. faults' = Restarted(faults, S, g)
    BY Zenon, RestartForm
  <2>2. \A v \in S : g[v] \in 0 .. MaxFaults
    <3>1. \A v \in S : faults[v] < MaxFaults
      BY Zenon, RestartForm
    <3>2. \A v \in S : faults[v] \in 0 .. MaxFaults
      BY DEF STypeOK
    <3> QED
      BY <3>1, <3>2, SyncConstants
  <2> HIDE DEF g
  <2> QED
    BY Zenon, <2>1, <2>2, RestartedType DEF STypeOK
<1>10. lastCert' \in [Honest -> Heights \cup {None}]
  <2> DEFINE g == [v \in Honest |-> None]
  <2>1. lastCert' = Restarted(lastCert, S, g)
    BY Zenon, RestartForm
  <2>2. \A v \in S : g[v] \in (Heights \cup {None})
    OBVIOUS
  <2> HIDE DEF g
  <2> QED
    BY Zenon, <2>1, <2>2, RestartedType DEF STypeOK
<1>11. diverged' \in [Honest -> BOOLEAN]
  <2> DEFINE g == [v \in Honest |-> FALSE]
  <2>1. diverged' = Restarted(diverged, S, g)
    BY Zenon, RestartForm
  <2>2. \A v \in S : g[v] \in BOOLEAN
    BY Zenon
  <2> HIDE DEF g
  <2> QED
    BY SMTT(60), <2>1, <2>2, RestartedType DEF STypeOK
<1>12. parked' \in [Honest -> SUBSET Heights]
  <2> DEFINE g == [v \in Honest |-> {}]
  <2>1. parked' = Restarted(parked, S, g)
    BY Zenon, RestartForm
  <2>2. \A v \in S : g[v] \in SUBSET Heights
    OBVIOUS
  <2> HIDE DEF g
  <2> QED
    BY Zenon, <2>1, <2>2, RestartedType DEF STypeOK
<1>13. certified' \in [Honest -> SUBSET Heights]
  <2> DEFINE g == [v \in Honest |-> {}]
  <2>1. certified' = Restarted(certified, S, g)
    BY Zenon, RestartForm
  <2>2. \A v \in S : g[v] \in SUBSET Heights
    OBVIOUS
  <2> HIDE DEF g
  <2> QED
    BY Zenon, <2>1, <2>2, RestartedType DEF STypeOK
<1>14. bodies' \in [Honest -> SUBSET Heights]
  <2> DEFINE g == [v \in Honest |-> {}]
  <2>1. bodies' = Restarted(bodies, S, g)
    BY Zenon, RestartForm
  <2>2. \A v \in S : g[v] \in SUBSET Heights
    OBVIOUS
  <2> HIDE DEF g
  <2> QED
    BY Zenon, <2>1, <2>2, RestartedType DEF STypeOK
<1>15. execVotes' = execVotes /\ tip' = tip
  BY Zenon, RestartForm
<1> QED
  BY <1>3, <1>4, <1>5, <1>6, <1>7, <1>8, <1>9, <1>10, <1>11, <1>12, <1>13, <1>14, <1>15 DEF STypeOK

\* The other steps, one validator at a time.
LEMMA TypeStep ==
  ASSUME STypeOK, [SNext]_svars PROVE STypeOK'
<1> USE HeightFacts, StateFacts
<1>1. ASSUME NEW v \in Honest, Parks(v) PROVE STypeOK'
  <2>1. next[v] \in Heights
    BY <1>1 DEF Parks, STypeOK
  <2> QED
    BY <1>1, <2>1 DEF Parks, Park, cursor, STypeOK
<1>2. ASSUME NEW v \in Honest, NEW cert \in State, NEW snapshot, NEW above \in SUBSET Heights,
             OnSyncResp(v, cert, snapshot, above)
      PROVE  STypeOK'
  BY <1>2 DEF OnSyncResp, Adopted, STypeOK
<1>3. ASSUME NEW v \in Honest, NEW h \in Heights, NEW isGood \in BOOLEAN,
             TryFormCheckpoint(v, h, isGood)
      PROVE  STypeOK'
  BY <1>3 DEF TryFormCheckpoint, Pruned, PrunedHeads, cursor, STypeOK
<1>4. ASSUME NEW v \in Honest, Persist(v) PROVE STypeOK'
  <2> DEFINE snap == CHOOSE x \in heads[v] : x.height = checkpoint[v].height
  <2>1. checkpoint[v] \in State /\ snap \in heads[v] /\ snap \in State
    BY <1>4 DEF Persist, Servable, STypeOK
  <2>2. disk' = [disk EXCEPT ![v] = [cert |-> checkpoint[v], snapshot |-> snap]]
    BY <1>4 DEF Persist
  <2> HIDE DEF snap
  <2>3. disk' \in [Honest -> [cert : State, snapshot : State] \cup {None}]
    BY <2>1, <2>2 DEF STypeOK
  <2> QED
    BY <1>4, <2>3 DEF Persist, cursor, retained, STypeOK
<1>5. ASSUME NEW v \in Corruptible, GoWrong(v) PROVE STypeOK'
  <2>1. v \in Honest
    BY SyncConstants
  <2>2. good' \in [Honest -> BOOLEAN]
    BY <1>5, <2>1 DEF GoWrong, STypeOK
  <2>3. faults[v] + 1 \in 0 .. MaxFaults
    <3>1. MaxFaults \in Nat /\ faults[v] \in 0 .. MaxFaults /\ faults[v] < MaxFaults
      BY <1>5, <2>1, SyncConstants DEF GoWrong, STypeOK
    <3> QED
      BY <3>1
  <2>4. faults' \in [Honest -> 0 .. MaxFaults]
    BY <1>5, <2>1, <2>3 DEF GoWrong, STypeOK
  <2> QED
    BY <1>5, <2>2, <2>4 DEF GoWrong, retained, STypeOK
<1>6. CASE UNCHANGED svars
  BY <1>6 DEF svars, cursor, retained, STypeOK
<1> QED
  BY StepForms, FinalizeType, RestartType, <1>1, <1>2, <1>3, <1>4, <1>5, <1>6

-----------------------------------------------------------------------------
(* What a validator retains.                                               *)

\* Heights below a height below another.
LEMMA Below ==
  \A a, b, c \in Nat : (a < b /\ b < c => a < c) /\ (a < b /\ b <= c => a <= c)
OBVIOUS

\* Pruning below a checkpoint keeps every height above it.
LEMMA PrunedKeeps ==
  ASSUME NEW h \in Nat, NEW c, NEW H, h \in H, c # None => c.height \in Nat /\ c.height < h
  PROVE  h \in Pruned(H, c)
BY DEF Pruned

\* ... and every state from the checkpoint's own on.
LEMMA PrunedHeadsKeeps ==
  ASSUME NEW x, NEW c, NEW H, x \in H,
         c # None => c.height \in Nat /\ x.height \in Nat /\ c.height <= x.height
  PROVE  x \in PrunedHeads(H, c)
BY DEF PrunedHeads

\* Between a certificate and the height after it there is no other height.
LEMMA NothingBetween ==
  ASSUME NEW cert \in State, NEW h \in Nat, h < cert.height + 1
  PROVE  cert # None /\ ~(cert.height < h) /\ (cert.height <= h => h = cert.height)
<1>1. cert # None /\ cert.height \in Nat
  BY HeightFacts, StateFacts
<1> QED
  BY <1>1

\* A finalizing validator files its certificate and its body, and pruning reaches no
\* higher than the checkpoint.
LEMMA RetainsBlocksStep ==
  ASSUME SInv, [SNext]_svars PROVE RetainsBlocks'
<1> SUFFICES ASSUME NEW w \in Honest, NEW h \in Heights,
                    h < next'[w], checkpoint'[w] = None \/ checkpoint'[w].height < h
             PROVE  h \in certified'[w] /\ h \in bodies'[w]
  BY DEF RetainsBlocks
<1>0. h < next[w] /\ (checkpoint[w] = None \/ checkpoint[w].height < h)
        => h \in certified[w] /\ h \in bodies[w]
  BY DEF SInv, RetainsBlocks
<1>n. next[w] \in Nat /\ h \in Nat
  <2>1. next[w] \in 0 .. MaxHeight
    BY DEF SInv, STypeOK
  <2> QED
    BY <2>1, HeightFacts
<1>c. checkpoint[w] # None => checkpoint[w].height \in Nat
  <2>1. checkpoint[w] \in State \cup {None}
    BY DEF SInv, STypeOK
  <2> QED
    BY <2>1, HeightFacts, StateFacts
<1>1. ASSUME NEW S \in SUBSET Honest, Finalizes(S) PROVE h \in certified'[w] /\ h \in bodies'[w]
  <2>1. CASE w \in S
    <3>1. /\ next'[w] = next[w] + 1 /\ checkpoint'[w] = checkpoint[w]
          /\ certified'[w] = Pruned(certified[w] \cup {next[w]}, checkpoint[w])
          /\ bodies'[w] = Pruned(bodies[w] \cup {next[w]}, checkpoint[w])
      BY <1>1, <2>1 DEF Finalizes, Finalize, CertifiedAfter
    <3>2. checkpoint[w] = None \/ checkpoint[w].height < h
      BY <3>1
    <3>3. h < next[w] \/ h = next[w]
      BY <1>n, <3>1
    <3>4. h \in certified[w] \cup {next[w]} /\ h \in bodies[w] \cup {next[w]}
      BY <1>0, <3>2, <3>3
    <3>5. h \in Nat /\ (checkpoint[w] # None => checkpoint[w].height \in Nat /\ checkpoint[w].height < h)
      BY <1>n, <1>c, <3>2
    <3>6. /\ h \in Pruned(certified[w] \cup {next[w]}, checkpoint[w])
          /\ h \in Pruned(bodies[w] \cup {next[w]}, checkpoint[w])
      BY <3>4, <3>5, PrunedKeeps
    <3> QED
      BY <3>1, <3>6
  <2>2. CASE w \notin S
    <3>1. /\ next'[w] = next[w] /\ checkpoint'[w] = checkpoint[w]
          /\ certified'[w] = certified[w] /\ bodies'[w] = bodies[w]
      BY <1>1, <2>2 DEF Finalizes, Finalize
    <3> QED
      BY <1>0, <3>1
  <2> QED
    BY <2>1, <2>2
<1>2. ASSUME NEW v \in Honest, Parks(v) PROVE h \in certified'[w] /\ h \in bodies'[w]
  <2>1. /\ next'[w] = next[w] /\ checkpoint'[w] = checkpoint[w]
        /\ certified[w] \subseteq certified'[w] /\ bodies[w] \subseteq bodies'[w]
    BY <1>2 DEF Parks, Park, cursor, SInv, STypeOK
  <2> QED
    BY <1>0, <2>1
<1>3. ASSUME NEW v \in Honest, NEW cert \in State, NEW snapshot, NEW above,
             OnSyncResp(v, cert, snapshot, above)
      PROVE  h \in certified'[w] /\ h \in bodies'[w]
  <2>1. CASE w = v
    <3>1. next'[w] = cert.height + 1 /\ checkpoint'[w] = cert
      BY <1>3, <2>1 DEF OnSyncResp, SInv, STypeOK
    <3> QED
      BY <1>n, <3>1, NothingBetween
  <2>2. CASE w # v
    <3>1. /\ next'[w] = next[w] /\ checkpoint'[w] = checkpoint[w]
          /\ certified'[w] = certified[w] /\ bodies'[w] = bodies[w]
      BY <1>3, <2>2 DEF OnSyncResp, SInv, STypeOK
    <3> QED
      BY <1>0, <3>1
  <2> QED
    BY <2>1, <2>2
<1>4. ASSUME NEW v \in Honest, NEW k \in Heights, NEW isGood \in BOOLEAN,
             TryFormCheckpoint(v, k, isGood)
      PROVE  h \in certified'[w] /\ h \in bodies'[w]
  <2> DEFINE ck == [height |-> k, good |-> isGood]
  <2>0. next'[w] = next[w]
    BY <1>4 DEF TryFormCheckpoint, cursor
  <2>1. CASE w = v
    <3>1. /\ checkpoint'[w] = ck /\ certified'[w] = Pruned(certified[w], ck)
          /\ bodies'[w] = Pruned(bodies[w], ck)
          /\ checkpoint[w] # None => checkpoint[w].height < k
      BY <1>4, <2>1 DEF TryFormCheckpoint, SInv, STypeOK
    <3>2. ck # None /\ ck.height = k /\ k \in Nat
      BY HeightFacts, StateFacts
    <3> HIDE DEF ck
    <3>3. k < h
      BY <3>1, <3>2
    <3>4. ASSUME checkpoint[w] # None PROVE checkpoint[w].height < h
      <4>1. checkpoint[w].height \in Nat /\ checkpoint[w].height < k /\ k \in Nat
        BY <1>c, <3>1, <3>2, <3>4
      <4> QED
        BY <1>n, <3>3, <4>1, Below
    <3>5. h \in certified[w] /\ h \in bodies[w]
      BY <1>0, <2>0, <3>4
    <3>6. h \in Pruned(certified[w], ck) /\ h \in Pruned(bodies[w], ck)
      BY <1>n, <3>2, <3>3, <3>5, PrunedKeeps
    <3> QED
      BY <3>1, <3>6
  <2>2. CASE w # v
    <3>1. /\ checkpoint'[w] = checkpoint[w]
          /\ certified'[w] = certified[w] /\ bodies'[w] = bodies[w]
      BY <1>4, <2>2 DEF TryFormCheckpoint, SInv, STypeOK
    <3> QED
      BY <1>0, <2>0, <3>1
  <2> QED
    BY <2>1, <2>2
<1>5. ASSUME NEW S \in SUBSET Honest, Restart(S) PROVE h \in certified'[w] /\ h \in bodies'[w]
  <2>1. CASE w \notin S
    <3>1. /\ next'[w] = next[w] /\ checkpoint'[w] = checkpoint[w]
          /\ certified'[w] = certified[w] /\ bodies'[w] = bodies[w]
      BY <1>5, <2>1, RestartOf
    <3> QED
      BY <1>0, <3>1
  <2>2. CASE w \in S /\ Usable(w)
    <3>1. next'[w] = disk[w].cert.height + 1 /\ checkpoint'[w] = disk[w].cert
      BY <1>5, <2>2, RestartOf
    <3>2. disk[w].cert \in State
      BY <2>2 DEF Usable, SInv, STypeOK
    <3> QED
      BY <1>n, <3>1, <3>2, NothingBetween
  <2>3. CASE w \in S /\ ~Usable(w)
    <3>1. next'[w] = 0
      BY <1>5, <2>3, RestartOf
    <3> QED
      BY <1>n, <3>1
  <2> QED
    BY <2>1, <2>2, <2>3
<1>6. ASSUME UNCHANGED <<next, certified, bodies, checkpoint>>
      PROVE  h \in certified'[w] /\ h \in bodies'[w]
  BY <1>0, <1>6
<1> QED
  BY StepForms, <1>1, <1>2, <1>3, <1>4, <1>5, <1>6
     DEF SInv, Persist, GoWrong, cursor, retained, svars

\* Executing keeps the state after every block it runs.
LEMMA RetainsStatesStep ==
  ASSUME SInv, [SNext]_svars PROVE RetainsStates'
<1> SUFFICES ASSUME NEW w \in Honest, NEW h \in Heights,
                    h < done'[w], checkpoint'[w] = None \/ checkpoint'[w].height <= h
             PROVE  \E x \in heads'[w] : x.height = h
  BY DEF RetainsStates
<1>0. h < done[w] /\ (checkpoint[w] = None \/ checkpoint[w].height <= h)
        => \E x \in heads[w] : x.height = h
  BY DEF SInv, RetainsStates
<1>n. next[w] \in Nat /\ done[w] \in Nat /\ h \in Nat
  <2>1. next[w] \in 0 .. MaxHeight /\ done[w] \in 0 .. MaxHeight
    BY DEF SInv, STypeOK
  <2> QED
    BY <2>1, HeightFacts
<1>c. checkpoint[w] # None => checkpoint[w].height \in Nat
  <2>1. checkpoint[w] \in State \cup {None}
    BY DEF SInv, STypeOK
  <2> QED
    BY <2>1, HeightFacts, StateFacts
<1>1. ASSUME NEW S \in SUBSET Honest, Finalizes(S) PROVE \E x \in heads'[w] : x.height = h
  <2>1. CASE w \in S
    <3> DEFINE run == {[height |-> x, good |-> good[w]] : x \in {y \in Heights : done[w] <= y /\ y < next[w]}}
    <3>1. /\ done'[w] = IF done[w] < next[w] THEN next[w] ELSE done[w]
          /\ checkpoint'[w] = checkpoint[w]
          /\ heads'[w] = PrunedHeads(heads[w], checkpoint[w]) \cup run
      BY <1>1, <2>1 DEF Finalizes, Finalize
    <3>2. CASE h < done[w]
      <4> HIDE DEF run
      <4>1. checkpoint[w] = None \/ checkpoint[w].height <= h
        BY <3>1
      <4>2. PICK x \in heads[w] : x.height = h
        BY <1>0, <3>2, <4>1
      <4>3. x \in PrunedHeads(heads[w], checkpoint[w])
        BY <1>n, <1>c, <4>1, <4>2, PrunedHeadsKeeps
      <4> QED
        BY <3>1, <4>2, <4>3
    <3>3. CASE ~(h < done[w])
      <4>1. done[w] <= h /\ h < next[w]
        <5> HIDE DEF run
        <5>1. h < (IF done[w] < next[w] THEN next[w] ELSE done[w])
          BY <3>1
        <5> QED
          BY <1>n, <3>3, <5>1
      <4>2. [height |-> h, good |-> good[w]] \in run
        BY <4>1
      <4> QED
        BY Zenon, <3>1, <4>2
    <3> QED
      BY <3>2, <3>3
  <2>2. CASE w \notin S
    <3>1. done'[w] = done[w] /\ checkpoint'[w] = checkpoint[w] /\ heads'[w] = heads[w]
      BY <1>1, <2>2 DEF Finalizes, Finalize
    <3> QED
      BY <1>0, <3>1
  <2> QED
    BY <2>1, <2>2
<1>3. ASSUME NEW v \in Honest, NEW cert \in State, NEW snapshot, NEW above,
             OnSyncResp(v, cert, snapshot, above)
      PROVE  \E x \in heads'[w] : x.height = h
  <2>1. CASE w = v
    <3>1. done'[w] = cert.height + 1 /\ checkpoint'[w] = cert /\ heads'[w] = {cert}
      BY <1>3, <2>1 DEF OnSyncResp, Adopted, SInv, STypeOK
    <3>2. h = cert.height
      BY <1>n, <3>1, NothingBetween
    <3> QED
      BY <3>1, <3>2
  <2>2. CASE w # v
    <3>1. done'[w] = done[w] /\ checkpoint'[w] = checkpoint[w] /\ heads'[w] = heads[w]
      BY <1>3, <2>2 DEF OnSyncResp, SInv, STypeOK
    <3> QED
      BY <1>0, <3>1
  <2> QED
    BY <2>1, <2>2
<1>4. ASSUME NEW v \in Honest, NEW k \in Heights, NEW isGood \in BOOLEAN,
             TryFormCheckpoint(v, k, isGood)
      PROVE  \E x \in heads'[w] : x.height = h
  <2> DEFINE ck == [height |-> k, good |-> isGood]
  <2>0. done'[w] = done[w]
    BY <1>4 DEF TryFormCheckpoint, cursor
  <2>1. CASE w = v
    <3>1. /\ checkpoint'[w] = ck /\ heads'[w] = PrunedHeads(heads[w], ck)
          /\ checkpoint[w] # None => checkpoint[w].height < k
      BY <1>4, <2>1 DEF TryFormCheckpoint, SInv, STypeOK
    <3>2. ck # None /\ ck.height = k /\ k \in Nat
      BY HeightFacts, StateFacts
    <3> HIDE DEF ck
    <3>3. k <= h
      BY <3>1, <3>2
    <3>4. ASSUME checkpoint[w] # None PROVE checkpoint[w].height <= h
      <4>1. checkpoint[w].height \in Nat /\ checkpoint[w].height < k /\ k \in Nat
        BY <1>c, <3>1, <3>2, <3>4
      <4> QED
        BY <1>n, <3>3, <4>1, Below
    <3>5. PICK x \in heads[w] : x.height = h
      BY <1>0, <2>0, <3>4
    <3>6. x \in PrunedHeads(heads[w], ck)
      BY <1>n, <3>2, <3>3, <3>5, PrunedHeadsKeeps
    <3> QED
      BY <3>1, <3>5, <3>6
  <2>2. CASE w # v
    <3>1. checkpoint'[w] = checkpoint[w] /\ heads'[w] = heads[w]
      BY <1>4, <2>2 DEF TryFormCheckpoint, SInv, STypeOK
    <3> QED
      BY <1>0, <2>0, <3>1
  <2> QED
    BY <2>1, <2>2
<1>5. ASSUME NEW S \in SUBSET Honest, Restart(S) PROVE \E x \in heads'[w] : x.height = h
  <2>1. CASE w \notin S
    <3>1. done'[w] = done[w] /\ checkpoint'[w] = checkpoint[w] /\ heads'[w] = heads[w]
      BY <1>5, <2>1, RestartOf
    <3> QED
      BY <1>0, <3>1
  <2>2. CASE w \in S /\ Usable(w)
    <3>1. /\ done'[w] = disk[w].cert.height + 1 /\ checkpoint'[w] = disk[w].cert
          /\ heads'[w] = {disk[w].cert}
      BY <1>5, <2>2, RestartOf
    <3>2. disk[w].cert \in State
      BY <2>2 DEF Usable, SInv, STypeOK
    <3>3. h = disk[w].cert.height
      BY <1>n, <3>1, <3>2, NothingBetween
    <3> QED
      BY <3>1, <3>3
  <2>3. CASE w \in S /\ ~Usable(w)
    <3>1. done'[w] = 0
      BY <1>5, <2>3, RestartOf
    <3> QED
      BY <1>n, <3>1
  <2> QED
    BY <2>1, <2>2, <2>3
<1>6. ASSUME UNCHANGED <<done, heads, checkpoint>> PROVE \E x \in heads'[w] : x.height = h
  BY <1>0, <1>6
<1> QED
  BY StepForms, <1>1, <1>3, <1>4, <1>5, <1>6
     DEF SInv, Parks, Park, Persist, GoWrong, cursor, retained, svars

-----------------------------------------------------------------------------
(* The theorems.                                                           *)

\* A validator starts with nothing decided and nothing retained.
LEMMA Initially == SInit => SInv
<1> SUFFICES ASSUME SInit PROVE SInv
  OBVIOUS
<1>1. 0 \in 0 .. MaxHeight /\ 0 \in 0 .. MaxFaults
  BY SyncConstants
<1>2. STypeOK
  BY <1>1 DEF SInit, STypeOK
<1>3. CheckpointsAreRight
  BY DEF SInit, CheckpointsAreRight
<1>4. WrongStates
  BY DEF SInit, WrongStates
<1>5. \A h \in Heights : ~(h < 0)
  BY HeightFacts
<1>6. RetainsBlocks /\ RetainsStates
  BY <1>5 DEF SInit, RetainsBlocks, RetainsStates
<1> QED
  BY <1>2, <1>3, <1>4, <1>6 DEF SInv

\* The inductive invariant holds at every moment of the cell.
LEMMA SInvariance == SSpec => []SInv
<1>1. SInv /\ [SNext]_svars => SInv'
  BY TypeStep, CheckpointsStep, WrongStatesStep, RetainsBlocksStep, RetainsStatesStep DEF SInv
<1> QED
  BY <1>1, Initially, PTL DEF SSpec

\* Cursors stay within the heights decided and what a validator retains is of its type,
\* whatever certificates, snapshots and files reach it.
THEOREM TypeCorrect == SSpec => []STypeOK
BY SInvariance, PTL DEF SInv

\* No validator forms, adopts, writes or restarts from a checkpoint of a wrong state, as
\* long as the faulty validators and the divergent ones are no quorum together
\* (try_form_checkpoint, on_sync_resp, the driver's file).
THEOREM NoWrongCheckpoint == SSpec => []CheckpointsAreRight
BY SInvariance, PTL DEF SInv

\* Whoever can serve a checkpoint can serve every certificate and body from there to its
\* own head: prune_recovery_retention never cuts a peer off.
THEOREM RetentionIsEnough == SSpec => []ServesUpToItsHead
<1>1. SInv => ServesUpToItsHead
  <2> SUFFICES ASSUME SInv, NEW v \in Honest, Servable(v),
                      NEW h \in checkpoint[v].height + 1 .. next[v] - 1
               PROVE  h \in certified[v] \cap bodies[v]
    BY DEF ServesUpToItsHead
  <2>1. checkpoint[v] \in State /\ next[v] \in 0 .. MaxHeight
    BY DEF SInv, STypeOK, Servable
  <2>2. checkpoint[v].height \in Nat /\ next[v] \in Nat /\ MaxHeight \in Nat /\ next[v] <= MaxHeight
    <3>1. checkpoint[v].height \in Heights
      BY <2>1, StateFacts
    <3>2. MaxHeight \in Nat
      BY HeightFacts
    <3>3. checkpoint[v].height \in Nat
      BY <3>1, HeightFacts
    <3> QED
      BY <2>1, <3>2, <3>3
  <2>3. h \in Int /\ checkpoint[v].height < h /\ h < next[v] /\ h \in 0 .. MaxHeight /\ h < MaxHeight
    BY <2>2
  <2>4. h \in Heights
    BY <2>3, HeightFacts
  <2> QED
    BY <2>3, <2>4 DEF SInv, RetainsBlocks
<1> QED
  BY <1>1, SInvariance, PTL

\* A validator that has executed as far as its checkpoint holds the snapshot to serve it
\* (servable_sync), also when it has just been rescued or restarted.
THEOREM RescuedServes == SSpec => []RescuedCanServe
<1>1. SInv => RescuedCanServe
  <2> SUFFICES ASSUME SInv, NEW v \in Honest, checkpoint[v] # None, checkpoint[v].height < done[v]
               PROVE  Servable(v)
    BY DEF RescuedCanServe
  <2>1. checkpoint[v].height \in Heights
    BY StateFacts DEF SInv, STypeOK
  <2>2. checkpoint[v].height <= checkpoint[v].height
    BY <2>1, HeightFacts
  <2> QED
    BY <2>1, <2>2 DEF SInv, RetainsStates, Servable
<1> QED
  BY <1>1, SInvariance, PTL

\* on_sync_resp is forward-only: no step takes a decided height back from a validator
\* that does not restart and that no quorum has contradicted.
THEOREM ForwardOnly == SSpec => NoRollback
<1> DEFINE Forward == \A v \in Honest : next'[v] < next[v] => diverged[v] \/ faults'[v] # faults[v]
<1>1. SInv /\ [SNext]_svars => [Forward]_svars
  <2> SUFFICES ASSUME SInv, SNext, NEW w \in Honest, next'[w] < next[w]
               PROVE  diverged[w] \/ faults'[w] # faults[w]
    OBVIOUS
  <2>0. next[w] \in Nat /\ faults[w] \in Nat
    <3>1. next[w] \in 0 .. MaxHeight /\ faults[w] \in 0 .. MaxFaults
      BY DEF SInv, STypeOK
    <3>2. MaxHeight \in Nat /\ MaxFaults \in Nat
      BY SyncConstants
    <3> QED
      BY <3>1, <3>2
  <2>1. ASSUME next'[w] = next[w] PROVE FALSE
    BY <2>0, <2>1
  <2>2. ASSUME NEW S \in SUBSET Honest, Finalizes(S) PROVE FALSE
    <3>1. next'[w] = next[w] \/ next'[w] = next[w] + 1
      BY <2>2 DEF Finalizes, Finalize
    <3> QED
      BY <2>0, <3>1
  <2>3. ASSUME NEW v \in Honest, NEW cert \in State, NEW snapshot, NEW above,
               OnSyncResp(v, cert, snapshot, above)
        PROVE  diverged[w]
    <3>1. w = v /\ next'[w] = cert.height + 1
      BY <2>1, <2>3 DEF OnSyncResp, SInv, STypeOK
    <3>2. cert.height \in Nat
      <4>1. cert.height \in Heights
        BY StateFacts
      <4> QED
        BY <4>1, HeightFacts
    <3>3. cert.height >= next[w] \/ diverged[w]
      BY <2>3, <3>1 DEF OnSyncResp, Acceptable
    <3>4. ~(cert.height >= next[w])
      BY <2>0, <3>1, <3>2
    <3> QED
      BY <3>3, <3>4
  <2>4. ASSUME NEW S \in SUBSET Honest, Restart(S) PROVE faults'[w] # faults[w]
    <3>1. w \in S
      BY <2>1, <2>4, RestartOf
    <3>2. faults'[w] = faults[w] + 1
      BY <2>4, <3>1, RestartOf
    <3> QED
      BY <2>0, <3>2
  <2> QED
    BY StepForms, <2>1, <2>2, <2>3, <2>4
       DEF SInv, Parks, Park, TryFormCheckpoint, Persist, GoWrong, cursor, retained
<1> QED
  BY <1>1, SInvariance, PTL DEF SSpec, NoRollback
=============================================================================
