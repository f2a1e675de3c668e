------------------------------ MODULE DkgNode ------------------------------
(***************************************************************************)
(* Distributed key generation (fanos-keygen, lib.rs): every member deals a *)
(* secret, complains about shares it lacks, answers the complaints against *)
(* it, closes the qualified set on its own clock, and publishes a key only *)
(* if enough members confirm the same one.                                 *)
(*                                                                         *)
(* Frames are lost, late, repeated and overtaken.  A frame names its       *)
(* author truthfully (authored).  A commitment is one of a few versions,   *)
(* and a share is the version it verifies against.  What a member has      *)
(* heard of complaints, answers and confirmations is read only when it     *)
(* closes the phase, so it is chosen there.                                *)
(***************************************************************************)
EXTENDS Integers, FiniteSets

CONSTANTS Members,
          Byz,         \* the members that deal, complain, answer and confirm as they like
          Threshold,   \* threshold
          Good,        \* the version an honest dealer commits to
          Versions,    \* the versions a Byzantine dealer commits to
          Width,       \* Width[v]: how many coefficients v has
          Bad,         \* a share that verifies against no version
          None

Honest == Members \ Byz

ASSUME DkgConstants ==
  /\ IsFiniteSet(Members) /\ Byz \subseteq Members /\ Threshold \in Nat \ {0}
  /\ Good \in Versions /\ Bad \notin Versions
  /\ None \notin Versions \cup {Bad, "key", "diverged"}
  /\ \A f \in SUBSET (Members \X Versions) : f # None
  /\ Width \in [Versions -> Nat]

VARIABLES
  phase,         \* phase
  commitments,   \* commitments[i][d]: the version i holds of dealer d, or None
  my_shares,     \* my_shares[i][d]: the share i holds from d, or None
  complained,    \* the complaints <<complainer, dealer>> honest members have broadcast
  answered,      \* the answers <<dealer, complainer>> honest dealers have broadcast
  qual,          \* qual[i]: the qualified set i closed
  folded,        \* folded[i]: the dealers, with version, in i's share and key; None before
  verdict        \* what i told its host: "key", "diverged" or nothing yet

vars == <<phase, commitments, my_shares, complained, answered, qual, folded, verdict>>

\* qualified: i holds a share of d that verifies against the commitment it holds.
Qualified(i, d) == commitments[i][d] # None /\ my_shares[i][d] = commitments[i][d]

\* done: nothing that arrives changes the outcome any more.
Done(i) == phase[i] \in {"confirm", "done"}

\* What the dealer d may have sent to a member, if anything.
CommitmentsOf(d) == IF d \in Byz THEN Versions ELSE {Good}
SharesOf(d) == IF d \in Byz THEN Versions \cup {Bad} ELSE {Good}

\* The first one stays (note_commitment, entry().or_insert).
First(old, new) == IF old = None THEN new ELSE old

-----------------------------------------------------------------------------
\* on_deal: the share, with the commitment.
OnDeal(i, d) ==
  /\ ~Done(i) /\ d # i
  /\ \E s \in SharesOf(d), v \in CommitmentsOf(d) :
       /\ my_shares' = [my_shares EXCEPT ![i][d] = First(@, s)]
       /\ commitments' = [commitments EXCEPT ![i][d] = First(@, v)]
  /\ UNCHANGED <<phase, complained, answered, qual, folded, verdict>>

\* Mutant of LateComplaint: a commitment that comes after the deadline is only noted.
LateComplaint_None(i, d, v) == {}

\* A commitment that comes during the complaint phase is complained about at once.
LateComplaint(i, d, v) == IF phase[i] = "complaint" /\ my_shares[i][d] # v THEN {<<i, d>>} ELSE {}

\* on_commit, also in answer to on_commit_req.
OnCommit(i, d) ==
  /\ ~Done(i) /\ d # i
  /\ \E v \in CommitmentsOf(d) :
       /\ commitments' = [commitments EXCEPT ![i][d] = First(@, v)]
       /\ complained' = complained \cup LateComplaint(i, d, First(commitments[i][d], v))
  /\ UNCHANGED <<phase, my_shares, answered, qual, folded, verdict>>

\* open_complaints, at the sharing deadline.
OpenComplaints(i) ==
  /\ phase[i] = "sharing"
  /\ phase' = [phase EXCEPT ![i] = "complaint"]
  /\ complained' = complained \cup
       {<<i, d>> : d \in {d \in Members : commitments[i][d] # None /\ ~Qualified(i, d)}}
  /\ UNCHANGED <<commitments, my_shares, answered, qual, folded, verdict>>

\* on_complaint, of the accused dealer d.
OnComplaint(d, c) ==
  /\ phase[d] \in {"sharing", "complaint"} /\ c # d
  /\ <<c, d>> \in complained \/ c \in Byz
  /\ answered' = answered \cup {<<d, c>>}
  /\ UNCHANGED <<phase, commitments, my_shares, complained, qual, folded, verdict>>

\* The complaints and the answers that i may have heard of: its own, and of a complaint
\* against itself the answer with it.  An answer to no complaint changes nothing.
Complaints(i) ==
  LET all == {p \in complained \cup Byz \X Members : p[2] = i => <<i, p[1]>> \in answered} IN
  {cs \in SUBSET all : \A p \in complained : p[1] = i => p \in cs}
Answers(i, cs) ==
  LET all == {p \in answered \cup Byz \X Members : p[2] = i \/ <<p[2], p[1]>> \in cs} IN
  {js \in SUBSET all : \A p \in cs : p[2] = i => <<i, p[1]>> \in js}

\* The share i has of d, after on_justify has revealed those in js.
Revealed(i, d, js) ==
  IF <<d, i>> \in js THEN First(my_shares[i][d], commitments[i][d]) ELSE my_shares[i][d]

\* The dealers with a commitment and no unanswered complaint.
Qual(i, cs, js) ==
  {d \in Members : commitments[i][d] # None /\ \A c \in Members : <<c, d>> \in cs => <<d, c>> \in js}

\* Mutant of Enough: the member counts itself once more.
Enough_OffByOne(n) == n + 1 >= Threshold

\* As many as the threshold.
Enough(n) == n >= Threshold

\* aggregate has a value: the commitments are of one width.
HasAggregate(f) == \A p, q \in f : Width[p[2]] = Width[q[2]]

\* finalize, at the complaint deadline.  No handler reads what it held again.
Finalize(i) ==
  /\ phase[i] = "complaint"
  /\ \E cs \in Complaints(i) : \E js \in Answers(i, cs) :
       LET q == Qual(i, cs, js)
           f == {<<d, commitments[i][d]>> : d \in {d \in q : Revealed(i, d, js) = commitments[i][d]}} IN
       /\ qual' = [qual EXCEPT ![i] = q]
       /\ commitments' = [commitments EXCEPT ![i] = [d \in Members |-> None]]
       /\ my_shares' = [my_shares EXCEPT ![i] = [d \in Members |-> None]]
       /\ \/ /\ ~Enough(Cardinality(q))
             /\ phase' = [phase EXCEPT ![i] = "done"]
             /\ UNCHANGED folded
          \/ /\ Enough(Cardinality(q))
             /\ phase' = [phase EXCEPT ![i] = "confirm"]
             /\ folded' = [folded EXCEPT ![i] = f]
  /\ UNCHANGED <<complained, answered, verdict>>

\* on_confirm: the members whose confirmation i may hold.  A Byzantine one confirms
\* whatever it is asked to.
Confirmers(i) == {j \in Members \ {i} : j \in Byz \/ (folded[j] # None /\ HasAggregate(folded[j]))}

\* Mutant of Agreeing: all that answered are counted.
Agreeing_Heard(i, heard) == heard

\* Those of them that confirmed what i holds.
Agreeing(i, heard) == {j \in heard : j \in Byz \/ folded[j] = folded[i]}

\* close_confirm, at the confirm deadline; finalize arms it if there is an aggregate.
CloseConfirm(i) ==
  /\ phase[i] = "confirm" /\ HasAggregate(folded[i])
  /\ phase' = [phase EXCEPT ![i] = "done"]
  /\ \E heard \in SUBSET Confirmers(i) :
       verdict' = [verdict EXCEPT ![i] =
         IF Enough(1 + Cardinality(Agreeing(i, heard))) THEN "key" ELSE "diverged"]
  /\ UNCHANGED <<commitments, my_shares, complained, answered, qual, folded>>

-----------------------------------------------------------------------------
\* start: every member has dealt.  One that starts late is one whose frames are late.
Init ==
  /\ phase = [i \in Honest |-> "sharing"]
  /\ commitments = [i \in Honest |-> [d \in Members |-> IF d = i THEN Good ELSE None]]
  /\ my_shares = [i \in Honest |-> [d \in Members |-> IF d = i THEN Good ELSE None]]
  /\ complained = {} /\ answered = {}
  /\ qual = [i \in Honest |-> {}]
  /\ folded = [i \in Members |-> None]
  /\ verdict = [i \in Honest |-> None]

Next ==
  \E i \in Honest :
    \/ OpenComplaints(i) \/ Finalize(i) \/ CloseConfirm(i)
    \/ \E d \in Members : OnDeal(i, d) \/ OnCommit(i, d) \/ OnComplaint(i, d)

Spec == Init /\ [][Next]_vars

\* The timers a member has armed go off.
FairSpec ==
  /\ Spec
  /\ \A i \in Honest : WF_vars(OpenComplaints(i) \/ Finalize(i) \/ CloseConfirm(i))

-----------------------------------------------------------------------------
\* No key is formed over too few dealers, and none is published before it is confirmed.
TypeOK ==
  /\ phase \in [Honest -> {"sharing", "complaint", "confirm", "done"}]
  /\ commitments \in [Honest -> [Members -> Versions \cup {None}]]
  /\ my_shares \in [Honest -> [Members -> Versions \cup {Bad, None}]]
  /\ complained \subseteq Honest \X Members /\ answered \subseteq Honest \X Members
  /\ qual \in [Honest -> SUBSET Members]
  /\ folded \in [Members -> {None} \cup SUBSET (Members \X Versions)]
  /\ verdict \in [Honest -> {"key", "diverged", None}]
  /\ \A i \in Honest : /\ folded[i] # None => Done(i) /\ Cardinality(qual[i]) >= Threshold
                       /\ verdict[i] # None => folded[i] # None /\ phase[i] = "done"

\* A key is published only if enough members hold it for a beacon round: all that were
\* counted, but for the Byzantine ones (close_confirm).
PublishedIsUsable ==
  \A i \in Honest : verdict[i] = "key" =>
    Cardinality({j \in Honest : folded[j] = folded[i]}) + Cardinality(Byz) >= Threshold

\* Two members never publish different keys when the threshold is past half of the members
\* and the Byzantine ones together (close_confirm, on a forked qualified set).
PublishedAgree ==
  2 * Threshold > Cardinality(Members) + Cardinality(Byz) =>
    \A i, j \in Honest : verdict[i] = "key" /\ verdict[j] = "key" => folded[i] = folded[j]

\* An honest dealer that a member has qualified is in that member's share and key, however
\* late its commitment or its share came (open_complaints, on_commit, on_justify).
HonestQualifiedIsFolded ==
  \A i \in Honest : folded[i] # None =>
    \A d \in qual[i] \cap Honest : <<d, Good>> \in folded[i]

\* Every member of a ceremony comes to an end: a key, a divergence, or too few dealers
\* (the three timers, and the note that the missing aggregate is unreachable).
EveryoneConcludes == <>[](\A i \in Honest : phase[i] = "done")

\* The share and the key are over the qualified set, whoever dealt (the module's own
\* description of step 4).
QualifiedIsFolded ==
  \A i \in Honest : folded[i] # None => {p[1] : p \in folded[i]} = qual[i]
=============================================================================
