--------------------------- MODULE DkgNodeProofs ---------------------------
(***************************************************************************)
(* The key generation, for every set of members, every set of Byzantine    *)
(* ones among them and every threshold.                                    *)
(***************************************************************************)
EXTENDS DkgNode, FiniteSetTheorems, TLAPS

\* What finalize folds of the qualified set q when the answers js have been heard.
Folds(i, q, js) ==
  {<<d, commitments[i][d]>> : d \in {d \in q : Revealed(i, d, js) = commitments[i][d]}}

\* The honest members that hold the key of i.
Holders(i) == {j \in Honest : folded[j] = folded[i]}

\* A member that waits for confirmations has closed its set.
ConfirmInv == \A i \in Honest : phase[i] = "confirm" => folded[i] # None

\* An honest dealer sends everyone the same, and a member in the complaint phase has
\* complained about each honest dealer whose commitment it holds without the share.
HasOrComplained(i, d) ==
  /\ commitments[i][d] \in {Good, None} /\ my_shares[i][d] \in {Good, None}
  /\ phase[i] = "complaint" /\ commitments[i][d] # None /\ my_shares[i][d] = None
       => <<i, d>> \in complained
DealInv == \A i, d \in Honest : HasOrComplained(i, d)

DInv == TypeOK /\ ConfirmInv /\ DealInv /\ PublishedIsUsable /\ HonestQualifiedIsFolded

-----------------------------------------------------------------------------
\* finalize replaces what a member has folded, from nothing to a set of dealers, and no
\* other operation touches it: on_confirm counts on keys that stay what they are.
LEMMA FoldedStays ==
  ASSUME TypeOK, Next, NEW j \in Members
  PROVE  folded'[j] = folded[j] \/ folded[j] = None
<1>1. PICK i \in Honest :
        \/ OpenComplaints(i) \/ Finalize(i) \/ CloseConfirm(i)
        \/ \E d \in Members : OnDeal(i, d) \/ OnCommit(i, d) \/ OnComplaint(i, d)
  BY DEF Next
<1>2. CASE Finalize(i)
  <2>1. folded[i] = None
    BY <1>2 DEF Finalize, TypeOK, Done
  <2>2. folded' = folded \/ \E f : folded' = [folded EXCEPT ![i] = f]
    BY <1>2 DEF Finalize
  <2> QED
    BY <2>1, <2>2 DEF TypeOK
<1> QED
  BY Zenon, <1>1, <1>2 DEF OpenComplaints, CloseConfirm, OnDeal, OnCommit, OnComplaint

\* What finalize does, with the set it folds a value of its own.
LEMMA FinalizeEffect ==
  ASSUME TypeOK, NEW i \in Honest, Finalize(i)
  PROVE  \E cs \in Complaints(i) : \E js \in Answers(i, cs) :
           /\ qual' = [qual EXCEPT ![i] = Qual(i, cs, js)]
           /\ Qual(i, cs, js) \in SUBSET Members
           /\ Folds(i, Qual(i, cs, js), js) \in SUBSET (Members \X Versions)
           /\ Folds(i, Qual(i, cs, js), js) # None
           /\ \/ phase' = [phase EXCEPT ![i] = "done"] /\ UNCHANGED folded
              \/ /\ Cardinality(Qual(i, cs, js)) >= Threshold
                 /\ phase' = [phase EXCEPT ![i] = "confirm"]
                 /\ folded' = [folded EXCEPT ![i] = Folds(i, Qual(i, cs, js), js)]
<1>1. PICK cs \in Complaints(i) : \E js \in Answers(i, cs) :
        /\ qual' = [qual EXCEPT ![i] = Qual(i, cs, js)]
        /\ \/ phase' = [phase EXCEPT ![i] = "done"] /\ UNCHANGED folded
           \/ /\ Cardinality(Qual(i, cs, js)) >= Threshold
              /\ phase' = [phase EXCEPT ![i] = "confirm"]
              /\ folded' = [folded EXCEPT ![i] = Folds(i, Qual(i, cs, js), js)]
  BY Zenon DEF Finalize, Enough, Folds
<1>2. ASSUME NEW js
      PROVE  /\ Qual(i, cs, js) \in SUBSET Members
             /\ Folds(i, Qual(i, cs, js), js) \in SUBSET (Members \X Versions)
  <2>1. \A d \in Qual(i, cs, js) : d \in Members /\ commitments[i][d] \in Versions
    BY DEF Qual, TypeOK
  <2> QED
    BY <2>1 DEF Folds
<1>3. ASSUME NEW js  PROVE Folds(i, Qual(i, cs, js), js) # None
  BY <1>2, DkgConstants
<1> QED
  BY Zenon, <1>1, <1>2, <1>3

\* The types of the state are kept by every operation.
LEMMA TypeStep ==
  ASSUME TypeOK, ConfirmInv, Next
  PROVE  TypeOK' /\ ConfirmInv'
<1> USE DEF Honest
<1>1. ASSUME NEW i \in Honest, NEW d \in Members, OnDeal(i, d)  PROVE TypeOK' /\ ConfirmInv'
  <2>1. PICK s \in SharesOf(d), v \in CommitmentsOf(d) :
          /\ my_shares' = [my_shares EXCEPT ![i][d] = First(@, s)]
          /\ commitments' = [commitments EXCEPT ![i][d] = First(@, v)]
    BY Zenon, <1>1 DEF OnDeal
  <2>2. s \in Versions \cup {Bad} /\ v \in Versions
    BY DkgConstants DEF SharesOf, CommitmentsOf
  <2>3. /\ commitments' \in [Honest -> [Members -> Versions \cup {None}]]
        /\ my_shares' \in [Honest -> [Members -> Versions \cup {Bad, None}]]
    BY <2>1, <2>2 DEF TypeOK, First
  <2> QED
    BY <1>1, <2>3 DEF OnDeal, TypeOK, Done, ConfirmInv
<1>2. ASSUME NEW i \in Honest, NEW d \in Members, OnCommit(i, d)  PROVE TypeOK' /\ ConfirmInv'
  <2>1. PICK v \in CommitmentsOf(d) :
          /\ commitments' = [commitments EXCEPT ![i][d] = First(@, v)]
          /\ complained' = complained \cup LateComplaint(i, d, First(commitments[i][d], v))
    BY Zenon, <1>2 DEF OnCommit
  <2>2. v \in Versions
    BY DkgConstants DEF CommitmentsOf
  <2>3. commitments' \in [Honest -> [Members -> Versions \cup {None}]]
    BY <2>1, <2>2 DEF TypeOK, First
  <2>4. complained' \subseteq Honest \X Members
    BY <2>1 DEF TypeOK, LateComplaint
  <2> QED
    BY <1>2, <2>3, <2>4 DEF OnCommit, TypeOK, Done, ConfirmInv
<1>3. ASSUME NEW i \in Honest, NEW c \in Members, OnComplaint(i, c)  PROVE TypeOK' /\ ConfirmInv'
  BY <1>3 DEF OnComplaint, TypeOK, Done, ConfirmInv
<1>4. ASSUME NEW i \in Honest, OpenComplaints(i)  PROVE TypeOK' /\ ConfirmInv'
  BY <1>4 DEF OpenComplaints, TypeOK, Done, ConfirmInv
<1>5. ASSUME NEW i \in Honest, Finalize(i)  PROVE TypeOK' /\ ConfirmInv'
  <2>1. PICK q \in SUBSET Members, f \in SUBSET (Members \X Versions) :
          /\ f # None /\ qual' = [qual EXCEPT ![i] = q]
          /\ \/ phase' = [phase EXCEPT ![i] = "done"] /\ UNCHANGED folded
             \/ /\ Cardinality(q) >= Threshold
                /\ phase' = [phase EXCEPT ![i] = "confirm"]
                /\ folded' = [folded EXCEPT ![i] = f]
    BY Zenon, <1>5, FinalizeEffect
  <2>2. folded[i] = None /\ verdict[i] = None
    BY <1>5 DEF Finalize, TypeOK, Done
  <2>3. /\ commitments' \in [Honest -> [Members -> Versions \cup {None}]]
        /\ my_shares' \in [Honest -> [Members -> Versions \cup {Bad, None}]]
        /\ UNCHANGED <<complained, answered, verdict>>
    BY <1>5 DEF Finalize, TypeOK
  <2> QED
    BY ZenonT(60), <2>1, <2>2, <2>3 DEF TypeOK, Done, ConfirmInv
<1>6. ASSUME NEW i \in Honest, CloseConfirm(i)  PROVE TypeOK' /\ ConfirmInv'
  <2>1. PICK w \in {"key", "diverged"} : verdict' = [verdict EXCEPT ![i] = w]
    BY Zenon, <1>6 DEF CloseConfirm
  <2> QED
    BY <1>6, <2>1 DEF CloseConfirm, TypeOK, Done, ConfirmInv
<1> QED
  BY <1>1, <1>2, <1>3, <1>4, <1>5, <1>6 DEF Next

-----------------------------------------------------------------------------
\* close_confirm counts the member itself and those that confirmed its key: they are
\* honest holders of that key, or Byzantine.
LEMMA CountedHold ==
  ASSUME TypeOK, NEW i \in Honest, NEW heard \in SUBSET Confirmers(i),
         Enough(1 + Cardinality(Agreeing(i, heard)))
  PROVE  Cardinality(Holders(i)) + Cardinality(Byz) >= Threshold
<1> DEFINE A == Agreeing(i, heard)
<1>1. IsFiniteSet(Members) /\ Holders(i) \subseteq Members /\ Byz \subseteq Members /\ A \subseteq Members
      /\ i \notin A /\ {i} \cup A \subseteq Holders(i) \cup Byz
  BY DkgConstants DEF Holders, Honest, Agreeing, Confirmers
<1> HIDE DEF A
<1>2. IsFiniteSet(Holders(i)) /\ IsFiniteSet(Byz) /\ IsFiniteSet(A) /\ IsFiniteSet(Holders(i) \cup Byz)
  BY <1>1, FS_Subset, FS_Union
<1>3. Cardinality(A \cup {i}) = Cardinality(A) + 1
  BY Zenon, <1>1, <1>2, FS_AddElement
<1>4. Cardinality(A \cup {i}) <= Cardinality(Holders(i) \cup Byz)
  BY <1>1, <1>2, FS_Subset
<1>5. Cardinality(Holders(i) \cup Byz)
        = Cardinality(Holders(i)) + Cardinality(Byz) - Cardinality(Holders(i) \cap Byz)
  BY <1>2, FS_Union
<1>6. /\ Cardinality(Holders(i)) \in Nat /\ Cardinality(Byz) \in Nat /\ Cardinality(A) \in Nat
      /\ Cardinality(Holders(i) \cap Byz) \in Nat /\ Cardinality(Holders(i) \cup Byz) \in Nat
  BY Zenon, <1>2, FS_CardinalityType, FS_Intersection
<1> QED
  BY <1>3, <1>4, <1>5, <1>6, DkgConstants DEF Enough, A

\* Those who hold a published key go on holding it (finalize runs once).
LEMMA UsableStep ==
  ASSUME TypeOK, ConfirmInv, PublishedIsUsable, Next
  PROVE  PublishedIsUsable'
<1> SUFFICES ASSUME NEW i \in Honest, verdict'[i] = "key"
             PROVE  Cardinality(Holders(i)') + Cardinality(Byz) >= Threshold
  BY DEF PublishedIsUsable, Holders
<1>1. \A j \in Honest : j \in Members
  BY DEF Honest
<1>2. /\ folded[i] # None
      /\ Cardinality(Holders(i)) + Cardinality(Byz) >= Threshold
  <2>1. CASE verdict[i] = "key"
    BY <2>1, DkgConstants DEF TypeOK, PublishedIsUsable, Holders
  <2>2. CASE verdict[i] # "key"
    <3>1. CloseConfirm(i)
      BY ZenonT(60), <2>2 DEF Next, OpenComplaints, Finalize, CloseConfirm, OnDeal, OnCommit,
                           OnComplaint, TypeOK
    <3>2. PICK heard \in SUBSET Confirmers(i) : Enough(1 + Cardinality(Agreeing(i, heard)))
      BY <3>1 DEF CloseConfirm, TypeOK
    <3> QED
      BY <3>1, <3>2, CountedHold DEF CloseConfirm, ConfirmInv
  <2> QED
    BY <2>1, <2>2
<1>3. \A j \in Holders(i) \cup {i} : folded'[j] = folded[j]
  BY <1>1, <1>2, FoldedStays DEF Holders
<1>4. Holders(i) \subseteq Holders(i)' /\ Holders(i)' \subseteq Members
  BY <1>1, <1>3 DEF Holders
<1>5. IsFiniteSet(Holders(i)') /\ IsFiniteSet(Holders(i)) /\ IsFiniteSet(Byz)
  BY <1>4, DkgConstants, FS_Subset
<1>6. Cardinality(Holders(i)) <= Cardinality(Holders(i)')
  BY <1>4, <1>5, FS_Subset
<1> QED
  BY <1>2, <1>5, <1>6, FS_CardinalityType, DkgConstants

\* Two published keys are the same one: the holders of different keys are different honest
\* members, and there are too few for both (close_confirm).
LEMMA UsableImpliesAgree ==
  ASSUME PublishedIsUsable
  PROVE  PublishedAgree
<1> SUFFICES ASSUME 2 * Threshold > Cardinality(Members) + Cardinality(Byz),
                    NEW i \in Honest, NEW j \in Honest, verdict[i] = "key", verdict[j] = "key",
                    folded[i] # folded[j]
             PROVE  FALSE
  BY DEF PublishedAgree
<1>1. /\ Cardinality(Holders(i)) + Cardinality(Byz) >= Threshold
      /\ Cardinality(Holders(j)) + Cardinality(Byz) >= Threshold
  BY DEF PublishedIsUsable, Holders
<1>2. /\ Holders(i) \cap Holders(j) = {} /\ (Holders(i) \cup Holders(j)) \cap Byz = {}
      /\ (Holders(i) \cup Holders(j)) \cup Byz \subseteq Members
  BY DkgConstants DEF Holders, Honest
<1>3. /\ IsFiniteSet(Holders(i)) /\ IsFiniteSet(Holders(j)) /\ IsFiniteSet(Byz)
      /\ IsFiniteSet(Holders(i) \cup Holders(j)) /\ IsFiniteSet(Members)
  BY <1>2, DkgConstants, FS_Subset
<1>4. Cardinality(Holders(i) \cup Holders(j))
        = Cardinality(Holders(i)) + Cardinality(Holders(j)) - Cardinality({})
  BY <1>2, <1>3, FS_Union
<1>5. Cardinality((Holders(i) \cup Holders(j)) \cup Byz)
        = Cardinality(Holders(i) \cup Holders(j)) + Cardinality(Byz) - Cardinality({})
  BY <1>2, <1>3, FS_Union
<1>6. Cardinality((Holders(i) \cup Holders(j)) \cup Byz) <= Cardinality(Members)
  BY <1>2, <1>3, FS_Subset
<1>7. /\ Cardinality(Holders(i)) \in Nat /\ Cardinality(Holders(j)) \in Nat
      /\ Cardinality(Byz) \in Nat /\ Cardinality(Members) \in Nat
  BY <1>3, FS_CardinalityType
<1> QED
  BY <1>1, <1>4, <1>5, <1>6, <1>7, DkgConstants, FS_EmptySet

-----------------------------------------------------------------------------
\* A member never sits in the complaint phase with an honest dealer's commitment, no share
\* and no complaint: open_complaints complains about what is missing at the deadline, and
\* on_commit about a commitment that comes later.
LEMMA DealStep ==
  ASSUME TypeOK, DealInv, Next
  PROVE  DealInv'
<1>0. Good # None /\ Honest \subseteq Members /\ \A d \in Honest : d \notin Byz
  BY DkgConstants DEF Honest
<1> USE <1>0
<1>1. ASSUME NEW i \in Honest, NEW d \in Members, OnDeal(i, d)  PROVE DealInv'
  <2>1. PICK s \in SharesOf(d), v \in CommitmentsOf(d) :
          /\ my_shares' = [my_shares EXCEPT ![i][d] = First(@, s)]
          /\ commitments' = [commitments EXCEPT ![i][d] = First(@, v)]
    BY Zenon, <1>1 DEF OnDeal
  <2>2. d \in Honest => s = Good /\ v = Good
    BY DEF SharesOf, CommitmentsOf
  <2>3. \A k \in Honest, e \in Members :
          /\ my_shares'[k][e] = IF k = i /\ e = d THEN First(my_shares[k][e], s) ELSE my_shares[k][e]
          /\ commitments'[k][e] = IF k = i /\ e = d THEN First(commitments[k][e], v) ELSE commitments[k][e]
    BY <2>1 DEF TypeOK
  <2>4. UNCHANGED <<phase, complained>>
    BY <1>1 DEF OnDeal
  <2>5. ASSUME NEW k \in Honest, NEW e \in Honest PROVE HasOrComplained(k, e)'
    <3>1. HasOrComplained(k, e) /\ e \in Members
      BY DEF DealInv
    <3> QED
      BY <3>1, <2>2, <2>3, <2>4 DEF HasOrComplained, First
  <2> QED
    BY <2>5 DEF DealInv
<1>2. ASSUME NEW i \in Honest, NEW d \in Members, OnCommit(i, d)  PROVE DealInv'
  <2>1. PICK v \in CommitmentsOf(d) :
          /\ commitments' = [commitments EXCEPT ![i][d] = First(@, v)]
          /\ complained' = complained \cup LateComplaint(i, d, First(commitments[i][d], v))
    BY Zenon, <1>2 DEF OnCommit
  <2>2. d \in Honest => v = Good
    BY DEF CommitmentsOf
  <2>3. \A k \in Honest, e \in Members :
          commitments'[k][e] = IF k = i /\ e = d THEN First(commitments[k][e], v) ELSE commitments[k][e]
    BY <2>1 DEF TypeOK
  <2>4. UNCHANGED <<phase, my_shares>>
    BY <1>2 DEF OnCommit
  <2>5. ASSUME NEW k \in Honest, NEW e \in Honest PROVE HasOrComplained(k, e)'
    <3>1. HasOrComplained(k, e) /\ e \in Members
      BY DEF DealInv
    <3> QED
      BY <3>1, <2>1, <2>2, <2>3, <2>4 DEF HasOrComplained, First, LateComplaint
  <2> QED
    BY <2>5 DEF DealInv
<1>3. ASSUME NEW i \in Honest, NEW c \in Members, OnComplaint(i, c)  PROVE DealInv'
  BY <1>3 DEF OnComplaint, TypeOK, DealInv, HasOrComplained
<1>4. ASSUME NEW i \in Honest, OpenComplaints(i)  PROVE DealInv'
  BY ZenonT(60), <1>4 DEF OpenComplaints, TypeOK, DealInv, HasOrComplained, Qualified
<1>5. ASSUME NEW i \in Honest, Finalize(i)  PROVE DealInv'
  <2>1. \A k \in Honest, e \in Members :
          /\ my_shares'[k][e] = IF k = i THEN None ELSE my_shares[k][e]
          /\ commitments'[k][e] = IF k = i THEN None ELSE commitments[k][e]
    BY <1>5 DEF Finalize, TypeOK
  <2>2. \A k \in Honest : k = i \/ phase'[k] = phase[k]
    BY <1>5 DEF Finalize, TypeOK
  <2>3. UNCHANGED complained
    BY <1>5 DEF Finalize
  <2>5. ASSUME NEW k \in Honest, NEW e \in Honest PROVE HasOrComplained(k, e)'
    <3>1. HasOrComplained(k, e) /\ e \in Members
      BY DEF DealInv
    <3> QED
      BY <3>1, <2>1, <2>2, <2>3 DEF HasOrComplained
  <2> QED
    BY <2>5 DEF DealInv
<1>6. ASSUME NEW i \in Honest, CloseConfirm(i)  PROVE DealInv'
  BY ZenonT(60), <1>6 DEF CloseConfirm, TypeOK, DealInv, HasOrComplained
<1> QED
  BY <1>1, <1>2, <1>3, <1>4, <1>5, <1>6 DEF Next

\* finalize folds every honest dealer it has qualified: the share is there, or the member
\* complained and the dealer is qualified because it answered (on_justify).
LEMMA QualifiedStep ==
  ASSUME TypeOK, DealInv, HonestQualifiedIsFolded, Next
  PROVE  HonestQualifiedIsFolded'
<1>0. Good # None /\ Honest \subseteq Members /\ \A d \in Honest : d \notin Byz
  BY DkgConstants DEF Honest
<1> USE <1>0
<1>1. ASSUME NEW i \in Honest, Finalize(i)  PROVE HonestQualifiedIsFolded'
  <2>1. PICK cs \in Complaints(i) : \E js \in Answers(i, cs) :
          /\ qual' = [qual EXCEPT ![i] = Qual(i, cs, js)]
          /\ \/ UNCHANGED folded
             \/ folded' = [folded EXCEPT ![i] = Folds(i, Qual(i, cs, js), js)]
    BY <1>1, FinalizeEffect
  <2>2. PICK js \in Answers(i, cs) :
          /\ qual' = [qual EXCEPT ![i] = Qual(i, cs, js)]
          /\ \/ UNCHANGED folded
             \/ folded' = [folded EXCEPT ![i] = Folds(i, Qual(i, cs, js), js)]
    BY Zenon, <2>1
  <2>3. ASSUME NEW d \in Qual(i, cs, js), d \in Honest
        PROVE  <<d, Good>> \in Folds(i, Qual(i, cs, js), js)
    <3>1. commitments[i][d] = Good
      BY Zenon, <2>3 DEF Qual, DealInv, HasOrComplained
    <3>2. CASE my_shares[i][d] = Good
      BY <3>1, <3>2 DEF Folds, Revealed, First
    <3>3. CASE my_shares[i][d] = None
      <4>1. <<i, d>> \in complained
        BY <1>1, <2>3, <3>1, <3>3 DEF Finalize, DealInv, HasOrComplained
      <4>2. <<i, d>> \in cs
        BY <4>1 DEF Complaints
      <4>3. <<d, i>> \in js
        BY <4>2 DEF Qual
      <4> QED
        BY <3>1, <3>3, <4>3 DEF Folds, Revealed, First
    <3> QED
      BY Zenon, <2>3, <3>2, <3>3 DEF DealInv, HasOrComplained
  <2>4. folded[i] = None
    BY <1>1 DEF Finalize, TypeOK, Done
  <2> QED
    BY <2>2, <2>3, <2>4 DEF TypeOK, HonestQualifiedIsFolded
<1>2. ASSUME NEW i \in Honest, ~Finalize(i),
             \/ OpenComplaints(i) \/ CloseConfirm(i)
             \/ \E d \in Members : OnDeal(i, d) \/ OnCommit(i, d) \/ OnComplaint(i, d)
      PROVE  HonestQualifiedIsFolded'
  BY Zenon, <1>2 DEF OpenComplaints, CloseConfirm, OnDeal, OnCommit, OnComplaint,
              HonestQualifiedIsFolded
<1> QED
  BY <1>1, <1>2 DEF Next

-----------------------------------------------------------------------------
\* start leaves every member with its own dealing and nothing else.
LEMMA Initially == Init => DInv
<1> SUFFICES ASSUME Init PROVE DInv
  OBVIOUS
<1> USE DkgConstants DEF Init, Honest
<1>1. TypeOK
  <2>1. /\ commitments \in [Honest -> [Members -> Versions \cup {None}]]
        /\ my_shares \in [Honest -> [Members -> Versions \cup {Bad, None}]]
    OBVIOUS
  <2>2. /\ qual \in [Honest -> SUBSET Members]
        /\ folded \in [Members -> {None} \cup SUBSET (Members \X Versions)]
    OBVIOUS
  <2>3. \A i \in Honest : folded[i] = None /\ verdict[i] = None
    OBVIOUS
  <2> QED
    BY <2>1, <2>2, <2>3 DEF TypeOK
<1>2. ConfirmInv /\ DealInv
  BY DEF ConfirmInv, DealInv, HasOrComplained
<1>3. PublishedIsUsable /\ HonestQualifiedIsFolded
  BY DEF PublishedIsUsable, HonestQualifiedIsFolded
<1> QED
  BY <1>1, <1>2, <1>3 DEF DInv

\* The inductive invariant holds throughout a ceremony.
LEMMA Invariance == Spec => []DInv
<1>1. DInv /\ UNCHANGED vars => DInv'
  BY DEF DInv, vars, TypeOK, Done, ConfirmInv, DealInv, HasOrComplained, PublishedIsUsable, HonestQualifiedIsFolded
<1>2. DInv /\ Next => DInv'
  BY TypeStep, UsableStep, DealStep, QualifiedStep DEF DInv
<1> QED
  BY Initially, <1>1, <1>2, PTL DEF Spec

\* The state stays in its types: a member that has closed its set did so over at least
\* Threshold dealers, and it tells its host nothing before that (finalize, close_confirm).
THEOREM TypeCorrect == Spec => []TypeOK
<1>1. DInv => TypeOK
  BY DEF DInv
<1> QED
  BY Invariance, <1>1, PTL

\* Whatever is lost, late or forged by the Byzantine members, a published key has enough
\* honest holders for a beacon round, the Byzantine ones helping (close_confirm).
THEOREM PublishedKeyIsUsable == Spec => []PublishedIsUsable
<1>1. DInv => PublishedIsUsable
  BY DEF DInv
<1> QED
  BY Invariance, <1>1, PTL

\* No two members publish different keys if twice the threshold exceeds the members and the
\* Byzantine ones together (close_confirm on forked qualified sets).
THEOREM PublishedKeysAgree == Spec => []PublishedAgree
<1>1. DInv => PublishedAgree
  BY UsableImpliesAgree DEF DInv
<1> QED
  BY Invariance, <1>1, PTL

\* An honest dealer in the qualified set of a member is in its share and its key
\* (open_complaints, on_commit, on_justify, finalize).
THEOREM HonestDealersAreFolded == Spec => []HonestQualifiedIsFolded
<1>1. DInv => HonestQualifiedIsFolded
  BY DEF DInv
<1> QED
  BY Invariance, <1>1, PTL
=============================================================================
