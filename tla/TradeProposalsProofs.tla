-------------------------- MODULE TradeProposalsProofs --------------------------
(***************************************************************************)
(* Proofs about TradeProposals for every value of its constants, in mock   *)
(* and in Robinhood mode: types, what the record of a proposal says of the *)
(* broker's orders, and that a proposal turned down stays so.              *)
(*                                                                         *)
(* Records alone are not inductive: whether a record is true after a step  *)
(* depends on the request still on its way and on the answer the action    *)
(* holds.  Sound relates the four places a proposal's order shows in.      *)
(***************************************************************************)
EXTENDS TradeProposals, TLAPS

(* No approval of the proposal has ever been committed. *)
NeverApproved(p) ==
    \/ tradeProposal[p].status \in {"absent", "awaiting_confirmation"}
    \/ TurnedDown(p)

Sound(p) ==
    /\ NeverApproved(p) => call[p] = "none" /\ p \notin requests /\ placed[p] = 0
    /\ p \in requests => placed[p] = 0 /\ call[p] \in {"none", "waiting", "failing"}
    /\ call[p] = "waiting" => p \in requests
    /\ call[p] = "submitted" => placed[p] = 1
    /\ call[p] \in Refusal => placed[p] = 0
    /\ tradeProposal[p].status = "submitted" => placed[p] = 1
    /\ tradeProposal[p].status = "failed" /\ tradeProposal[p].failure \in Refusal
         => placed[p] = 0 /\ p \notin requests
    /\ p \in submissions => placed[p] = 1
    /\ placed[p] <= 1

AllSound == \A p \in Proposals : Sound(p)

-----------------------------------------------------------------------------
LEMMA DocTypes ==
    ASSUME NEW s \in ProposalStatus, NEW f \in FailureCode
    PROVE  Doc(s, f) \in ProposalRecord
BY DEF Doc, ProposalRecord

LEMMA InitTypes == Init => TypeOK
<1>1. Doc("absent", "none") \in ProposalRecord
  BY DocTypes DEF ProposalStatus, FailureCode
<1>2. ASSUME Init
      PROVE  /\ tradeProposal \in [Proposals -> ProposalRecord]
             /\ call \in [Proposals -> CallState]
             /\ placed \in [Proposals -> Nat]
  BY <1>1, <1>2 DEF Init, CallState
<1>3. Init => expired \in [convex : SUBSET Proposals, pi : SUBSET Proposals]
  BY DEF Init
<1>. QED
  BY <1>2, <1>3 DEF Init, TypeOK

LEMMA NextTypes == TypeOK /\ [Next]_tradeVars => TypeOK'
<1>. SUFFICES ASSUME TypeOK, [Next]_tradeVars PROVE TypeOK'
  OBVIOUS
<1>. USE DEF TypeOK
<1>1. ASSUME NEW p \in Proposals, proposeOrder(p) PROVE TypeOK'
  BY <1>1 DEF proposeOrder
<1>2. ASSUME NEW p \in Proposals, recordProposal(p) PROVE TypeOK'
  BY <1>2, DocTypes DEF recordProposal, ProposalStatus, FailureCode
<1>3. ASSUME NEW p \in Proposals, KeepProposal(p) PROVE TypeOK'
  BY <1>3 DEF KeepProposal
<1>4. ASSUME NEW p \in Proposals, approveProposal(p) PROVE TypeOK'
  BY <1>4, DocTypes DEF approveProposal, ProposalStatus, FailureCode, CallState
<1>5. ASSUME NEW p \in Proposals, rejectProposal(p) PROVE TypeOK'
  BY <1>5 DEF rejectProposal, ProposalRecord, ProposalStatus
<1>6. ASSUME NEW p \in Proposals, executeOrder(p) PROVE TypeOK'
  BY <1>6 DEF executeOrder, OrderOutcome, CallState, Refusal
<1>7. ASSUME NEW p \in Proposals, finishProposalSubmission(p) PROVE TypeOK'
  <2>1. Finished(call[p]) \in ProposalRecord
    BY <1>7, DocTypes DEF finishProposalSubmission, Finished, ProposalStatus, FailureCode
  <2>. QED
    BY <1>7, <2>1 DEF finishProposalSubmission, CallState
<1>8. ASSUME NEW p \in Proposals, CallFails(p) \/ ActionDies(p) PROVE TypeOK'
  BY <1>8 DEF CallFails, ActionDies, CallState
<1>9. ASSUME NEW p \in Proposals, finishFailed(p) PROVE TypeOK'
  BY <1>9, DocTypes DEF finishFailed, ProposalStatus, FailureCode, CallState
<1>10. ASSUME NEW p \in Proposals, Expires(p) PROVE TypeOK'
  BY <1>10 DEF Expires
<1>11. CASE expireStaleProposals
  BY <1>11, DocTypes DEF expireStaleProposals, ProposalStatus, FailureCode, Refusal
<1>12. CASE disconnect
  BY <1>12 DEF disconnect
<1>13. CASE invalidatePendingProposals
  BY <1>13, DocTypes DEF invalidatePendingProposals, ProposalStatus, FailureCode
<1>14. CASE RestartPi
  BY <1>14 DEF RestartPi
<1>15. CASE UNCHANGED tradeVars
  BY <1>15 DEF tradeVars
<1>. QED
  BY <1>1, <1>2, <1>3, <1>4, <1>5, <1>6, <1>7, <1>8, <1>9, <1>10, <1>11, <1>12,
     <1>13, <1>14, <1>15 DEF Next, OfProposal

(* Documents, actions at work and both maps of Pi keep their shapes. *)
THEOREM TypeCorrect == Spec => []TypeOK
<1>. QED
  BY InitTypes, NextTypes, PTL DEF Spec

-----------------------------------------------------------------------------
LEMMA InitSound == Init => AllSound
BY DEF Init, AllSound, Sound, NeverApproved, TurnedDown, Doc, Refusal

(* A step that leaves what Sound relates as it is. *)
LEMMA SameSound ==
    ASSUME NEW p \in Proposals, Sound(p),
           tradeProposal'[p] = tradeProposal[p], call'[p] = call[p],
           p \in requests' <=> p \in requests,
           p \in submissions' => p \in submissions,
           placed'[p] = placed[p]
    PROVE  Sound(p)'
BY DEF Sound, NeverApproved, TurnedDown

(* A step of one proposal changes nothing that Sound says of another. *)
LEMMA OthersSound ==
    ASSUME TypeOK, AllSound, NEW p \in Proposals, OfProposal(p), Sound(p)'
    PROVE  AllSound'
<1>. SUFFICES ASSUME NEW q \in Proposals, q # p PROVE Sound(q)'
  BY DEF AllSound
<1>1. /\ tradeProposal'[q] = tradeProposal[q] /\ call'[q] = call[q]
      /\ q \in requests' <=> q \in requests
      /\ q \in submissions' => q \in submissions
      /\ placed'[q] = placed[q]
  BY DEF TypeOK, OfProposal, proposeOrder, recordProposal, KeepProposal,
         approveProposal, rejectProposal, executeOrder, finishProposalSubmission,
         CallFails, finishFailed, ActionDies, Expires
<1>. QED
  BY <1>1, SameSound DEF AllSound

LEMMA OwnStepSound ==
    ASSUME TypeOK, NEW p \in Proposals, Sound(p), OfProposal(p)
    PROVE  Sound(p)'
<1>. USE DEF TypeOK
<1>1. CASE proposeOrder(p) \/ KeepProposal(p) \/ Expires(p)
  BY <1>1, SameSound DEF proposeOrder, KeepProposal, Expires
<1>2. CASE recordProposal(p)
  BY <1>2 DEF recordProposal, Sound, NeverApproved, TurnedDown, Doc, Refusal
<1>3. CASE approveProposal(p)
  BY <1>3 DEF approveProposal, Approvable, Sound, NeverApproved, TurnedDown, Doc, Refusal
<1>4. CASE rejectProposal(p)
  BY <1>4 DEF rejectProposal, Sound, NeverApproved, TurnedDown, Doc, Refusal
<1>5. CASE executeOrder(p)
  <2>1. ~NeverApproved(p) /\ placed[p] = 0 /\ p \notin submissions
    BY <1>5 DEF executeOrder, Sound
  <2>2. OrderOutcome(p) \in Refusal \cup {"submitted"}
    BY DEF OrderOutcome, Refusal
  <2>3. /\ UNCHANGED tradeProposal /\ requests' = requests \ {p}
        /\ call'[p] = IF call[p] = "waiting" THEN OrderOutcome(p) ELSE call[p]
        /\ placed'[p] = IF OrderOutcome(p) = "submitted" THEN 1 ELSE 0
        /\ p \in submissions' <=> OrderOutcome(p) = "submitted"
    BY <1>5, <2>1 DEF executeOrder
  <2>4. call[p] \in {"none", "waiting", "failing"}
    BY <1>5 DEF executeOrder, Sound
  <2>5. ~NeverApproved(p)'
    BY <2>1, <2>3 DEF NeverApproved, TurnedDown
  <2>6. /\ tradeProposal[p].status # "submitted"
        /\ ~(tradeProposal[p].status = "failed" /\ tradeProposal[p].failure \in Refusal)
    BY <1>5, <2>1 DEF executeOrder, Sound
  <2>. QED
    BY <2>2, <2>3, <2>4, <2>5, <2>6 DEF Sound, Refusal
<1>6. CASE finishProposalSubmission(p)
  <2>1. ~NeverApproved(p) /\ p \notin requests
    BY <1>6 DEF finishProposalSubmission, Sound, Refusal
  <2>2. /\ tradeProposal'[p] = Finished(call[p]) /\ call'[p] \in {"none", "failing"}
        /\ UNCHANGED <<requests, submissions, placed>>
    BY <1>6 DEF finishProposalSubmission
  <2>3. ~NeverApproved(p)'
    BY <2>2 DEF NeverApproved, TurnedDown, Finished, Doc
  <2>4. CASE call[p] = "submitted"
    BY <2>1, <2>2, <2>3, <2>4 DEF Sound, Finished, Doc, Refusal
  <2>5. CASE call[p] \in Refusal
    BY <2>1, <2>2, <2>3, <2>5 DEF Sound, Finished, Doc, Refusal
  <2>. QED
    BY <1>6, <2>4, <2>5 DEF finishProposalSubmission
<1>7. CASE CallFails(p)
  BY <1>7 DEF CallFails, Sound, NeverApproved, TurnedDown, Refusal
<1>8. CASE finishFailed(p)
  BY <1>8 DEF finishFailed, Sound, NeverApproved, TurnedDown, Doc, Refusal
<1>9. CASE ActionDies(p)
  BY <1>9 DEF ActionDies, Sound, NeverApproved, TurnedDown, Refusal
<1>. QED
  BY <1>1, <1>2, <1>3, <1>4, <1>5, <1>6, <1>7, <1>8, <1>9 DEF OfProposal

LEMMA NextSound == TypeOK /\ AllSound /\ [Next]_tradeVars => AllSound'
<1>. SUFFICES ASSUME TypeOK, AllSound, [Next]_tradeVars PROVE AllSound'
  OBVIOUS
<1>1. ASSUME NEW p \in Proposals, OfProposal(p) PROVE AllSound'
  BY <1>1, OwnStepSound, OthersSound DEF AllSound
<1>2. CASE expireStaleProposals
  <2>. SUFFICES ASSUME NEW p \in Proposals PROVE Sound(p)'
    BY DEF AllSound
  <2>1. PICK batch \in SUBSET StaleProposals :
          tradeProposal' = [q \in Proposals |->
                              IF q \in batch THEN Doc("expired", "proposal_expired")
                              ELSE tradeProposal[q]]
    BY <1>2 DEF expireStaleProposals
  <2>2. UNCHANGED <<call, requests, submissions, placed>>
    BY <1>2 DEF expireStaleProposals
  <2>3. CASE p \in batch
    BY <2>1, <2>2, <2>3 DEF AllSound, Sound, NeverApproved, TurnedDown, StaleProposals,
                            Doc, Refusal
  <2>4. CASE p \notin batch
    BY <2>1, <2>2, <2>4, SameSound DEF AllSound
  <2>. QED
    BY <2>3, <2>4
<1>3. CASE invalidatePendingProposals
  <2>. SUFFICES ASSUME NEW p \in Proposals PROVE Sound(p)'
    BY DEF AllSound
  <2>1. UNCHANGED <<call, requests, submissions, placed>>
    BY <1>3 DEF invalidatePendingProposals
  <2>2. CASE tradeProposal[p].status \in pendingStatuses
    BY <1>3, <2>1, <2>2 DEF invalidatePendingProposals, AllSound, Sound, NeverApproved,
                            TurnedDown, Doc, Refusal
  <2>3. CASE tradeProposal[p].status \notin pendingStatuses
    BY <1>3, <2>1, <2>3, SameSound DEF invalidatePendingProposals, AllSound
  <2>. QED
    BY <2>2, <2>3
<1>4. CASE disconnect \/ RestartPi \/ UNCHANGED tradeVars
  BY <1>4, SameSound DEF disconnect, RestartPi, tradeVars, AllSound
<1>. QED
  BY <1>1, <1>2, <1>3, <1>4 DEF Next

LEMMA SoundAlways == Spec => []AllSound
<1>. QED
  BY InitTypes, NextTypes, InitSound, NextSound, PTL DEF Spec

(* What a proposal's record says of the broker's orders is true, and the
   broker takes at most one order for it. *)
THEOREM RecordsAreTrueHolds == Spec => []RecordsAreTrue
<1>1. TypeOK /\ AllSound => RecordsAreTrue
  BY DEF TypeOK, AllSound, Sound, NeverApproved, RecordsAreTrue
<1>. QED
  BY <1>1, TypeCorrect, SoundAlways, PTL

(* No step changes the record of a proposal that was turned down. *)
THEOREM TurnedDownForGoodHolds == Spec => TurnedDownForGood
<1>1. ASSUME TypeOK, AllSound, [Next]_tradeVars, NEW p \in Proposals, TurnedDown(p)
      PROVE  tradeProposal'[p] = tradeProposal[p]
  <2>1. call[p] = "none"
    BY <1>1 DEF AllSound, Sound, NeverApproved
  <2>2. tradeProposal[p].status \in {"rejected", "expired"}
    BY <1>1 DEF TurnedDown, Doc
  <2>3. ASSUME NEW q \in Proposals, OfProposal(q) PROVE tradeProposal'[p] = tradeProposal[p]
    <3>1. CASE q = p
      BY <1>1, <2>1, <2>2, <2>3, <3>1
      DEF TypeOK, OfProposal, proposeOrder, recordProposal, KeepProposal,
          approveProposal, Approvable, rejectProposal, executeOrder,
          finishProposalSubmission, CallFails, finishFailed, ActionDies, Expires, Refusal
    <3>2. CASE q # p
      BY <1>1, <2>3, <3>2
      DEF TypeOK, OfProposal, proposeOrder, recordProposal, KeepProposal,
          approveProposal, rejectProposal, executeOrder,
          finishProposalSubmission, CallFails, finishFailed, ActionDies, Expires
    <3>. QED
      BY <3>1, <3>2
  <2>4. CASE expireStaleProposals
    BY <1>1, <2>2, <2>4 DEF expireStaleProposals, StaleProposals
  <2>5. CASE invalidatePendingProposals
    BY <1>1, <2>2, <2>5 DEF invalidatePendingProposals, pendingStatuses
  <2>6. CASE disconnect \/ RestartPi \/ UNCHANGED tradeVars
    BY <2>6 DEF disconnect, RestartPi, tradeVars
  <2>. QED
    BY <1>1, <2>3, <2>4, <2>5, <2>6 DEF Next
<1>2. TypeOK /\ AllSound /\ [Next]_tradeVars
        => [\A p \in Proposals : TurnedDown(p) => tradeProposal'[p] = tradeProposal[p]]_tradeVars
  BY <1>1
<1>. QED
  BY <1>2, TypeCorrect, SoundAlways, PTL DEF Spec, TurnedDownForGood

=============================================================================
