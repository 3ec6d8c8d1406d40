----------------------------- MODULE TradeProposals -----------------------------
(***************************************************************************)
(* Trade proposals from their creation by a Pi tool call to the broker's   *)
(* order: the tradeProposals documents of Convex (trading.ts), the         *)
(* approveProposal and disconnectRobinhood actions, which call Pi over     *)
(* HTTP, and the two maps of Pi's TradingBrokerService                     *)
(* (trading-broker.ts), which a restart empties.                           *)
(*                                                                         *)
(* A Convex mutation is one action.  A Convex action is not: it may die    *)
(* between two of its calls, and its request to Pi may be executed after   *)
(* the caller gave up.  executeOrder has no await and is one action.  The  *)
(* details of an order and its fingerprint are fixed by the proposal's id; *)
(* calls with another fingerprint change nothing and are left out.         *)
(***************************************************************************)
EXTENDS Integers, FiniteSets

CONSTANTS
    Proposals,                \* ids Pi may draw
    PROPOSAL_EXPIRY_BATCH,    \* proposals one run of the cron expires
    BrokerMode                \* "mock" or "robinhood"

ASSUME TradeAssumption ==
    /\ IsFiniteSet(Proposals)
    /\ PROPOSAL_EXPIRY_BATCH \in Nat \ {0}
    /\ BrokerMode \in {"mock", "robinhood"}

VARIABLES
    tradeProposal,\* the tradeProposals documents
    call,         \* the approveProposal action at work on each proposal
    clearing,     \* a disconnectRobinhood action has yet to invalidate
    posts,        \* proposals sent to /service/trade-proposals
    proposing,    \* tool calls that wait for the answer to that
    requests,     \* /orders/execute requests on their way to Pi
    proposals,    \* Pi's map of proposals
    submissions,  \* Pi's map of results, by the proposal's idempotency key
    placed,       \* orders the broker has taken for each proposal
    expired       \* proposals past expiresAt on the clocks of Convex and Pi

tradeVars == <<tradeProposal, call, clearing, posts, proposing, requests,
               proposals, submissions, placed, expired>>

(* What executeOrder answers when it places no order. *)
Refusal == {"proposal_mismatch", "proposal_expired", "live_trading_disabled"}

ProposalStatus == {"absent", "awaiting_confirmation", "submitting", "submitted",
                   "failed", "rejected", "expired"}

(* "approved" is in the schema too, and nothing writes it. *)
pendingStatuses == {"awaiting_confirmation", "submitting"}

FailureCode == Refusal \cup {"none", "submission_failed", "broker_disconnected"}

ProposalRecord == [status : ProposalStatus, failure : FailureCode]

Doc(status, failure) == [status |-> status, failure |-> failure]

(* waiting: for /orders/execute; then its answer; failing: in the catch block *)
CallState == {"none", "waiting", "submitted", "failing"} \cup Refusal

Init ==
    /\ tradeProposal = [p \in Proposals |-> Doc("absent", "none")]
    /\ call = [p \in Proposals |-> "none"]
    /\ clearing = FALSE
    /\ posts = {} /\ proposing = {} /\ requests = {}
    /\ proposals = {} /\ submissions = {}
    /\ placed = [p \in Proposals |-> 0]
    /\ expired = [convex |-> {}, pi |-> {}]

-----------------------------------------------------------------------------
(* Pi proposes an order. *)

proposeOrder(p) ==
    /\ p \notin posts
    /\ posts' = posts \cup {p}
    /\ proposing' = proposing \cup {p}
    /\ UNCHANGED <<tradeProposal, call, clearing, requests, proposals, submissions,
                   placed, expired>>

recordProposal_upsert(p) ==
    /\ p \in posts
    /\ tradeProposal' = [tradeProposal EXCEPT ![p] = Doc("awaiting_confirmation", "none")]
    /\ UNCHANGED <<call, clearing, posts, proposing, requests, proposals,
                   submissions, placed, expired>>

(* The request may arrive again; then the proposal is already there. *)
recordProposal(p) ==
    /\ p \in posts
    /\ tradeProposal[p].status = "absent"
    /\ tradeProposal' = [tradeProposal EXCEPT ![p] = Doc("awaiting_confirmation", "none")]
    /\ UNCHANGED <<call, clearing, posts, proposing, requests, proposals,
                   submissions, placed, expired>>

(* Convex's answer reaches the tool call, which only now keeps the proposal. *)
KeepProposal(p) ==
    /\ p \in proposing
    /\ tradeProposal[p].status # "absent"
    /\ proposing' = proposing \ {p}
    /\ proposals' = proposals \cup {p}
    /\ UNCHANGED <<tradeProposal, call, clearing, posts, requests, submissions,
                   placed, expired>>

-----------------------------------------------------------------------------
(* The owner decides. *)

Approvable(p) ==
    /\ tradeProposal[p].status = "awaiting_confirmation"
    /\ p \notin expired.convex

(* approveProposal up to its request: markProposalApproved commits, and the
   request is sent.  Of a proposal that is past its expiry the mutation writes
   "expired" and throws, so that Convex takes the write back. *)
approveProposal(p) ==
    /\ Approvable(p)
    /\ tradeProposal' = [tradeProposal EXCEPT ![p] = Doc("submitting", "none")]
    /\ call' = [call EXCEPT ![p] = "waiting"]
    /\ requests' = requests \cup {p}
    /\ UNCHANGED <<clearing, posts, proposing, proposals, submissions, placed,
                   expired>>

rejectProposal_pending(p) ==
    /\ tradeProposal[p].status \in pendingStatuses
    /\ tradeProposal' = [tradeProposal EXCEPT ![p].status = "rejected"]
    /\ UNCHANGED <<call, clearing, posts, proposing, requests, proposals,
                   submissions, placed, expired>>

rejectProposal(p) ==
    /\ tradeProposal[p].status = "awaiting_confirmation"
    /\ tradeProposal' = [tradeProposal EXCEPT ![p].status = "rejected"]
    /\ UNCHANGED <<call, clearing, posts, proposing, requests, proposals,
                   submissions, placed, expired>>

-----------------------------------------------------------------------------
(* Pi executes an order, and Convex records the outcome. *)

OrderOutcome(p) ==
    CASE p \notin proposals      -> "proposal_mismatch"
      [] p \in proposals \cap expired.pi -> "proposal_expired"
      [] OTHER -> IF p \in submissions \/ BrokerMode = "mock"
                  THEN "submitted"
                  ELSE "live_trading_disabled"

(* The answer is for the action if it still waits. *)
executeOrder(p) ==
    LET outcome == OrderOutcome(p)
        places  == outcome = "submitted" /\ p \notin submissions
    IN  /\ p \in requests
        /\ requests' = requests \ {p}
        /\ submissions' = IF places THEN submissions \cup {p} ELSE submissions
        /\ placed' = IF places THEN [placed EXCEPT ![p] = @ + 1] ELSE placed
        /\ call' = IF call[p] = "waiting" THEN [call EXCEPT ![p] = outcome] ELSE call
        /\ UNCHANGED <<tradeProposal, clearing, posts, proposing, proposals, expired>>

Finished(outcome) ==
    IF outcome = "submitted" THEN Doc("submitted", "none") ELSE Doc("failed", outcome)

(* finishProposalSubmission with Pi's answer, whatever the status has become;
   its own answer may be lost, and then the catch block runs as well. *)
finishProposalSubmission(p) ==
    /\ call[p] \in Refusal \cup {"submitted"}
    /\ tradeProposal' = [tradeProposal EXCEPT ![p] = Finished(call[p])]
    /\ call' \in {[call EXCEPT ![p] = c] : c \in {"none", "failing"}}
    /\ UNCHANGED <<clearing, posts, proposing, requests, proposals, submissions,
                   placed, expired>>

(* The request fails, its answer is lost or unusable, or recording it throws. *)
CallFails(p) ==
    /\ call[p] \in Refusal \cup {"waiting", "submitted"}
    /\ call' = [call EXCEPT ![p] = "failing"]
    /\ UNCHANGED <<tradeProposal, clearing, posts, proposing, requests, proposals,
                   submissions, placed, expired>>

finishFailed(p) ==
    /\ call[p] = "failing"
    /\ tradeProposal' = [tradeProposal EXCEPT ![p] = Doc("failed", "submission_failed")]
    /\ call' = [call EXCEPT ![p] = "none"]
    /\ UNCHANGED <<clearing, posts, proposing, requests, proposals, submissions,
                   placed, expired>>

(* Convex does not run an action again that died. *)
ActionDies(p) ==
    /\ call[p] # "none"
    /\ call' = [call EXCEPT ![p] = "none"]
    /\ UNCHANGED <<tradeProposal, clearing, posts, proposing, requests, proposals,
                   submissions, placed, expired>>

-----------------------------------------------------------------------------
(* Expiry, disconnection, restart. *)

Expires(p) ==
    /\ \/ /\ p \notin expired.convex
          /\ expired' = [expired EXCEPT !.convex = @ \cup {p}]
       \/ /\ p \notin expired.pi
          /\ expired' = [expired EXCEPT !.pi = @ \cup {p}]
    /\ UNCHANGED <<tradeProposal, call, clearing, posts, proposing, requests, proposals,
                   submissions, placed>>

StaleProposals_submitting ==
    {p \in expired.convex : tradeProposal[p].status = "submitting"}

StaleProposals ==
    {p \in expired.convex : tradeProposal[p].status = "awaiting_confirmation"}

(* One batch of the cron; a full one schedules the next. *)
expireStaleProposals ==
    /\ StaleProposals # {}
    /\ \E batch \in SUBSET StaleProposals :
         /\ \/ Cardinality(batch) = PROPOSAL_EXPIRY_BATCH
            \/ batch = StaleProposals /\ Cardinality(batch) < PROPOSAL_EXPIRY_BATCH
         /\ tradeProposal' = [p \in Proposals |->
                           IF p \in batch THEN Doc("expired", "proposal_expired")
                           ELSE tradeProposal[p]]
    /\ UNCHANGED <<call, clearing, posts, proposing, requests, proposals,
                   submissions, placed, expired>>

(* disconnectRobinhood: Pi forgets its proposals, not the results; if the action
   gets Pi's answer and lives, it goes on to invalidate. *)
disconnect ==
    /\ proposals' = {}
    /\ clearing' \in {clearing, TRUE}
    /\ UNCHANGED <<tradeProposal, call, posts, proposing, requests, submissions, placed,
                   expired>>

invalidatePendingProposals ==
    /\ clearing
    /\ tradeProposal' = [p \in Proposals |->
                      IF tradeProposal[p].status \in pendingStatuses
                      THEN Doc("expired", "broker_disconnected")
                      ELSE tradeProposal[p]]
    /\ clearing' \in BOOLEAN     \* TRUE: of another disconnectRobinhood
    /\ UNCHANGED <<call, posts, proposing, requests, proposals, submissions, placed,
                   expired>>

RestartPi ==
    /\ proposals' = {} /\ submissions' = {} /\ proposing' = {}
    /\ UNCHANGED <<tradeProposal, call, clearing, posts, requests, placed, expired>>

-----------------------------------------------------------------------------
OfProposal(p) ==
    \/ proposeOrder(p) \/ recordProposal(p) \/ KeepProposal(p)
    \/ approveProposal(p) \/ rejectProposal(p)
    \/ executeOrder(p) \/ finishProposalSubmission(p)
    \/ CallFails(p) \/ finishFailed(p) \/ ActionDies(p)
    \/ Expires(p)

Next ==
    \/ \E p \in Proposals : OfProposal(p)
    \/ expireStaleProposals
    \/ disconnect
    \/ invalidatePendingProposals
    \/ RestartPi

Spec == Init /\ [][Next]_tradeVars

(* The cron runs each minute; nobody need decide, and Pi need not answer. *)
FairSpec == Spec /\ WF_tradeVars(expireStaleProposals)

-----------------------------------------------------------------------------
(* Each document and each action at work has its shape. *)
TypeOK ==
    /\ tradeProposal \in [Proposals -> ProposalRecord]
    /\ call \in [Proposals -> CallState]
    /\ clearing \in BOOLEAN
    /\ posts \subseteq Proposals /\ proposing \subseteq Proposals
    /\ requests \subseteq Proposals /\ proposals \subseteq Proposals
    /\ submissions \subseteq Proposals
    /\ placed \in [Proposals -> Nat]
    /\ expired \in [convex : SUBSET Proposals, pi : SUBSET Proposals]

(* The owner, or the cron, has turned the proposal down. *)
TurnedDown(p) ==
    tradeProposal[p] \in {Doc("rejected", "none"), Doc("expired", "proposal_expired")}

(* What the owner reads is true of the broker, whatever was lost, repeated or
   overtaken on the way: "submitted" means one order, a refusal of Pi means
   none, and there is none for a proposal that was never approved or was
   turned down.  Only "submitting", "submission_failed" and
   "broker_disconnected" say nothing of the order; no proposal has two. *)
RecordsAreTrue ==
    \A p \in Proposals :
        /\ tradeProposal[p].status = "submitted" => placed[p] = 1
        /\ \/ tradeProposal[p].status \in {"absent", "awaiting_confirmation"}
           \/ tradeProposal[p].status = "failed" /\ tradeProposal[p].failure \in Refusal
           \/ TurnedDown(p)
           => placed[p] = 0
        /\ placed[p] <= 1

(* A proposal that was turned down stays so: no late request, answer, batch of
   the cron or disconnection changes its document. *)
TurnedDownForGood ==
    [][\A p \in Proposals : TurnedDown(p) => tradeProposal'[p] = tradeProposal[p]]_tradeVars

(* A proposal past its expiry does not await confirmation for ever, however
   many others expire with it. *)
StaleProposalsClose ==
    \A p \in Proposals :
        tradeProposal[p].status = "awaiting_confirmation" /\ p \in expired.convex
            ~> tradeProposal[p].status # "awaiting_confirmation"

=============================================================================
