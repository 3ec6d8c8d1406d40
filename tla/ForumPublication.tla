---------------------------- MODULE ForumPublication ----------------------------
(***************************************************************************)
(* Publication of one composed market-research edition as a Discord forum  *)
(* thread: the edition and its delivery parts in Convex                    *)
(* (market_research.ts), the ForumPublisher processes of apps/discord      *)
(* (forum-publisher.ts) and the forum itself.                              *)
(*                                                                         *)
(* A Convex mutation is one action.  A publisher's attempt is one action   *)
(* per answer it waits for; any of its calls may throw and the process may *)
(* die, and both abandon the attempt.  Part 0 is the starter, which        *)
(* creates the thread; the other parts are replies.  The time fields       *)
(* nextAttemptAt and Retry-After only delay a claim and are left out.  The *)
(* owner of the deployment stays configured, the parts' contents fixed.    *)
(***************************************************************************)
EXTENDS Naturals, FiniteSets

CONSTANTS
    Workers,        \* publisher processes: a deployment may overlap two
    LastPart,       \* sequence of the last reply
    RetryAttempts,  \* attempts after which a failure is final
    MaxClaims,      \* bound: claims of the edition's parts, together
    None

ASSUME PublicationAssumption ==
    /\ LastPart \in Nat \ {0}
    /\ RetryAttempts \in Nat \ {0}
    /\ MaxClaims \in Nat \ {0}
    /\ None \notin Workers \cup Nat

VARIABLES
    edition,    \* the publication fields of the marketResearchEditions row
    delivery,   \* the marketResearchDeliveries rows, by sequence
    attempt,    \* what each process is publishing
    forum       \* requests on their way to Discord, messages there, the
                \* messages its listings show

publicationVars == <<edition, delivery, attempt, forum>>

Parts == 0..LastPart

(* A message is named by the claim that sent it, a thread by the claim of the
   starter that created it. *)
Messages == [part : Parts, claim : 1..MaxClaims]

(* permission_failed stands for every failure Discord reports before it did
   anything and that is not a rate limit. *)
Codes == {"none", "rate_limited", "permission_failed", "reply_failed",
          "reconcile_failed", "reconcile_ambiguous"}

Retryable == {"rate_limited", "reply_failed"}

(* Leases run out; a row without one has its worker and token cleared. *)
LeaseStates == {"none", "live", "expired"}

Init ==
    /\ edition = [status |-> "ready_to_publish", code |-> "none", thread |-> None,
                  sentPartCount |-> 0, generation |-> 0, worker |-> None,
                  lease |-> "none"]
    /\ delivery = [s \in Parts |->
                     [status |-> "pending", attempts |-> 0, code |-> "none",
                      lease |-> "none"]]
    /\ attempt = [w \in Workers |-> None]
    /\ forum = [requests |-> {}, messages |-> {}, visible |-> {}]

-----------------------------------------------------------------------------
(* Convex *)

Unsent == {s \in Parts : delivery[s].status # "sent"}

IsFirstMissing_anyUnsent(s) == s \in Unsent

IsFirstMissing(s) == s \in Unsent /\ \A q \in Unsent : s <= q

Terminalized(rows, code) ==
    [s \in Parts |->
       IF rows[s].status = "sent" THEN rows[s]
       ELSE [rows[s] EXCEPT !.status = "failed", !.code = code, !.lease = "none"]]

Unclaimed(row) == [row EXCEPT !.worker = None, !.lease = "none"]

Claimable == {"ready_to_publish", "publishing_replies", "retry_wait", "creating_thread"}

(* A pending part whose edition cannot be claimed is failed by the code, and
   so is a first missing reply without a thread; no reachable state has one. *)
claimPublication(w) ==
    \E s \in Parts :
      LET active == edition.lease = "live"
          generation == edition.generation + (IF active THEN 0 ELSE 1)
      IN /\ attempt[w] = None
         /\ delivery[s].status = "pending" /\ IsFirstMissing(s)
         /\ edition.status \in Claimable /\ edition.code # "reconcile_ambiguous"
         /\ active => edition.worker = w
         /\ edition.generation < MaxClaims
         /\ edition' = [edition EXCEPT
                !.status = IF s = 0 THEN "creating_thread" ELSE "publishing_replies",
                !.generation = generation, !.worker = w, !.lease = "live"]
         /\ delivery' = [delivery EXCEPT
                ![s].status = "sending", ![s].attempts = @ + 1, ![s].lease = "live"]
         /\ attempt' = [attempt EXCEPT ![w] =
                [part |-> s, claim |-> delivery[s].attempts + 1,
                 generation |-> generation, step |-> "heartbeat",
                 thread |-> edition.thread, outcome |-> "none",
                 code |-> IF delivery[s].code # "none" THEN delivery[s].code
                          ELSE edition.code]]
         /\ UNCHANGED forum

(* The fences of heartbeatPublication and adoptReconciledStarter, and the
   further one of acknowledgePublication. *)
HoldsEdition(a) == edition.lease = "live" /\ edition.generation = a.generation

HoldsDelivery(a) ==
    delivery[a.part].lease = "live" /\ delivery[a.part].attempts = a.claim

acknowledgeSent_offByOne(a) ==
    LET count == edition.sentPartCount + 1
    IN /\ edition' = [Unclaimed(edition) EXCEPT
              !.thread = IF a.part = 0 THEN a.thread ELSE @,
              !.status = IF count >= LastPart THEN "published" ELSE "publishing_replies",
              !.sentPartCount = count, !.code = "none"]
       /\ delivery' = [delivery EXCEPT
              ![a.part].status = "sent", ![a.part].code = "none",
              ![a.part].lease = "none"]

acknowledgeSent(a) ==
    LET count == edition.sentPartCount + 1
    IN /\ edition' = [Unclaimed(edition) EXCEPT
              !.thread = IF a.part = 0 THEN a.thread ELSE @,
              !.status = IF count > LastPart THEN "published" ELSE "publishing_replies",
              !.sentPartCount = count, !.code = "none"]
       /\ delivery' = [delivery EXCEPT
              ![a.part].status = "sent", ![a.part].code = "none",
              ![a.part].lease = "none"]

acknowledgeFailed(a) ==
    LET retry == a.outcome \in Retryable /\ delivery[a.part].attempts < RetryAttempts
        failed == [delivery EXCEPT
                     ![a.part].status = IF retry THEN "pending" ELSE "failed",
                     ![a.part].code = a.outcome, ![a.part].lease = "none"]
    IN /\ edition' = [Unclaimed(edition) EXCEPT
              !.code = a.outcome,
              !.status = CASE a.outcome = "reconcile_ambiguous" -> "failed"
                           [] retry -> "retry_wait"
                           [] OTHER -> IF a.part > 0 /\ edition.thread # None
                                       THEN "partial" ELSE "failed"]
       /\ delivery' = IF retry THEN failed ELSE Terminalized(failed, a.outcome)

adoptReconciledStarter(thread, duplicate) ==
    /\ edition' = [Unclaimed(edition) EXCEPT
           !.thread = thread, !.sentPartCount = IF @ > 1 THEN @ ELSE 1,
           !.status = IF duplicate THEN "failed" ELSE "publishing_replies",
           !.code = IF duplicate THEN "reconcile_ambiguous" ELSE @]
    /\ delivery' = IF duplicate THEN Terminalized(delivery, "reconcile_ambiguous")
                   ELSE [delivery EXCEPT ![0].status = "sent", ![0].lease = "none"]

(* A heartbeat renews the edition's lease only: it is the last to run out. *)
LeaseExpires ==
    /\ UNCHANGED <<attempt, forum>>
    /\ \/ \E s \in Parts : /\ delivery[s].lease = "live"
                           /\ delivery' = [delivery EXCEPT ![s].lease = "expired"]
                           /\ UNCHANGED edition
       \/ /\ edition.lease = "live"
          /\ \A s \in Parts : delivery[s].lease # "live"
          /\ edition' = [edition EXCEPT !.lease = "expired"]
          /\ UNCHANGED delivery

recoverDelivery_leaseOnly ==
    \E s \in Parts :
      /\ delivery[s].status = "sending" /\ delivery[s].lease = "expired"
      /\ delivery' = [delivery EXCEPT ![s].lease = "none"]
      /\ edition' = [Unclaimed(edition) EXCEPT !.status = "retry_wait"]
      /\ UNCHANGED <<attempt, forum>>

(* The part of recoverBatch about deliveries. *)
recoverDelivery ==
    \E s \in Parts :
      /\ delivery[s].status = "sending" /\ delivery[s].lease = "expired"
      /\ delivery' = [delivery EXCEPT ![s].status = "pending", ![s].lease = "none"]
      /\ edition' = [Unclaimed(edition) EXCEPT !.status = "retry_wait"]
      /\ UNCHANGED <<attempt, forum>>

retryEdition ==
    /\ edition.status \in {"failed", "partial", "retry_wait"}
    /\ edition.code # "reconcile_ambiguous"
    /\ Unsent # {}
    /\ edition' = [edition EXCEPT !.status = "retry_wait", !.code = "none"]
    /\ delivery' = [s \in Parts |->
           IF s \in Unsent
           THEN [delivery[s] EXCEPT !.status = "pending", !.code = "none", !.lease = "none"]
           ELSE delivery[s]]
    /\ UNCHANGED <<attempt, forum>>

requestReconciliation ==
    /\ edition.code = "reconcile_ambiguous" /\ edition.thread = None
    /\ delivery' = [delivery EXCEPT ![0].status = "pending", ![0].lease = "none",
                                    ![0].code = "reconcile_failed"]
    /\ edition' = [Unclaimed(edition) EXCEPT !.status = "retry_wait",
                                             !.code = "reconcile_failed"]
    /\ UNCHANGED <<attempt, forum>>

-----------------------------------------------------------------------------
(* A publisher's attempt *)

Request(a) == [part |-> a.part, claim |-> a.claim]

At(w, step) == attempt[w] # None /\ attempt[w].step = step

(* The messages of a part that a listing of the forum may show.  One that
   throws counts as empty where the code catches it. *)
Listed(s) == {m \in forum.visible : m.part = s}

Earliest(found) == {m \in found : \A n \in found : m.claim <= n.claim}

Goes(w, step) == attempt' = [attempt EXCEPT ![w].step = step]

Reports(w, outcome) ==
    attempt' = [attempt EXCEPT ![w].step = "acknowledge", ![w].outcome = outcome]

Found(w, m) ==
    attempt' = [attempt EXCEPT ![w].step = "acknowledge", ![w].outcome = "sent",
                               ![w].thread = IF m.part = 0 THEN m.claim ELSE @]

Adopts(w, found) ==
    \E m \in Earliest(found) :
      attempt' = [attempt EXCEPT ![w].step = "adopt", ![w].thread = m.claim,
          ![w].outcome = IF Cardinality(found) > 1 THEN "reconcile_ambiguous" ELSE "sent"]

heartbeat(w) ==
    /\ At(w, "heartbeat")
    /\ IF HoldsEdition(attempt[w])
       THEN \/ Goes(w, "reconcile")
            \/ Reports(w, "permission_failed")
       ELSE attempt' = [attempt EXCEPT ![w] = None]
    /\ UNCHANGED <<edition, delivery, forum>>

reconcileStarter_always(w) ==
    /\ At(w, "reconcile") /\ attempt[w].part = 0
    /\ \/ Adopts(w, Listed(0))
       \/ Goes(w, "send")
    /\ UNCHANGED <<edition, delivery, forum>>

(* Past the first attempt a thread may exist that the listing does not show
   yet; after a rate limit the code takes it that none was created. *)
reconcileStarter(w) ==
    /\ At(w, "reconcile") /\ attempt[w].part = 0
    /\ \/ Adopts(w, Listed(0))
       \/ Goes(w, IF attempt[w].claim > 1 /\ attempt[w].code # "rate_limited"
                  THEN "backoff" ELSE "send")
    /\ UNCHANGED <<edition, delivery, forum>>

(* Up to three delayed listings, as the last of them. *)
reconcileStarterWithBackoff(w) ==
    /\ At(w, "backoff")
    /\ \/ HoldsEdition(attempt[w]) /\ Adopts(w, Listed(0))
       \/ Reports(w, "reconcile_ambiguous")
    /\ UNCHANGED <<edition, delivery, forum>>

(* Before a reply is sent; a listing that throws abandons the attempt. *)
reconcileReply(w) ==
    LET found == Listed(attempt[w].part)
    IN /\ At(w, "reconcile") /\ attempt[w].part > 0
       /\ CASE found = {}             -> Goes(w, "send")
            [] Cardinality(found) = 1 -> \E m \in found : Found(w, m)
            [] OTHER                  -> Reports(w, "reconcile_ambiguous")
       /\ UNCHANGED <<edition, delivery, forum>>

send(w) ==
    /\ At(w, "send")
    /\ forum' = [forum EXCEPT !.requests = @ \cup {Request(attempt[w])}]
    /\ Goes(w, "answer")
    /\ UNCHANGED <<edition, delivery>>

(* Discord answers with the message, which for a reply may be an earlier one
   with its nonce. *)
Answered(a) ==
    \E m \in forum.messages : m = Request(a) \/ (a.part > 0 /\ m.part = a.part)

sendSucceeds(w) ==
    /\ At(w, "answer") /\ Answered(attempt[w])
    /\ IF attempt[w].part = 0
       THEN attempt' = [attempt EXCEPT ![w].step = "verify", ![w].thread = attempt[w].claim]
       ELSE Reports(w, "sent")
    /\ UNCHANGED <<edition, delivery, forum>>

sendRefused(w) ==
    /\ At(w, "answer") /\ Request(attempt[w]) \in forum.requests
    /\ forum' = [forum EXCEPT !.requests = @ \ {Request(attempt[w])}]
    /\ \E code \in {"rate_limited", "permission_failed"} :
         attempt' = [attempt EXCEPT ![w].outcome = code,
             ![w].step = IF attempt[w].part = 0 THEN "acknowledge" ELSE "recheck"]
    /\ UNCHANGED <<edition, delivery>>

(* A timeout: the request may still be executed. *)
sendUncertain(w) ==
    /\ At(w, "answer")
    /\ attempt' = IF attempt[w].part = 0
                  THEN [attempt EXCEPT ![w].step = "backoff"]
                  ELSE [attempt EXCEPT ![w].step = "recheck", ![w].outcome = "reply_failed"]
    /\ UNCHANGED <<edition, delivery, forum>>

(* Fetches the starter of the new thread until it shows. *)
verifyStarter(w) ==
    /\ At(w, "verify")
    /\ \/ HoldsEdition(attempt[w]) /\ Reports(w, "sent")
       \/ HoldsEdition(attempt[w]) /\ Goes(w, "backoff")
       \/ ~HoldsEdition(attempt[w]) /\ attempt' = [attempt EXCEPT ![w] = None]
    /\ UNCHANGED <<edition, delivery, forum>>

(* After a reply failed; a listing that throws is ignored. *)
recheckReply(w) ==
    LET found == Listed(attempt[w].part)
    IN /\ At(w, "recheck")
       /\ \/ Cardinality(found) = 1 /\ \E m \in found : Found(w, m)
          \/ Cardinality(found) > 1 /\ Reports(w, "reconcile_ambiguous")
          \/ Reports(w, attempt[w].outcome)
       /\ UNCHANGED <<edition, delivery, forum>>

acknowledgePublication(w) ==
    /\ At(w, "acknowledge")
    /\ IF HoldsEdition(attempt[w]) /\ HoldsDelivery(attempt[w])
       THEN IF attempt[w].outcome = "sent" THEN acknowledgeSent(attempt[w])
            ELSE acknowledgeFailed(attempt[w])
       ELSE UNCHANGED <<edition, delivery>>
    /\ attempt' = [attempt EXCEPT ![w] = None]
    /\ UNCHANGED forum

adopt(w) ==
    /\ At(w, "adopt")
    /\ IF HoldsEdition(attempt[w]) /\ edition.thread \in {None, attempt[w].thread}
       THEN adoptReconciledStarter(attempt[w].thread,
                                   attempt[w].outcome = "reconcile_ambiguous")
       ELSE UNCHANGED <<edition, delivery>>
    /\ attempt' = [attempt EXCEPT ![w] = None]
    /\ UNCHANGED forum

(* A call throws or the process dies. *)
abandon(w) ==
    /\ attempt[w] # None
    /\ attempt' = [attempt EXCEPT ![w] = None]
    /\ UNCHANGED <<edition, delivery, forum>>

-----------------------------------------------------------------------------
(* Discord.  A request may never arrive; a reply with the nonce of an earlier
   one creates nothing. *)

Arrives(m) ==
    /\ m \in forum.requests
    /\ forum' = [forum EXCEPT !.requests = @ \ {m},
           !.messages = IF m.part > 0 /\ \E n \in @ : n.part = m.part
                        THEN @ ELSE @ \cup {m}]
    /\ UNCHANGED <<edition, delivery, attempt>>

Appears(m) ==
    /\ m \in forum.messages \ forum.visible
    /\ forum' = [forum EXCEPT !.visible = @ \cup {m}]
    /\ UNCHANGED <<edition, delivery, attempt>>

-----------------------------------------------------------------------------
Publishes(w) ==
    \/ claimPublication(w)
    \/ heartbeat(w)
    \/ reconcileStarter(w)
    \/ reconcileStarterWithBackoff(w)
    \/ reconcileReply(w)
    \/ send(w)
    \/ sendSucceeds(w)
    \/ sendRefused(w)
    \/ sendUncertain(w)
    \/ verifyStarter(w)
    \/ recheckReply(w)
    \/ acknowledgePublication(w)
    \/ adopt(w)

Next ==
    \/ \E w \in Workers : Publishes(w) \/ abandon(w)
    \/ LeaseExpires
    \/ recoverDelivery
    \/ retryEdition
    \/ requestReconciliation
    \/ \E m \in Messages : Arrives(m) \/ Appears(m)

Spec == Init /\ [][Next]_publicationVars

(* Each process polls and gets its answers, the recovery cron runs every
   minute, and leases run out. *)
FairSpec ==
    /\ Spec
    /\ \A w \in Workers : WF_publicationVars(Publishes(w))
    /\ WF_publicationVars(LeaseExpires)
    /\ WF_publicationVars(recoverDelivery)

-----------------------------------------------------------------------------
Attempts ==
    [part : Parts, claim : 1..MaxClaims, generation : Nat, outcome : Codes \cup {"sent"},
     thread : 1..MaxClaims \cup {None}, code : Codes,
     step : {"heartbeat", "reconcile", "backoff", "send", "answer", "verify",
             "recheck", "acknowledge", "adopt"}]

(* The shape of the rows, the attempts and the forum. *)
TypeOK ==
    /\ edition \in [status : Claimable \cup {"failed", "partial", "published"},
                    code : Codes, thread : 1..MaxClaims \cup {None},
                    sentPartCount : Nat, generation : Nat,
                    worker : Workers \cup {None}, lease : LeaseStates]
    /\ delivery \in [Parts -> [status : {"pending", "sending", "sent", "failed"},
                              attempts : 0..MaxClaims, code : Codes, lease : LeaseStates]]
    /\ attempt \in [Workers -> Attempts \cup {None}]
    /\ forum \in [requests : SUBSET Messages, messages : SUBSET Messages,
                  visible : SUBSET Messages]

Threads == {m \in forum.messages : m.part = 0}

(* A published edition is complete in Discord: every part is recorded as sent
   and is there, in the thread the edition names. *)
PublishedInFull ==
    edition.status = "published" =>
        /\ \E m \in Threads : m.claim = edition.thread
        /\ \A s \in Parts : /\ delivery[s].status = "sent"
                            /\ \E m \in forum.messages : m.part = s

(* Whatever attempts overlap and whatever answers are lost, the forum gets a
   reply only when every earlier part is recorded as sent, and once: this half
   takes Discord's word for enforce_nonce (see Arrives), what the publisher adds
   is that every request for a part carries the same nonce. *)
RepliesOnceInOrder ==
    \A m \in forum.messages \cup forum.requests : m.part > 0 =>
        /\ \A q \in 0..(m.part - 1) : delivery[q].status = "sent"
        /\ m \in forum.messages =>
             \A n \in forum.messages : n.part = m.part => n = m

(* Once a thread may exist, no step asks Discord for another one, except the
   one after a rate limit. *)
NoBlindSecondThread ==
    [][\A w \in Workers :
         send(w) /\ attempt[w].part = 0 =>
            \/ attempt[w].code = "rate_limited"
            \/ \A m \in forum.requests \cup forum.messages : m.part > 0]_publicationVars

Worked == \E s \in Parts : delivery[s].status \in {"pending", "sending"}

UsedUp == edition.generation = MaxClaims

(* Publication work ends: a part that is pending or being sent does not stay
   so, whatever crashes and answers get lost. *)
WorkSettles == Worked ~> (~Worked \/ UsedUp)

=============================================================================
