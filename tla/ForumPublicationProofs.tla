------------------------- MODULE ForumPublicationProofs -------------------------
(***************************************************************************)
(* Proofs about ForumPublication for any number of publisher processes, of *)
(* parts and of attempts: types, that a published edition is complete,     *)
(* that replies are posted once and in order, and that no thread is asked  *)
(* for blindly.                                                            *)
(*                                                                         *)
(* What a step may do to the rows rests on the fences: an attempt that     *)
(* still holds the edition is the only one, and its part is the first that *)
(* is missing.  What the rows say of the forum rests on what the attempts  *)
(* have seen there.                                                        *)
(***************************************************************************)
EXTENDS ForumPublication, TLAPS

Sent(s) == delivery[s].status = "sent"

Active(w) == attempt[w] # None

InForum(s) == \E m \in forum.messages : m.part = s

ThreadExists(c) == \E m \in forum.messages : m.part = 0 /\ m.claim = c

(* A live lease of the edition is that of a claim whose part is being sent. *)
LeasedIsSending ==
    edition.lease = "live" =>
        /\ edition.status \in {"creating_thread", "publishing_replies"}
        /\ \E s \in Parts : /\ delivery[s].status = "sending"
                            /\ \A q \in Parts : q < s => Sent(q)

(* Claims are counted by the generation. *)
ClaimsCounted == \A s \in Parts : delivery[s].attempts <= edition.generation

TypeInv == TypeOK /\ LeasedIsSending /\ ClaimsCounted

(* Claims of a part have one attempt each, made when every earlier part was
   sent; one that holds the edition is its worker's, and has a part to send. *)
Fenced(w) ==
    Active(w) =>
        /\ attempt[w].generation <= edition.generation
        /\ attempt[w].claim <= delivery[attempt[w].part].attempts
        /\ \A q \in Parts : q < attempt[w].part => Sent(q)
        /\ HoldsEdition(attempt[w]) => edition.worker = w /\ ~Sent(attempt[w].part)
        /\ \A v \in Workers : /\ v # w /\ Active(v) /\ attempt[v].part = attempt[w].part
                              => attempt[v].claim # attempt[w].claim

(* An attempt takes for sent only what it saw in the forum. *)
Honest(w) ==
    Active(w) =>
        /\ attempt[w].thread # None => ThreadExists(attempt[w].thread)
        /\ attempt[w].step \in {"backoff", "verify", "adopt"} => attempt[w].part = 0
        /\ attempt[w].step = "recheck" => attempt[w].part # 0
        /\ attempt[w].step \in {"verify", "adopt"} \/ attempt[w].outcome = "sent" =>
             IF attempt[w].part = 0 THEN attempt[w].thread # None ELSE InForum(attempt[w].part)

AttemptInv == \A w \in Workers : Fenced(w) /\ Honest(w)

(* Two starters were found: nothing is published any more. *)
Duplicated ==
    /\ edition.thread # None /\ edition.code = "reconcile_ambiguous"
    /\ edition.status = "failed" /\ edition.lease # "live"
    /\ \A s \in Parts : delivery[s].status \in {"sent", "failed"}

(* The parts that were sent are the first sentPartCount, and in the forum. *)
RowsInv ==
    /\ Duplicated \/ \A s \in Parts : Sent(s) <=> s < edition.sentPartCount
    /\ edition.status = "published" => edition.sentPartCount > LastPart /\ edition.thread # None
    /\ Sent(0) => edition.thread # None
    /\ edition.thread # None => ThreadExists(edition.thread)
    /\ \A s \in Parts : Sent(s) => InForum(s)

(* Replies are asked for after every earlier part, and exist once. *)
ForumInv ==
    /\ forum.visible \subseteq forum.messages
    /\ \A m \in forum.requests \cup forum.messages :
         /\ m.claim <= delivery[m.part].attempts
         /\ \A q \in Parts : q < m.part => Sent(q)
    /\ \A m, n \in forum.messages : m.part > 0 /\ m.part = n.part => m = n

(* Whether Discord may have been asked for a thread, or refused one. *)
Asked ==
    \/ \E m \in forum.requests \cup forum.messages : m.part = 0
    \/ edition.code = "rate_limited" \/ delivery[0].code = "rate_limited"
    \/ \E w \in Workers : /\ Active(w) /\ attempt[w].part = 0
                          /\ \/ attempt[w].code = "rate_limited"
                             \/ attempt[w].outcome = "rate_limited"

(* The first claim of the starter, before it asks. *)
Early(w) ==
    /\ Active(w) /\ attempt[w].part = 0 /\ attempt[w].claim = 1
    /\ attempt[w].step \in {"heartbeat", "reconcile", "send"}

ThreadInv ==
    /\ Asked => delivery[0].attempts > 0 /\ \A w \in Workers : ~Early(w)
    /\ \A w \in Workers : At(w, "send") /\ attempt[w].part = 0 =>
         attempt[w].claim = 1 \/ attempt[w].code = "rate_limited"

-----------------------------------------------------------------------------
(* Types *)

LEMMA PartsAreNaturals == 0 \in Parts /\ \A s \in Parts : s \in Nat
BY PublicationAssumption DEF Parts

LEMMA InitTypes == Init => TypeInv
BY PublicationAssumption, PartsAreNaturals
   DEF Init, TypeInv, TypeOK, LeasedIsSending, ClaimsCounted, Claimable, Codes, LeaseStates,
       Messages

(* The lease is never live when a part is claimed. *)
LEMMA ClaimedIsFree ==
    ASSUME TypeInv, NEW w \in Workers, claimPublication(w)
    PROVE  edition.lease # "live"
<1>1. PICK s \in Parts : delivery[s].status = "pending" /\ IsFirstMissing(s)
  BY DEF claimPublication
<1>2. SUFFICES ASSUME edition.lease = "live" PROVE FALSE
  OBVIOUS
<1>3. PICK t \in Parts : delivery[t].status = "sending" /\ \A q \in Parts : q < t => Sent(q)
  BY <1>2 DEF TypeInv, LeasedIsSending
<1>4. ~Sent(s) /\ s <= t
  BY <1>1, <1>3 DEF IsFirstMissing, Unsent, Sent
<1>5. ~(s < t)
  BY <1>3, <1>4
<1>6. s = t
  BY <1>4, <1>5, PartsAreNaturals
<1>. QED
  BY <1>1, <1>3, <1>6

Claims(w, s) ==
    /\ delivery[s].status = "pending" /\ IsFirstMissing(s)
    /\ edition.generation < MaxClaims
    /\ edition' = [edition EXCEPT
           !.status = IF s = 0 THEN "creating_thread" ELSE "publishing_replies",
           !.generation = edition.generation + 1, !.worker = w, !.lease = "live"]
    /\ delivery' = [delivery EXCEPT
           ![s].status = "sending", ![s].attempts = @ + 1, ![s].lease = "live"]
    /\ attempt' = [attempt EXCEPT ![w] =
           [part |-> s, claim |-> delivery[s].attempts + 1,
            generation |-> edition.generation + 1, step |-> "heartbeat",
            thread |-> edition.thread, outcome |-> "none",
            code |-> IF delivery[s].code # "none" THEN delivery[s].code ELSE edition.code]]
    /\ UNCHANGED forum

LEMMA ClaimFields ==
    ASSUME TypeInv, NEW w \in Workers, claimPublication(w)
    PROVE  \E s \in Parts : Claims(w, s)
BY ClaimedIsFree DEF claimPublication, Claims

LEMMA ClaimTypes ==
    ASSUME TypeInv, NEW w \in Workers, claimPublication(w)
    PROVE  TypeInv'
<1>1. PICK s \in Parts : Claims(w, s)
  BY ClaimFields
<1>. USE DEF TypeInv, TypeOK, Claims
<1>2. delivery[s].attempts + 1 \in 1..MaxClaims /\ edition.generation + 1 \in Nat
  BY <1>1, PublicationAssumption DEF ClaimsCounted
<1>3. edition' \in [status : Claimable \cup {"failed", "partial", "published"},
                    code : Codes, thread : 1..MaxClaims \cup {None},
                    sentPartCount : Nat, generation : Nat,
                    worker : Workers \cup {None}, lease : LeaseStates]
  BY <1>1, <1>2 DEF Claimable, LeaseStates
<1>4. delivery' \in [Parts -> [status : {"pending", "sending", "sent", "failed"},
                              attempts : 0..MaxClaims, code : Codes, lease : LeaseStates]]
  BY <1>1, <1>2 DEF LeaseStates
<1>5. attempt' \in [Workers -> Attempts \cup {None}]
  BY <1>1, <1>2 DEF Attempts, Codes
<1>6. LeasedIsSending'
  BY <1>1, PartsAreNaturals DEF LeasedIsSending, Sent, IsFirstMissing, Unsent
<1>7. ClaimsCounted'
  BY <1>1, <1>2 DEF ClaimsCounted
<1>. QED
  BY <1>1, <1>3, <1>4, <1>5, <1>6, <1>7

DeliveryRow == [status : {"pending", "sending", "sent", "failed"},
                attempts : 0..MaxClaims, code : Codes, lease : LeaseStates]

LEMMA RowFields ==
    ASSUME TypeInv, NEW s \in Parts,
           NEW t \in {"pending", "sending", "sent", "failed"}, NEW c \in Codes,
           NEW l \in LeaseStates
    PROVE  [delivery[s] EXCEPT !.status = t, !.code = c, !.lease = l] \in DeliveryRow
BY DEF TypeInv, TypeOK, DeliveryRow

(* Rows that a call of the owner or of the cron rewrites. *)
LEMMA RowsTypes ==
    ASSUME TypeInv, LeaseExpires \/ recoverDelivery \/ retryEdition \/ requestReconciliation
    PROVE  TypeInv'
<1>. USE DEF TypeInv, TypeOK, LeasedIsSending, ClaimsCounted, Sent, Claimable, LeaseStates
<1>1. CASE LeaseExpires
  BY <1>1 DEF LeaseExpires
<1>2. CASE recoverDelivery
  BY <1>2 DEF recoverDelivery, Unclaimed
<1>3. CASE retryEdition
  <2>1. \A s \in Parts : delivery'[s] =
          IF s \in Unsent
          THEN [delivery[s] EXCEPT !.status = "pending", !.code = "none", !.lease = "none"]
          ELSE delivery[s]
    BY <1>3 DEF retryEdition
  <2>2. delivery' \in [Parts -> [status : {"pending", "sending", "sent", "failed"},
                                attempts : 0..MaxClaims, code : Codes, lease : LeaseStates]]
    <3>1. \A s \in Parts : delivery[s] \in DeliveryRow
      BY DEF DeliveryRow
    <3>2. \A s \in Parts : [delivery[s] EXCEPT !.status = "pending", !.code = "none",
                                               !.lease = "none"] \in DeliveryRow
      BY RowFields DEF Codes
    <3>. QED
      BY <3>1, <3>2, <2>1, <1>3 DEF retryEdition, DeliveryRow
  <2>3. edition' \in [status : Claimable \cup {"failed", "partial", "published"},
                      code : Codes, thread : 1..MaxClaims \cup {None},
                      sentPartCount : Nat, generation : Nat,
                      worker : Workers \cup {None}, lease : LeaseStates]
        /\ edition'.lease = edition.lease /\ edition'.generation = edition.generation
        /\ edition.lease # "live"
    BY <1>3 DEF retryEdition, Codes
  <2>4. \A s \in Parts : delivery'[s].attempts = delivery[s].attempts
    BY <2>1
  <2>. QED
    BY <1>3, <2>2, <2>3, <2>4 DEF retryEdition
<1>4. CASE requestReconciliation
  <2>1. delivery' = [delivery EXCEPT ![0] =
           [delivery[0] EXCEPT !.status = "pending", !.code = "reconcile_failed",
                               !.lease = "none"]]
    BY <1>4, PartsAreNaturals DEF requestReconciliation
  <2>2. delivery'[0] \in DeliveryRow /\ delivery'[0].attempts = delivery[0].attempts
    BY <2>1, RowFields, PartsAreNaturals DEF Codes
  <2>. QED
    BY <1>4, <2>1, <2>2, PartsAreNaturals
       DEF requestReconciliation, Unclaimed, Codes, DeliveryRow
<1>. QED
  BY <1>1, <1>2, <1>3, <1>4

(* What may become of an attempt that gets an answer. *)
Moves(w) ==
    \/ heartbeat(w) \/ reconcileStarter(w) \/ reconcileStarterWithBackoff(w)
    \/ reconcileReply(w) \/ send(w) \/ sendSucceeds(w) \/ sendRefused(w) \/ sendUncertain(w)
    \/ verifyStarter(w) \/ recheckReply(w) \/ abandon(w)

(* An attempt with the named fields changed. *)
LEMMA AttemptFields ==
    ASSUME TypeInv, NEW w \in Workers, Active(w)
    PROVE  /\ attempt[w] \in Attempts
           /\ \A b \in Attempts \cup {None} :
                [attempt EXCEPT ![w] = b] \in [Workers -> Attempts \cup {None}]
           /\ \A s \in {"reconcile", "backoff", "send", "answer", "verify", "recheck",
                        "acknowledge", "adopt"},
                 c \in Codes \cup {"sent"}, t \in 1..MaxClaims \cup {None} :
                [attempt[w] EXCEPT !.step = s, !.outcome = c, !.thread = t] \in Attempts
<1>1. attempt[w] \in Attempts /\ attempt \in [Workers -> Attempts \cup {None}]
  BY DEF TypeInv, TypeOK, Active
<1>2. ASSUME NEW s \in {"reconcile", "backoff", "send", "answer", "verify", "recheck",
                        "acknowledge", "adopt"},
             NEW c \in Codes \cup {"sent"}, NEW t \in 1..MaxClaims \cup {None}
      PROVE  [attempt[w] EXCEPT !.step = s, !.outcome = c, !.thread = t] \in Attempts
  BY <1>1 DEF Attempts
<1>. QED
  BY <1>1, <1>2

(* What becomes of the fields of an attempt, and of the forum. *)
LEMMA MovesFields ==
    ASSUME TypeInv, NEW w \in Workers, Moves(w)
    PROVE  /\ Active(w)
           /\ UNCHANGED <<edition, delivery>>
           /\ \/ attempt' = [attempt EXCEPT ![w] = None]
              \/ \E s \in {"reconcile", "backoff", "send", "answer", "verify", "recheck",
                           "acknowledge", "adopt"},
                    c \in Codes \cup {"sent"}, t \in 1..MaxClaims \cup {None} :
                  attempt' = [attempt EXCEPT ![w] =
                     [attempt[w] EXCEPT !.step = s, !.outcome = c, !.thread = t]]
<1>1. Active(w) /\ UNCHANGED <<edition, delivery>>
  BY DEF Active, At, Moves, heartbeat, reconcileStarter, reconcileStarterWithBackoff,
         reconcileReply, send, sendSucceeds, sendRefused, sendUncertain, verifyStarter,
         recheckReply, abandon
<1>. DEFINE Steps == {"reconcile", "backoff", "send", "answer", "verify", "recheck",
                      "acknowledge", "adopt"}
            Outcomes == Codes \cup {"sent"}
            Thrs == 1..MaxClaims \cup {None}
            With(s, c, t) == [attempt EXCEPT ![w] =
                     [attempt[w] EXCEPT !.step = s, !.outcome = c, !.thread = t]]
            Goal == \/ attempt' = [attempt EXCEPT ![w] = None]
                    \/ \E s \in Steps, c \in Outcomes, t \in Thrs : attempt' = With(s, c, t)
<1>2. attempt[w] \in Attempts /\ attempt \in [Workers -> Attempts \cup {None}]
  BY <1>1 DEF TypeInv, TypeOK, Active
<1>3. attempt[w].outcome \in Outcomes /\ attempt[w].thread \in Thrs
  BY <1>2 DEF Attempts
<1>4. ASSUME NEW s \in Steps, Goes(w, s) PROVE Goal
  <2>1. attempt' = With(s, attempt[w].outcome, attempt[w].thread)
    BY <1>2, <1>4 DEF Goes, Attempts
  <2>. QED
    BY <2>1, <1>3
<1>5. ASSUME NEW c \in Outcomes, Reports(w, c) PROVE Goal
  <2>1. attempt' = With("acknowledge", c, attempt[w].thread)
    BY <1>2, <1>5 DEF Reports, Attempts
  <2>. QED
    BY <2>1, <1>3
<1>6. ASSUME NEW m \in Messages, Found(w, m) PROVE Goal
  <2>1. attempt' = With("acknowledge", "sent", IF m.part = 0 THEN m.claim ELSE attempt[w].thread)
    BY <1>2, <1>6 DEF Found, Attempts
  <2>2. m.claim \in Thrs
    BY DEF Messages
  <2>. QED
    BY <2>1, <2>2, <1>3
<1>7. ASSUME NEW found \in SUBSET Messages, Adopts(w, found) PROVE Goal
  <2>1. PICK m \in found :
          attempt' = [attempt EXCEPT ![w].step = "adopt", ![w].thread = m.claim,
            ![w].outcome = IF Cardinality(found) > 1 THEN "reconcile_ambiguous" ELSE "sent"]
    BY <1>7 DEF Adopts, Earliest
  <2>. DEFINE c == IF Cardinality(found) > 1 THEN "reconcile_ambiguous" ELSE "sent"
  <2>2. m.claim \in Thrs /\ c \in Outcomes
    BY DEF Messages, Codes
  <2>. HIDE DEF c
  <2>3. attempt' = With("adopt", c, m.claim)
    BY <1>2, <2>1 DEF Attempts, c
  <2>. QED
    BY <2>2, <2>3
<1>8. forum.visible \in SUBSET Messages
  BY DEF TypeInv, TypeOK
<1>9. Goal
  <2>. HIDE DEF Goal, With
  <2>. USE DEF Codes
  <2>1. CASE heartbeat(w)
    BY <2>1, <1>4, <1>5 DEF heartbeat, Goal
  <2>2. CASE reconcileStarter(w)
    BY <2>2, <1>4, <1>7, <1>8 DEF reconcileStarter, Listed
  <2>3. CASE reconcileStarterWithBackoff(w)
    BY <2>3, <1>5, <1>7, <1>8 DEF reconcileStarterWithBackoff, Listed
  <2>4. CASE reconcileReply(w)
    BY <2>4, <1>4, <1>5, <1>6, <1>8 DEF reconcileReply, Listed
  <2>5. CASE send(w)
    BY <2>5, <1>4 DEF send
  <2>6. CASE sendSucceeds(w)
    <3>1. CASE attempt[w].part # 0
      BY <3>1, <2>6, <1>5 DEF sendSucceeds
    <3>2. CASE attempt[w].part = 0
      <4>1. attempt' = With("verify", attempt[w].outcome, attempt[w].claim)
        BY <3>2, <2>6, <1>2 DEF sendSucceeds, Attempts, With
      <4>2. attempt[w].claim \in Thrs
        BY <1>2 DEF Attempts
      <4>. QED
        BY <4>1, <4>2, <1>3 DEF Goal
    <3>. QED
      BY <3>1, <3>2
  <2>7. CASE sendRefused(w)
    <3>1. PICK code \in {"rate_limited", "permission_failed"} :
            attempt' = [attempt EXCEPT ![w].outcome = code,
              ![w].step = IF attempt[w].part = 0 THEN "acknowledge" ELSE "recheck"]
      BY <2>7 DEF sendRefused
    <3>2. attempt' = With(IF attempt[w].part = 0 THEN "acknowledge" ELSE "recheck",
                          code, attempt[w].thread)
      BY <3>1, <1>2 DEF Attempts, With
    <3>. QED
      BY <3>2, <1>3 DEF Goal
  <2>8. CASE sendUncertain(w)
    <3>1. attempt' = IF attempt[w].part = 0
                     THEN With("backoff", attempt[w].outcome, attempt[w].thread)
                     ELSE With("recheck", "reply_failed", attempt[w].thread)
      BY <2>8, <1>2 DEF sendUncertain, Attempts, With
    <3>. QED
      BY <3>1, <1>3 DEF Goal
  <2>9. CASE verifyStarter(w)
    BY <2>9, <1>4, <1>5 DEF verifyStarter, Goal
  <2>10. CASE recheckReply(w)
    BY <2>10, <1>3, <1>5, <1>6, <1>8 DEF recheckReply, Listed
  <2>11. CASE abandon(w)
    BY <2>11 DEF abandon, Goal
  <2>. QED
    BY <2>1, <2>2, <2>3, <2>4, <2>5, <2>6, <2>7, <2>8, <2>9, <2>10, <2>11 DEF Moves
<1>. QED
  BY <1>1, <1>9

LEMMA MovesTypes ==
    ASSUME TypeInv, NEW w \in Workers, Moves(w)
    PROVE  TypeInv'
<1>1. UNCHANGED <<edition, delivery>> /\ Active(w)
  BY MovesFields
<1>2. LeasedIsSending' /\ ClaimsCounted'
  BY <1>1 DEF TypeInv, LeasedIsSending, ClaimsCounted, Sent
<1>3. attempt' \in [Workers -> Attempts \cup {None}]
  <2>1. ASSUME NEW s \in {"reconcile", "backoff", "send", "answer", "verify", "recheck",
                          "acknowledge", "adopt"},
               NEW c \in Codes \cup {"sent"}, NEW t \in 1..MaxClaims \cup {None},
               attempt' = [attempt EXCEPT ![w] =
                     [attempt[w] EXCEPT !.step = s, !.outcome = c, !.thread = t]]
        PROVE  attempt' \in [Workers -> Attempts \cup {None}]
    BY <2>1, <1>1, AttemptFields
  <2>2. CASE attempt' = [attempt EXCEPT ![w] = None]
    BY <2>2, <1>1, AttemptFields
  <2>3. \/ attempt' = [attempt EXCEPT ![w] = None]
        \/ \E s \in {"reconcile", "backoff", "send", "answer", "verify", "recheck",
                     "acknowledge", "adopt"},
              c \in Codes \cup {"sent"}, t \in 1..MaxClaims \cup {None} :
             attempt' = [attempt EXCEPT ![w] =
                     [attempt[w] EXCEPT !.step = s, !.outcome = c, !.thread = t]]
    BY MovesFields, Zenon
  <2>. QED
    BY <2>1, <2>2, <2>3, Zenon
<1>4. Request(attempt[w]) \in Messages
  <2>1. attempt[w] \in Attempts
    BY <1>1, AttemptFields
  <2>. QED
    BY <2>1 DEF Request, Messages, Attempts
<1>5. forum' \in [requests : SUBSET Messages, messages : SUBSET Messages,
                  visible : SUBSET Messages]
  BY <1>4 DEF TypeInv, TypeOK, Moves, heartbeat, reconcileStarter, reconcileStarterWithBackoff,
         reconcileReply, send, sendSucceeds, sendRefused, sendUncertain, verifyStarter,
         recheckReply, abandon
<1>. QED
  BY <1>1, <1>2, <1>3, <1>5 DEF TypeInv, TypeOK

(* The rows after an attempt that holds the edition has ended. *)
LEMMA TerminalizedRows ==
    ASSUME NEW rows \in [Parts -> DeliveryRow], NEW c \in Codes
    PROVE  /\ Terminalized(rows, c) \in [Parts -> DeliveryRow]
           /\ \A s \in Parts : /\ Terminalized(rows, c)[s].attempts = rows[s].attempts
                               /\ Terminalized(rows, c)[s].status
                                    = IF rows[s].status = "sent" THEN "sent" ELSE "failed"
                               /\ Terminalized(rows, c)[s].code
                                    = IF rows[s].status = "sent" THEN rows[s].code ELSE c
<1>1. \A s \in Parts : [rows[s] EXCEPT !.status = "failed", !.code = c, !.lease = "none"]
                         \in DeliveryRow
  BY DEF DeliveryRow, LeaseStates
<1>. QED
  BY <1>1 DEF Terminalized, DeliveryRow

EditionRow == [status : Claimable \cup {"failed", "partial", "published"},
               code : Codes, thread : 1..MaxClaims \cup {None},
               sentPartCount : Nat, generation : Nat,
               worker : Workers \cup {None}, lease : LeaseStates]

(* What the end of an attempt does to the rows. *)
LEMMA EndingTypes ==
    ASSUME TypeInv, NEW w \in Workers, acknowledgePublication(w) \/ adopt(w)
    PROVE  TypeInv'
<1>1. Active(w) /\ attempt[w] \in Attempts
  BY AttemptFields DEF Active, At, acknowledgePublication, adopt
<1>2. attempt' \in [Workers -> Attempts \cup {None}] /\ UNCHANGED forum
  BY DEF TypeInv, TypeOK, acknowledgePublication, adopt
<1>3. attempt[w].part \in Parts /\ attempt[w].outcome \in Codes \cup {"sent"}
      /\ attempt[w].thread \in 1..MaxClaims \cup {None}
  BY <1>1 DEF Attempts
<1>4. edition \in EditionRow /\ delivery \in [Parts -> DeliveryRow]
  BY DEF TypeInv, TypeOK, EditionRow, DeliveryRow
<1>5. CASE UNCHANGED <<edition, delivery>>
  BY <1>2, <1>5 DEF TypeInv, TypeOK, LeasedIsSending, ClaimsCounted, Sent
<1>6. SUFFICES ASSUME edition' \in EditionRow, delivery' \in [Parts -> DeliveryRow],
                      edition'.lease = "none", edition'.generation = edition.generation,
                      \A s \in Parts : delivery'[s].attempts = delivery[s].attempts
               PROVE  TypeInv'
  <2>1. CASE acknowledgeSent(attempt[w])
    <3>. DEFINE s == attempt[w].part
    <3>1. delivery' = [delivery EXCEPT ![s] =
             [delivery[s] EXCEPT !.status = "sent", !.code = "none", !.lease = "none"]]
      BY <2>1, <1>3, <1>4 DEF acknowledgeSent
    <3>2. [delivery[s] EXCEPT !.status = "sent", !.code = "none", !.lease = "none"]
             \in DeliveryRow
      BY <1>3, RowFields DEF Codes, LeaseStates
    <3>3. [delivery[s] EXCEPT !.status = "sent", !.code = "none", !.lease = "none"].attempts
             = delivery[s].attempts
      BY <1>3, <1>4 DEF DeliveryRow
    <3>4. delivery' \in [Parts -> DeliveryRow]
          /\ \A q \in Parts : delivery'[q].attempts = delivery[q].attempts
      <4>. HIDE DEF s
      <4>1. s \in Parts
        BY <1>3 DEF s
      <4>. QED
        BY <3>1, <3>2, <3>3, <4>1, <1>4
    <3>5. edition' \in EditionRow /\ edition'.lease = "none"
          /\ edition'.generation = edition.generation
      <4>. DEFINE count == edition.sentPartCount + 1
                  status == IF count > LastPart THEN "published" ELSE "publishing_replies"
                  thread == IF s = 0 THEN attempt[w].thread ELSE edition.thread
      <4>1. edition' = [edition EXCEPT !.worker = None, !.lease = "none", !.thread = thread,
                          !.status = status, !.sentPartCount = count, !.code = "none"]
        BY <2>1, <1>4 DEF acknowledgeSent, Unclaimed, EditionRow
      <4>2. count \in Nat /\ thread \in 1..MaxClaims \cup {None}
            /\ status \in Claimable \cup {"failed", "partial", "published"}
        BY <1>3, <1>4 DEF EditionRow, Claimable
      <4>. HIDE DEF count, status, thread, s
      <4>. QED
        BY <4>1, <4>2, <1>4 DEF EditionRow, Codes, LeaseStates
    <3>. QED
      BY <3>4, <3>5, <1>6
  <2>2. CASE acknowledgeFailed(attempt[w]) /\ attempt[w].outcome # "sent"
    <3>. DEFINE a == attempt[w]
                retry == a.outcome \in Retryable /\ delivery[a.part].attempts < RetryAttempts
                failed == [delivery EXCEPT
                     ![a.part].status = IF retry THEN "pending" ELSE "failed",
                     ![a.part].code = a.outcome, ![a.part].lease = "none"]
    <3>1. a.outcome \in Codes
      BY <2>2, <1>3
    <3>2. failed \in [Parts -> DeliveryRow]
          /\ \A s \in Parts : failed[s].attempts = delivery[s].attempts
      <4>. DEFINE t == IF retry THEN "pending" ELSE "failed"
                  r == [delivery[a.part] EXCEPT !.status = t, !.code = a.outcome,
                                                !.lease = "none"]
      <4>1. t \in {"pending", "sending", "sent", "failed"} /\ "none" \in LeaseStates
        BY DEF LeaseStates
      <4>2. failed = [delivery EXCEPT ![a.part] = r]
        BY <1>3, <1>4
      <4>3. r.attempts = delivery[a.part].attempts
        BY <1>3, <1>4 DEF DeliveryRow
      <4>. HIDE DEF t
      <4>4. r \in DeliveryRow
        BY <3>1, <4>1, <1>3, RowFields
      <4>. HIDE DEF r, failed
      <4>. QED
        BY <4>2, <4>3, <4>4, <1>3, <1>4
    <3>3. delivery' \in [Parts -> DeliveryRow]
          /\ \A s \in Parts : delivery'[s].attempts = delivery[s].attempts
      <4>1. delivery' = IF retry THEN failed ELSE Terminalized(failed, a.outcome)
        BY <2>2 DEF acknowledgeFailed
      <4>. HIDE DEF retry, failed
      <4>. QED
        BY <4>1, <3>1, <3>2, TerminalizedRows
    <3>4. edition' \in EditionRow /\ edition'.lease = "none"
          /\ edition'.generation = edition.generation
      BY <2>2, <3>1, <1>4
         DEF acknowledgeFailed, Unclaimed, EditionRow, LeaseStates, Claimable
    <3>. QED
      BY <3>3, <3>4, <1>6
  <2>3. CASE adoptReconciledStarter(attempt[w].thread, attempt[w].outcome = "reconcile_ambiguous")
    <3>1. "reconcile_ambiguous" \in Codes
      BY DEF Codes
    <3>2. delivery' \in [Parts -> DeliveryRow]
          /\ \A s \in Parts : delivery'[s].attempts = delivery[s].attempts
      <4>1. [delivery EXCEPT ![0].status = "sent", ![0].lease = "none"]
              \in [Parts -> DeliveryRow]
        BY <1>4, PartsAreNaturals DEF DeliveryRow, LeaseStates
      <4>. QED
        BY <2>3, <3>1, <4>1, <1>4, TerminalizedRows, PartsAreNaturals
           DEF adoptReconciledStarter, DeliveryRow
    <3>3. edition' \in EditionRow /\ edition'.lease = "none"
          /\ edition'.generation = edition.generation
      BY <2>3, <3>1, <1>3, <1>4
         DEF adoptReconciledStarter, Unclaimed, EditionRow, LeaseStates, Claimable
    <3>. QED
      BY <3>2, <3>3, <1>6
  <2>. QED
    BY <2>1, <2>2, <2>3, <1>5 DEF acknowledgePublication, adopt
<1>. QED
  BY <1>2, <1>6 DEF TypeInv, TypeOK, EditionRow, DeliveryRow, LeasedIsSending, ClaimsCounted

LEMMA ForumFields ==
    ASSUME TypeInv, NEW m \in Messages, Arrives(m) \/ Appears(m)
    PROVE  /\ UNCHANGED <<edition, delivery, attempt>>
           /\ forum' = [requests |-> forum'.requests, messages |-> forum'.messages,
                        visible |-> forum'.visible]
           /\ \/ /\ m \in forum.requests /\ forum'.requests = forum.requests \ {m}
                 /\ forum'.visible = forum.visible
                 /\ forum'.messages = IF m.part > 0 /\ \E n \in forum.messages : n.part = m.part
                                      THEN forum.messages ELSE forum.messages \cup {m}
              \/ /\ m \in forum.messages /\ forum'.visible = forum.visible \cup {m}
                 /\ forum'.requests = forum.requests /\ forum'.messages = forum.messages
<1>1. CASE Arrives(m)
  BY <1>1 DEF Arrives, TypeInv, TypeOK
<1>2. CASE Appears(m)
  BY <1>2 DEF Appears, TypeInv, TypeOK
<1>. QED
  BY <1>1, <1>2

LEMMA ForumTypes ==
    ASSUME TypeInv, NEW m \in Messages, Arrives(m) \/ Appears(m)
    PROVE  TypeInv'
<1>1. UNCHANGED <<edition, delivery, attempt>>
  BY DEF Arrives, Appears
<1>2. forum' \in [requests : SUBSET Messages, messages : SUBSET Messages,
                  visible : SUBSET Messages]
  <2>1. /\ forum.requests \subseteq Messages /\ forum.messages \subseteq Messages
        /\ forum.visible \subseteq Messages
    BY DEF TypeInv, TypeOK
  <2>2. /\ forum'.requests \subseteq Messages /\ forum'.messages \subseteq Messages
        /\ forum'.visible \subseteq Messages
    BY <2>1, ForumFields
  <2>3. forum' = [requests |-> forum'.requests, messages |-> forum'.messages,
                  visible |-> forum'.visible]
    BY ForumFields
  <2>. QED
    BY <2>2, <2>3
<1>. QED
  BY <1>1, <1>2 DEF TypeInv, TypeOK, LeasedIsSending, ClaimsCounted, Sent

(* The kinds of steps. *)
LEMMA StepKinds ==
    ASSUME Next
    PROVE  \/ \E w \in Workers : \/ claimPublication(w) \/ Moves(w)
                                 \/ acknowledgePublication(w) \/ adopt(w)
           \/ LeaseExpires \/ recoverDelivery \/ retryEdition \/ requestReconciliation
           \/ \E m \in Messages : Arrives(m) \/ Appears(m)
BY DEF Next, Publishes, Moves

LEMMA NextTypes == TypeInv /\ [Next]_publicationVars => TypeInv'
<1>. SUFFICES ASSUME TypeInv, [Next]_publicationVars PROVE TypeInv'
  OBVIOUS
<1>1. CASE UNCHANGED publicationVars
  BY <1>1 DEF publicationVars, TypeInv, TypeOK, LeasedIsSending, ClaimsCounted, Sent
<1>2. CASE Next
  BY <1>2, StepKinds, ClaimTypes, MovesTypes, EndingTypes, RowsTypes, ForumTypes
<1>. QED
  BY <1>1, <1>2

-----------------------------------------------------------------------------
(* Attempts, rows and forum *)

CoreInv == TypeInv /\ AttemptInv /\ RowsInv /\ ForumInv

LEMMA InitCore == Init => CoreInv /\ ThreadInv
<1>. SUFFICES ASSUME Init PROVE CoreInv /\ ThreadInv
  OBVIOUS
<1>1. TypeInv
  BY InitTypes
<1>2. /\ \A s \in Parts : delivery[s].status = "pending" /\ delivery[s].code = "none"
      /\ \A w \in Workers : attempt[w] = None
      /\ edition.code = "none" /\ edition.thread = None /\ edition.sentPartCount = 0
      /\ edition.status = "ready_to_publish"
      /\ forum.requests = {} /\ forum.messages = {} /\ forum.visible = {}
  BY DEF Init
<1>3. AttemptInv /\ RowsInv
  BY <1>2, PartsAreNaturals DEF AttemptInv, Fenced, Honest, Active, RowsInv, Sent
<1>4. ForumInv /\ ThreadInv
  BY <1>2, PartsAreNaturals DEF ForumInv, ThreadInv, Asked, Active, At
<1>. QED
  BY <1>1, <1>3, <1>4 DEF CoreInv

(* What steps of the owner, of the cron and of time keep of the rows. *)
RowsKept ==
    /\ UNCHANGED <<attempt, forum>>
    /\ edition'.generation = edition.generation /\ edition'.thread = edition.thread
    /\ edition'.sentPartCount = edition.sentPartCount
    /\ edition'.lease = "live" => edition.lease = "live" /\ edition'.worker = edition.worker
    /\ edition'.status = "published" => edition.status = "published"
    /\ edition'.code = "rate_limited" => edition.code = "rate_limited"
    /\ delivery'[0].code = "rate_limited" => delivery[0].code = "rate_limited"
    /\ \A s \in Parts : /\ delivery'[s].attempts = delivery[s].attempts
                        /\ Sent(s)' <=> Sent(s)
    /\ Duplicated => Duplicated'

LEMMA RowSteps ==
    ASSUME TypeInv, RowsInv,
           LeaseExpires \/ recoverDelivery \/ retryEdition \/ requestReconciliation
    PROVE  RowsKept
<1>. USE DEF Sent, RowsKept
<1>0. edition \in EditionRow /\ delivery \in [Parts -> DeliveryRow] /\ 0 \in Parts
  BY PartsAreNaturals DEF TypeInv, TypeOK, EditionRow, DeliveryRow
<1>1. CASE LeaseExpires
  BY <1>1, <1>0 DEF LeaseExpires, Duplicated, EditionRow, DeliveryRow
<1>2. CASE recoverDelivery
  <2>1. PICK s \in Parts :
      /\ delivery[s].status = "sending"
      /\ delivery' = [delivery EXCEPT ![s].status = "pending", ![s].lease = "none"]
    BY <1>2 DEF recoverDelivery
  <2>2. ~Duplicated
    BY <2>1 DEF Duplicated
  <2>. QED
    BY <1>2, <1>0, <2>1, <2>2 DEF recoverDelivery, Unclaimed, EditionRow, DeliveryRow
<1>3. CASE retryEdition
  <2>1. \A s \in Parts : delivery'[s] =
          IF s \in Unsent
          THEN [delivery[s] EXCEPT !.status = "pending", !.code = "none", !.lease = "none"]
          ELSE delivery[s]
    BY <1>3 DEF retryEdition
  <2>2. \A s \in Parts : /\ delivery'[s].attempts = delivery[s].attempts
                         /\ Sent(s)' <=> Sent(s)
                         /\ delivery'[s].code = "rate_limited" => delivery[s].code = "rate_limited"
    BY <2>1, <1>0 DEF Unsent, DeliveryRow
  <2>3. ~Duplicated
    BY <1>3 DEF retryEdition, Duplicated
  <2>. QED
    BY <1>3, <1>0, <2>2, <2>3 DEF retryEdition, EditionRow
<1>4. CASE requestReconciliation
  <2>1. ~Duplicated /\ ~Sent(0)
    BY <1>4 DEF requestReconciliation, Duplicated, RowsInv
  <2>. QED
    BY <1>4, <1>0, <2>1 DEF requestReconciliation, Unclaimed, EditionRow, DeliveryRow
<1>. QED
  BY <1>1, <1>2, <1>3, <1>4

LEMMA RowStepsKeep ==
    ASSUME CoreInv, RowsKept
    PROVE  AttemptInv' /\ RowsInv' /\ ForumInv' /\ (ThreadInv => ThreadInv')
<1>. USE DEF CoreInv, RowsKept
<1>0. /\ \A w \in Workers : Active(w) => attempt[w].part \in Parts
      /\ \A m \in forum.requests \cup forum.messages : m.part \in Parts
  BY DEF TypeInv, TypeOK, Active, Attempts, Messages
<1>1. AttemptInv'
  BY <1>0 DEF AttemptInv, Fenced, Honest, Active, HoldsEdition, ThreadExists, InForum
<1>2. RowsInv'
  BY PartsAreNaturals DEF RowsInv, ThreadExists, InForum
<1>3. ForumInv'
  BY <1>0 DEF ForumInv
<1>4. ThreadInv => ThreadInv'
  BY PartsAreNaturals DEF ThreadInv, Asked, Active, Early, At
<1>. QED
  BY <1>1, <1>2, <1>3, <1>4

LEMMA AttemptsAreNaturals ==
    ASSUME TypeInv
    PROVE  \A q \in Parts : delivery[q].attempts \in Nat
BY DEF TypeInv, TypeOK

LEMMA ClaimKeeps ==
    ASSUME CoreInv, NEW w \in Workers, claimPublication(w)
    PROVE  AttemptInv' /\ RowsInv' /\ ForumInv' /\ (ThreadInv => ThreadInv')
<1>. USE DEF CoreInv
<1>1. PICK s \in Parts : Claims(w, s)
  BY ClaimFields
<1>2. /\ edition \in EditionRow /\ delivery \in [Parts -> DeliveryRow] /\ 0 \in Parts
      /\ attempt \in [Workers -> Attempts \cup {None}] /\ s \in Nat
      /\ \A m \in forum.requests \cup forum.messages : m \in Messages
  BY PartsAreNaturals DEF TypeInv, TypeOK, EditionRow, DeliveryRow
<1>3. /\ \A q \in Parts : delivery'[q].attempts =
            IF q = s THEN delivery[q].attempts + 1 ELSE delivery[q].attempts
      /\ \A q \in Parts : delivery'[q].code = delivery[q].code
      /\ \A q \in Parts : Sent(q)' <=> Sent(q)
      /\ ~Sent(s) /\ \A q \in Parts : q < s => Sent(q)
  BY <1>1, <1>2, PartsAreNaturals DEF Claims, Sent, DeliveryRow, IsFirstMissing, Unsent
<1>4. /\ edition'.generation = edition.generation + 1 /\ edition'.worker = w
      /\ edition'.thread = edition.thread /\ edition'.code = edition.code
      /\ edition'.sentPartCount = edition.sentPartCount
      /\ edition'.status # "published" /\ edition.generation \in Nat
      /\ ~Duplicated /\ UNCHANGED forum
  BY <1>1, <1>2 DEF Claims, EditionRow, Duplicated
<1>5. /\ \A v \in Workers : v # w => attempt'[v] = attempt[v]
      /\ attempt'[w].part = s /\ attempt'[w].claim = delivery[s].attempts + 1
      /\ attempt'[w].generation = edition.generation + 1 /\ attempt'[w].step = "heartbeat"
      /\ attempt'[w].thread = edition.thread /\ attempt'[w].outcome = "none"
      /\ attempt'[w].code \in {delivery[s].code, edition.code}
  BY <1>1, <1>2 DEF Claims
<1>6. \A v \in Workers : Active(v) =>
        attempt[v].part \in Parts /\ attempt[v].claim \in Nat /\ attempt[v].generation \in Nat
  BY <1>2 DEF Active, Attempts
<1>7. AttemptInv'
  <2>1. ASSUME NEW v \in Workers PROVE Fenced(v)'
    <3>1. \A u \in Workers : Fenced(u)
      BY DEF AttemptInv
    <3>2. CASE v = w
      <4>1. \A u \in Workers : u # w /\ Active(u)' /\ attempt'[u].part = s
              => attempt'[u].claim # attempt'[w].claim
        BY <3>1, <1>2, <1>3, <1>5, <1>6 DEF Fenced, Active, DeliveryRow
      <4>. QED
        BY <3>2, <4>1, <1>2, <1>3, <1>4, <1>5 DEF Fenced, HoldsEdition, DeliveryRow
    <3>3. CASE v # w /\ Active(v)
      <4>1. attempt'[v] = attempt[v] /\ Active(v) /\ Fenced(v) /\ attempt[v].part \in Parts
            /\ attempt[v].generation \in Nat /\ attempt[v].claim \in Nat
        BY <3>1, <3>3, <1>5, <1>6
      <4>2. attempt[v].generation < edition'.generation
            /\ attempt[v].claim <= delivery'[attempt[v].part].attempts
        <5>1. delivery[attempt[v].part].attempts \in Nat
          BY <4>1, AttemptsAreNaturals
        <5>2. delivery'[attempt[v].part].attempts >= delivery[attempt[v].part].attempts
          BY <4>1, <5>1, <1>3
        <5>. QED
          BY <4>1, <5>1, <5>2, <1>3, <1>4 DEF Fenced
      <4>3. \A u \in Workers : /\ u # v /\ Active(u)' /\ attempt'[u].part = attempt[v].part
                               => attempt'[u].claim # attempt[v].claim
        BY <4>1, <1>2, <1>3, <1>5 DEF Fenced, Active, DeliveryRow
      <4>. QED
        BY <4>1, <4>2, <4>3, <1>3, <1>4 DEF Fenced, HoldsEdition
    <3>. QED
      BY <3>2, <3>3, <1>5 DEF Fenced, Active
  <2>2. ASSUME NEW v \in Workers PROVE Honest(v)'
    BY <1>4, <1>5 DEF AttemptInv, Honest, Active, ThreadExists, InForum, RowsInv
  <2>. QED
    BY <2>1, <2>2 DEF AttemptInv
<1>8. RowsInv'
  BY <1>2, <1>3, <1>4 DEF RowsInv, ThreadExists, InForum
<1>9. ForumInv'
  <2>1. \A m \in forum.requests \cup forum.messages :
          m.part \in Parts /\ m.claim \in Nat /\ delivery[m.part].attempts \in Nat
    <3>1. ASSUME NEW m \in Messages PROVE m.part \in Parts /\ m.claim \in Nat
      BY DEF Messages
    <3>. QED
      BY <3>1, <1>2, AttemptsAreNaturals
  <2>. QED
    BY <2>1, <1>3, <1>4 DEF ForumInv
<1>10. ThreadInv => ThreadInv'
  <2>. SUFFICES ASSUME ThreadInv PROVE ThreadInv'
    OBVIOUS
  <2>1. Asked' => Asked
    BY <1>2, <1>3, <1>4, <1>5 DEF Asked, Active
  <2>2. Asked' => delivery'[0].attempts > 0 /\ \A v \in Workers : ~Early(v)'
    BY <2>1, <1>2, <1>3, <1>5 DEF ThreadInv, Early, Active, DeliveryRow
  <2>. QED
    BY <2>2, <1>5 DEF ThreadInv, At
<1>. QED
  BY <1>7, <1>8, <1>9, <1>10

LEMMA ForumKeeps ==
    ASSUME CoreInv, NEW m \in Messages, Arrives(m) \/ Appears(m)
    PROVE  AttemptInv' /\ RowsInv' /\ ForumInv' /\ (ThreadInv => ThreadInv')
<1>. USE DEF CoreInv
<1>1. /\ UNCHANGED <<edition, delivery, attempt>>
      /\ forum.messages \subseteq forum'.messages
      /\ forum'.visible \subseteq forum'.messages
      /\ forum'.requests \cup forum'.messages \subseteq forum.requests \cup forum.messages
  BY ForumFields DEF ForumInv
<1>2. \A v \in Workers : (Active(v)' <=> Active(v)) /\ (Early(v)' <=> Early(v))
  BY <1>1 DEF Active, Early
<1>3. AttemptInv'
  BY <1>1 DEF AttemptInv, Fenced, Honest, Active, Sent, HoldsEdition, ThreadExists, InForum
<1>4. RowsInv'
  BY <1>1 DEF RowsInv, Duplicated, Sent, ThreadExists, InForum
<1>5. ForumInv'
  <2>1. \A k, n \in forum'.messages : k.part > 0 /\ k.part = n.part => k = n
    BY ForumFields DEF ForumInv
  <2>. QED
    BY <1>1, <2>1 DEF ForumInv, Sent
<1>6. ThreadInv => ThreadInv'
  BY <1>1, <1>2 DEF ThreadInv, Asked, Active, At
<1>. QED
  BY <1>3, <1>4, <1>5, <1>6

(* What a move keeps of the attempts and of the forum. *)
LEMMA MovesKeepFields ==
    ASSUME TypeInv, NEW w \in Workers, Moves(w)
    PROVE  /\ \A v \in Workers : v # w => attempt'[v] = attempt[v]
           /\ Active(w)' => /\ attempt'[w].part = attempt[w].part
                            /\ attempt'[w].claim = attempt[w].claim
                            /\ attempt'[w].generation = attempt[w].generation
                            /\ attempt'[w].code = attempt[w].code
           /\ forum'.messages = forum.messages /\ forum'.visible = forum.visible
           /\ IF send(w) THEN forum'.requests = forum.requests \cup {Request(attempt[w])}
              ELSE forum'.requests \subseteq forum.requests
<1>1. attempt \in [Workers -> Attempts \cup {None}] /\ Active(w) /\ attempt[w] \in Attempts
  BY MovesFields, AttemptFields DEF TypeInv, TypeOK
<1>2. ASSUME NEW s, NEW c, NEW t,
             attempt' = [attempt EXCEPT ![w] =
                  [attempt[w] EXCEPT !.step = s, !.outcome = c, !.thread = t]]
      PROVE  /\ \A v \in Workers : v # w => attempt'[v] = attempt[v]
             /\ attempt'[w].part = attempt[w].part
             /\ attempt'[w].claim = attempt[w].claim
             /\ attempt'[w].generation = attempt[w].generation
             /\ attempt'[w].code = attempt[w].code
  BY <1>1, <1>2 DEF Attempts
<1>3. /\ \A v \in Workers : v # w => attempt'[v] = attempt[v]
      /\ Active(w)' => /\ attempt'[w].part = attempt[w].part
                       /\ attempt'[w].claim = attempt[w].claim
                       /\ attempt'[w].generation = attempt[w].generation
                       /\ attempt'[w].code = attempt[w].code
  <2>1. CASE attempt' = [attempt EXCEPT ![w] = None]
    BY <2>1, <1>1 DEF Active
  <2>2. \/ attempt' = [attempt EXCEPT ![w] = None]
        \/ \E s \in {"reconcile", "backoff", "send", "answer", "verify", "recheck",
                     "acknowledge", "adopt"},
              c \in Codes \cup {"sent"}, t \in 1..MaxClaims \cup {None} :
             attempt' = [attempt EXCEPT ![w] =
                     [attempt[w] EXCEPT !.step = s, !.outcome = c, !.thread = t]]
    BY MovesFields, Zenon
  <2>3. CASE \E s \in {"reconcile", "backoff", "send", "answer", "verify", "recheck",
                        "acknowledge", "adopt"},
                c \in Codes \cup {"sent"}, t \in 1..MaxClaims \cup {None} :
             attempt' = [attempt EXCEPT ![w] =
                     [attempt[w] EXCEPT !.step = s, !.outcome = c, !.thread = t]]
    <3>1. PICK s, c, t :
             attempt' = [attempt EXCEPT ![w] =
                     [attempt[w] EXCEPT !.step = s, !.outcome = c, !.thread = t]]
      BY <2>3, Zenon
    <3>. QED
      BY <3>1, <1>2, Zenon
  <2>. QED
    BY <2>1, <2>2, <2>3, Zenon
<1>4. forum \in [requests : SUBSET Messages, messages : SUBSET Messages,
                 visible : SUBSET Messages]
  BY DEF TypeInv, TypeOK
<1>5. CASE ~send(w)
  <2>1. forum'.messages = forum.messages /\ forum'.visible = forum.visible
        /\ forum'.requests \subseteq forum.requests
    BY <1>4, <1>5
       DEF Moves, heartbeat, reconcileStarter, reconcileStarterWithBackoff, reconcileReply,
           sendSucceeds, sendRefused, sendUncertain, verifyStarter, recheckReply, abandon
  <2>. QED
    BY <2>1, <1>3, <1>5
<1>6. CASE send(w)
  <2>1. forum'.messages = forum.messages /\ forum'.visible = forum.visible
        /\ forum'.requests = forum.requests \cup {Request(attempt[w])}
    BY <1>4, <1>6 DEF send
  <2>. QED
    BY <2>1, <1>3, <1>6
<1>. QED
  BY <1>5, <1>6

(* An attempt that moves stays honest. *)
LEMMA MovesHonest ==
    ASSUME CoreInv, NEW w \in Workers, Moves(w)
    PROVE  Honest(w)'
<1>. USE DEF CoreInv
<1>1. /\ Active(w) /\ attempt[w] \in Attempts
      /\ attempt \in [Workers -> Attempts \cup {None}]
      /\ forum'.messages = forum.messages /\ forum.visible \subseteq forum.messages
      /\ forum.messages \subseteq Messages /\ Honest(w)
  BY MovesFields, AttemptFields, MovesKeepFields DEF ForumInv, AttemptInv, TypeInv, TypeOK
<1>2. /\ \A c : ThreadExists(c)' <=> ThreadExists(c)
      /\ \A s : InForum(s)' <=> InForum(s)
  BY <1>1 DEF ThreadExists, InForum
<1>3. ASSUME NEW s \in {"reconcile", "send", "answer", "backoff"}, Goes(w, s),
             s = "backoff" => attempt[w].part = 0
      PROVE  Honest(w)'
  BY <1>1, <1>2, <1>3 DEF Goes, Honest, Active, Attempts
<1>4. ASSUME NEW c, Reports(w, c),
             c = "sent" => IF attempt[w].part = 0 THEN attempt[w].thread # None
                           ELSE InForum(attempt[w].part)
      PROVE  Honest(w)'
  BY <1>1, <1>2, <1>4 DEF Reports, Honest, Active, Attempts
<1>5. ASSUME NEW m \in forum.messages, m.part = attempt[w].part, Found(w, m),
             attempt[w].part > 0
      PROVE  Honest(w)'
  <2>1. InForum(attempt[w].part)
    BY <1>5 DEF InForum
  <2>2. attempt[w].part # 0
    BY <1>5
  <2>. QED
    BY <1>1, <1>2, <1>5, <2>1, <2>2 DEF Found, Honest, Active, Attempts
<1>6. ASSUME Adopts(w, Listed(0)), attempt[w].part = 0
      PROVE  Honest(w)'
  <2>1. PICK m \in Listed(0) :
          attempt' = [attempt EXCEPT ![w].step = "adopt", ![w].thread = m.claim,
            ![w].outcome = IF Cardinality(Listed(0)) > 1 THEN "reconcile_ambiguous" ELSE "sent"]
    BY <1>6 DEF Adopts, Earliest
  <2>2. m \in forum.messages /\ m.part = 0
    BY <1>1 DEF Listed
  <2>3. ThreadExists(m.claim) /\ m.claim # None
    BY <2>2, <1>1, PublicationAssumption DEF ThreadExists, Messages
  <2>. QED
    BY <1>1, <1>2, <1>6, <2>1, <2>3 DEF Honest, Active, Attempts
<1>7. CASE heartbeat(w)
  <2>1. CASE attempt' = [attempt EXCEPT ![w] = None]
    BY <2>1, <1>1 DEF Honest, Active
  <2>. QED
    BY <1>7, <2>1, <1>3, <1>4 DEF heartbeat
<1>8. CASE reconcileStarter(w)
  BY <1>8, <1>3, <1>6 DEF reconcileStarter
<1>9. CASE reconcileStarterWithBackoff(w)
  BY <1>9, <1>1, <1>4, <1>6 DEF reconcileStarterWithBackoff, Honest, At
<1>10. CASE reconcileReply(w)
  <2>1. \A m \in Listed(attempt[w].part) : m \in forum.messages /\ m.part = attempt[w].part
    BY <1>1 DEF Listed
  <2>. QED
    BY <1>10, <2>1, <1>3, <1>4, <1>5 DEF reconcileReply
<1>11. CASE send(w)
  BY <1>11, <1>3 DEF send
<1>12. CASE sendSucceeds(w)
  <2>1. CASE attempt[w].part = 0
    <3>1. ThreadExists(attempt[w].claim) /\ attempt[w].claim # None
      BY <1>1, <1>12, <2>1, PublicationAssumption
         DEF sendSucceeds, Answered, Request, ThreadExists, Attempts
    <3>2. attempt' = [attempt EXCEPT ![w].step = "verify", ![w].thread = attempt[w].claim]
      BY <1>12, <2>1 DEF sendSucceeds
    <3>. QED
      BY <1>1, <1>2, <2>1, <3>1, <3>2 DEF Honest, Active, Attempts
  <2>2. CASE attempt[w].part # 0
    <3>1. InForum(attempt[w].part)
      BY <1>12, <2>2 DEF sendSucceeds, Answered, Request, InForum
    <3>. QED
      BY <1>12, <2>2, <3>1, <1>4 DEF sendSucceeds
  <2>. QED
    BY <2>1, <2>2
<1>13. CASE sendRefused(w)
  <2>1. PICK code \in {"rate_limited", "permission_failed"} :
          attempt' = [attempt EXCEPT ![w].outcome = code,
            ![w].step = IF attempt[w].part = 0 THEN "acknowledge" ELSE "recheck"]
    BY <1>13 DEF sendRefused
  <2>. QED
    BY <1>1, <1>2, <2>1 DEF Honest, Active, Attempts
<1>14. CASE sendUncertain(w)
  BY <1>1, <1>2, <1>14 DEF sendUncertain, Honest, Active, Attempts
<1>15. CASE verifyStarter(w)
  <2>1. attempt[w].part = 0 /\ attempt[w].thread # None
    BY <1>15, <1>1 DEF verifyStarter, At, Honest
  <2>2. CASE attempt' = [attempt EXCEPT ![w] = None]
    BY <2>2, <1>1 DEF Honest, Active
  <2>. QED
    BY <1>15, <2>1, <2>2, <1>3, <1>4 DEF verifyStarter
<1>16. CASE recheckReply(w)
  <2>1. \A m \in Listed(attempt[w].part) : m \in forum.messages /\ m.part = attempt[w].part
    BY <1>1 DEF Listed
  <2>2. attempt[w].outcome = "sent" => IF attempt[w].part = 0 THEN attempt[w].thread # None
                                       ELSE InForum(attempt[w].part)
    BY <1>1 DEF Honest
  <2>3. attempt[w].part \in Nat /\ attempt[w].part # 0
    BY <1>16, <1>1, PartsAreNaturals DEF recheckReply, At, Honest, Attempts
  <2>. QED
    BY <1>16, <2>1, <2>2, <2>3, <1>4, <1>5 DEF recheckReply
<1>17. CASE abandon(w)
  BY <1>17, <1>1 DEF abandon, Honest, Active
<1>. QED
  BY <1>7, <1>8, <1>9, <1>10, <1>11, <1>12, <1>13, <1>14, <1>15, <1>16, <1>17 DEF Moves

LEMMA MovesKeep ==
    ASSUME CoreInv, NEW w \in Workers, Moves(w)
    PROVE  AttemptInv' /\ RowsInv' /\ ForumInv'
<1>. USE DEF CoreInv
<1>1. /\ Active(w) /\ attempt[w] \in Attempts /\ UNCHANGED <<edition, delivery>>
      /\ attempt \in [Workers -> Attempts \cup {None}]
      /\ forum'.messages = forum.messages /\ forum'.visible = forum.visible
      /\ forum'.requests \subseteq forum.requests \cup {Request(attempt[w])}
      /\ \A v \in Workers : v # w => attempt'[v] = attempt[v]
      /\ Active(w)' => /\ attempt'[w].part = attempt[w].part
                       /\ attempt'[w].claim = attempt[w].claim
                       /\ attempt'[w].generation = attempt[w].generation
  BY MovesFields, AttemptFields, MovesKeepFields DEF TypeInv, TypeOK
<1>2. \A v \in Workers : Active(v)' =>
        /\ Active(v)
        /\ attempt'[v].part = attempt[v].part /\ attempt'[v].claim = attempt[v].claim
        /\ attempt'[v].generation = attempt[v].generation
  BY <1>1 DEF Active
<1>3. ASSUME NEW v \in Workers PROVE Fenced(v)'
  BY <1>1, <1>2 DEF AttemptInv, Fenced, HoldsEdition, Sent
<1>4. ASSUME NEW v \in Workers PROVE Honest(v)'
  <2>1. CASE v = w
    BY <2>1, MovesHonest
  <2>2. CASE v # w
    BY <2>2, <1>1 DEF AttemptInv, Honest, Active, ThreadExists, InForum
  <2>. QED
    BY <2>1, <2>2
<1>5. RowsInv'
  BY <1>1 DEF RowsInv, Duplicated, Sent, ThreadExists, InForum
<1>6. ForumInv'
  <2>1. Request(attempt[w]).claim <= delivery[Request(attempt[w]).part].attempts
        /\ \A q \in Parts : q < Request(attempt[w]).part => Sent(q)
    BY <1>1 DEF AttemptInv, Fenced, Request
  <2>. QED
    BY <1>1, <2>1 DEF ForumInv, Sent
<1>. QED
  BY <1>3, <1>4, <1>5, <1>6 DEF AttemptInv

(* An attempt asks for a thread only in order, and is refused only if it did. *)
Steady(w) ==
    Active(w)' =>
      /\ attempt'[w].step \in {"heartbeat", "reconcile", "send"}
           => attempt[w].step \in {"heartbeat", "reconcile"}
      /\ attempt'[w].step = "send" /\ attempt[w].part = 0
           => attempt[w].claim = 1 \/ attempt[w].code = "rate_limited"
      /\ attempt'[w].outcome = "rate_limited" /\ attempt[w].part = 0 => Asked

LEMMA MovesSteady ==
    ASSUME CoreInv, NEW w \in Workers, Moves(w)
    PROVE  Steady(w)
<1>. USE DEF CoreInv, Steady
<1>1. /\ Active(w) /\ attempt[w] \in Attempts /\ UNCHANGED <<edition, delivery>>
      /\ attempt \in [Workers -> Attempts \cup {None}]
      /\ forum'.messages = forum.messages
      /\ IF send(w) THEN forum'.requests = forum.requests \cup {Request(attempt[w])}
         ELSE forum'.requests \subseteq forum.requests
      /\ \A v \in Workers : v # w => attempt'[v] = attempt[v]
      /\ Active(w)' => /\ attempt'[w].part = attempt[w].part
                       /\ attempt'[w].claim = attempt[w].claim
                       /\ attempt'[w].code = attempt[w].code
  BY MovesFields, AttemptFields, MovesKeepFields DEF TypeInv, TypeOK
<1>2. ASSUME NEW s \in {"reconcile", "send", "answer", "backoff"}, Goes(w, s),
             s \in {"reconcile", "send"} => attempt[w].step \in {"heartbeat", "reconcile"},
             s = "send" /\ attempt[w].part = 0
               => attempt[w].claim = 1 \/ attempt[w].code = "rate_limited"
      PROVE  Steady(w)
  BY <1>1, <1>2 DEF Goes, Active, Attempts, Asked
<1>3. ASSUME NEW c, Reports(w, c), c = "rate_limited" /\ attempt[w].part = 0 => Asked
      PROVE  Steady(w)
  BY <1>1, <1>3 DEF Reports, Attempts
<1>4. ASSUME NEW m, Found(w, m) PROVE Steady(w)
  BY <1>1, <1>4 DEF Found, Attempts
<1>5. ASSUME NEW found, Adopts(w, found) PROVE Steady(w)
  BY <1>1, <1>5 DEF Adopts, Earliest, Attempts
<1>6. CASE heartbeat(w)
  <2>1. CASE attempt' = [attempt EXCEPT ![w] = None]
    BY <2>1, <1>1 DEF Active
  <2>. QED
    BY <1>6, <2>1, <1>2, <1>3 DEF heartbeat, At
<1>7. CASE reconcileStarter(w)
  <2>1. attempt[w].claim \in Nat \ {0}
    BY <1>1 DEF Attempts
  <2>. QED
    BY <1>7, <2>1, <1>2, <1>5 DEF reconcileStarter, At
<1>8. CASE reconcileStarterWithBackoff(w)
  BY <1>8, <1>3, <1>5 DEF reconcileStarterWithBackoff
<1>9. CASE reconcileReply(w)
  BY <1>9, <1>2, <1>3, <1>4, PartsAreNaturals DEF reconcileReply, At
<1>10. CASE send(w)
  BY <1>10, <1>2 DEF send
<1>11. CASE sendSucceeds(w)
  <2>1. CASE attempt[w].part = 0
    BY <1>1, <1>11, <2>1 DEF sendSucceeds, Active, Attempts, Asked
  <2>. QED
    BY <1>11, <2>1, <1>3 DEF sendSucceeds
<1>12. CASE sendRefused(w)
  <2>1. PICK code \in {"rate_limited", "permission_failed"} :
          attempt' = [attempt EXCEPT ![w].outcome = code,
            ![w].step = IF attempt[w].part = 0 THEN "acknowledge" ELSE "recheck"]
    BY <1>12 DEF sendRefused
  <2>2. attempt[w].part = 0 => Asked
    BY <1>12 DEF sendRefused, Request, Asked
  <2>. QED
    BY <1>1, <2>1, <2>2 DEF Attempts
<1>13. CASE sendUncertain(w)
  BY <1>1, <1>13 DEF sendUncertain, Attempts, Active, Asked
<1>14. CASE verifyStarter(w)
  <2>1. CASE attempt' = [attempt EXCEPT ![w] = None]
    BY <2>1, <1>1 DEF Active
  <2>. QED
    BY <1>14, <2>1, <1>2, <1>3 DEF verifyStarter
<1>15. CASE recheckReply(w)
  <2>1. attempt[w].outcome = "rate_limited" /\ attempt[w].part = 0 => Asked
    BY <1>1 DEF Asked
  <2>. QED
    BY <1>15, <2>1, <1>3, <1>4 DEF recheckReply
<1>16. CASE abandon(w)
  BY <1>16, <1>1 DEF abandon, Active
<1>. QED
  BY <1>6, <1>7, <1>8, <1>9, <1>10, <1>11, <1>12, <1>13, <1>14, <1>15, <1>16 DEF Moves

LEMMA MovesKeepThreads ==
    ASSUME CoreInv, ThreadInv, NEW w \in Workers, Moves(w)
    PROVE  ThreadInv'
<1>. USE DEF Steady
<1>1. /\ Active(w) /\ attempt[w] \in Attempts /\ UNCHANGED <<edition, delivery>>
      /\ attempt \in [Workers -> Attempts \cup {None}]
      /\ forum'.messages = forum.messages
      /\ IF send(w) THEN forum'.requests = forum.requests \cup {Request(attempt[w])}
         ELSE forum'.requests \subseteq forum.requests
      /\ \A v \in Workers : v # w => attempt'[v] = attempt[v]
      /\ Active(w)' => /\ attempt'[w].part = attempt[w].part
                       /\ attempt'[w].claim = attempt[w].claim
                       /\ attempt'[w].code = attempt[w].code
  BY MovesFields, AttemptFields, MovesKeepFields DEF CoreInv, TypeInv, TypeOK
<1>2. Steady(w)
  BY MovesSteady
<1>3. \A v \in Workers : Early(v)' => Early(v) /\ (v = w => ~send(w))
  BY <1>1, <1>2 DEF Early, Active, send, At
<1>4. CASE ~(send(w) /\ attempt[w].part = 0)
  <2>1. Asked' => Asked
    BY <1>1, <1>2, <1>4 DEF Asked, Active, Request
  <2>2. Asked' => delivery'[0].attempts > 0 /\ \A v \in Workers : ~Early(v)'
    BY <2>1, <1>1, <1>3 DEF ThreadInv
  <2>. QED
    BY <2>2, <1>1, <1>2 DEF ThreadInv, At, Active
<1>5. CASE send(w) /\ attempt[w].part = 0
  <2>1. delivery[0].attempts > 0
    BY <1>1, <1>5, AttemptsAreNaturals, PartsAreNaturals DEF CoreInv, AttemptInv, Fenced, Attempts
  <2>2. ASSUME NEW v \in Workers PROVE ~Early(v)'
    <3>1. CASE attempt[w].claim = 1
      BY <3>1, <1>1, <1>3, <1>5 DEF CoreInv, AttemptInv, Fenced, Early
    <3>2. CASE attempt[w].code = "rate_limited"
      BY <3>2, <1>1, <1>3, <1>5 DEF ThreadInv, Asked
    <3>. QED
      BY <3>1, <3>2, <1>5 DEF ThreadInv, send
  <2>. QED
    BY <2>1, <2>2, <1>1, <1>2 DEF ThreadInv, At, Active
<1>. QED
  BY <1>4, <1>5

(* The part of an attempt that holds the edition is the first that is missing. *)
LEMMA HolderIsNext ==
    ASSUME CoreInv, NEW w \in Workers, Active(w), HoldsEdition(attempt[w])
    PROVE  /\ attempt[w].part \in Parts /\ ~Sent(attempt[w].part)
           /\ \A q \in Parts : q < attempt[w].part => Sent(q)
           /\ \A q \in Parts : Sent(q) <=> q < edition.sentPartCount
           /\ edition.sentPartCount = attempt[w].part
<1>. DEFINE s == attempt[w].part
            n == edition.sentPartCount
<1>0. TypeInv
  BY DEF CoreInv
<1>1. s \in Parts /\ n \in Nat
  <2>1. attempt[w] \in Attempts
    BY <1>0, AttemptFields
  <2>. QED
    BY <1>0, <2>1 DEF TypeInv, TypeOK, Attempts
<1>2. ~Sent(s) /\ \A q \in Parts : q < s => Sent(q)
  BY DEF CoreInv, AttemptInv, Fenced
<1>3. \A q \in Parts : Sent(q) <=> q < n
  BY DEF CoreInv, RowsInv, Duplicated, HoldsEdition
<1>. HIDE DEF s, n
<1>4. ~(s < n) /\ s \in Nat
  BY <1>1, <1>2, <1>3, PartsAreNaturals
<1>5. ~(n < s)
  <2>1. SUFFICES ASSUME n < s PROVE FALSE
    OBVIOUS
  <2>2. n \in Parts
    BY <1>1, <1>4, <2>1, PublicationAssumption DEF Parts
  <2>. QED
    BY <1>1, <1>2, <1>3, <2>1, <2>2
<1>6. n = s
  BY <1>1, <1>4, <1>5
<1>. QED
  BY <1>1, <1>2, <1>3, <1>6 DEF s, n

(* What the end of an attempt does to the rows. *)
Ends ==
    /\ edition'.generation = edition.generation
    /\ edition'.lease = "live" => UNCHANGED <<edition, delivery>>
    /\ \A s \in Parts : /\ delivery'[s].attempts = delivery[s].attempts
                        /\ Sent(s) => Sent(s)'
    /\ RowsInv'
    /\ edition'.code = "rate_limited" \/ delivery'[0].code = "rate_limited" => Asked

LEMMA SentEnds ==
    ASSUME CoreInv, NEW w \in Workers, Active(w), HoldsEdition(attempt[w]),
           attempt[w].outcome = "sent", acknowledgeSent(attempt[w]), UNCHANGED forum
    PROVE  Ends
<1>. DEFINE s == attempt[w].part
            count == edition.sentPartCount + 1
            status == IF count > LastPart THEN "published" ELSE "publishing_replies"
            thread == IF s = 0 THEN attempt[w].thread ELSE edition.thread
<1>0. /\ edition \in EditionRow /\ delivery \in [Parts -> DeliveryRow] /\ 0 \in Parts
      /\ s \in Parts /\ s \in Nat
  BY HolderIsNext, PartsAreNaturals DEF CoreInv, TypeInv, TypeOK, EditionRow, DeliveryRow
<1>1. edition' = [edition EXCEPT !.worker = None, !.lease = "none", !.thread = thread,
                    !.status = status, !.sentPartCount = count, !.code = "none"]
  BY <1>0 DEF acknowledgeSent, Unclaimed, EditionRow
<1>2. delivery' = [delivery EXCEPT ![s].status = "sent", ![s].code = "none", ![s].lease = "none"]
  BY DEF acknowledgeSent
<1>3. \A q \in Parts : /\ delivery'[q].attempts = delivery[q].attempts
                       /\ Sent(q)' <=> Sent(q) \/ q = s
                       /\ delivery'[q].code = "rate_limited" => delivery[q].code = "rate_limited"
  BY <1>0, <1>2 DEF Sent, DeliveryRow
<1>4. edition'.generation = edition.generation /\ edition'.lease = "none"
      /\ edition'.code = "none" /\ edition'.thread = thread /\ edition'.status = status
      /\ edition'.sentPartCount = s + 1 /\ edition.sentPartCount = s /\ count = s + 1
  BY <1>0, <1>1, HolderIsNext DEF EditionRow
<1>5. IF s = 0 THEN attempt[w].thread # None ELSE InForum(s)
  BY DEF CoreInv, AttemptInv, Honest
<1>6. thread # None => ThreadExists(thread)
  BY DEF CoreInv, AttemptInv, Honest, RowsInv
<1>7. thread # None
  <2>1. CASE s = 0
    BY <2>1, <1>5
  <2>2. CASE s # 0
    <3>1. 0 < s
      BY <1>0, <2>2
    <3>2. Sent(0)
      BY <3>1, <1>0, HolderIsNext
    <3>. QED
      BY <2>2, <3>2 DEF CoreInv, RowsInv
  <2>. QED
    BY <2>1, <2>2
<1>8. \A q \in Parts : Sent(q) <=> q < s
  BY HolderIsNext, <1>4
<1>9. \A q \in Parts : Sent(q)' => InForum(q)
  <2>1. ASSUME s = 0 PROVE InForum(s)
    BY <2>1, <1>6, <1>7 DEF ThreadExists, InForum
  <2>. QED
    BY <2>1, <1>3, <1>5 DEF CoreInv, RowsInv
<1>. HIDE DEF s, count, status, thread
<1>10. \A q \in Parts : Sent(q)' <=> q < s + 1
  <2>1. ASSUME NEW q \in Parts PROVE Sent(q)' <=> q < s + 1
    <3>1. q \in Nat /\ (Sent(q)' <=> Sent(q) \/ q = s) /\ (Sent(q) <=> q < s)
      BY <1>3, <1>8, PartsAreNaturals
    <3>. QED
      BY <1>0, <3>1
  <2>. QED
    BY <2>1
<1>11. RowsInv'
  <2>1. edition'.status = "published" => s + 1 > LastPart
    BY <1>4 DEF status
  <2>. QED
    BY <2>1, <1>4, <1>6, <1>7, <1>9, <1>10 DEF RowsInv, ThreadExists, InForum
<1>12. delivery'[0].code = "rate_limited" => Asked
  BY <1>0, <1>3 DEF Asked
<1>. QED
  BY <1>3, <1>4, <1>11, <1>12 DEF Ends

LEMMA FailedEnds ==
    ASSUME CoreInv, NEW w \in Workers, Active(w), HoldsEdition(attempt[w]),
           attempt[w].outcome # "sent", acknowledgeFailed(attempt[w]), UNCHANGED forum
    PROVE  Ends
<1>. DEFINE a == attempt[w]
            retry == a.outcome \in Retryable /\ delivery[a.part].attempts < RetryAttempts
            t == IF retry THEN "pending" ELSE "failed"
            failed == [delivery EXCEPT
                 ![a.part].status = t, ![a.part].code = a.outcome, ![a.part].lease = "none"]
<1>0. /\ edition \in EditionRow /\ delivery \in [Parts -> DeliveryRow] /\ 0 \in Parts
      /\ a.part \in Parts /\ a.part \in Nat /\ a.outcome \in Codes /\ ~Sent(a.part)
  <2>1. TypeInv
    BY DEF CoreInv
  <2>2. a \in Attempts /\ a.part \in Parts /\ ~Sent(a.part)
    BY <2>1, AttemptFields, HolderIsNext
  <2>3. a.outcome \in Codes
    BY <2>2 DEF Attempts
  <2>. QED
    BY <2>1, <2>2, <2>3, PartsAreNaturals DEF TypeInv, TypeOK, EditionRow, DeliveryRow
<1>1. /\ edition'.generation = edition.generation /\ edition'.lease = "none"
      /\ edition'.code = a.outcome /\ edition'.thread = edition.thread
      /\ edition'.sentPartCount = edition.sentPartCount
      /\ edition'.status # "published"
  BY <1>0 DEF acknowledgeFailed, Unclaimed, EditionRow
<1>2. delivery' = IF retry THEN failed ELSE Terminalized(failed, a.outcome)
  BY DEF acknowledgeFailed
<1>3. /\ failed \in [Parts -> DeliveryRow]
      /\ \A q \in Parts : /\ failed[q].attempts = delivery[q].attempts
                          /\ failed[q].status = IF q = a.part THEN t ELSE delivery[q].status
                          /\ failed[q].code = IF q = a.part THEN a.outcome ELSE delivery[q].code
  <2>. DEFINE r == [delivery[a.part] EXCEPT !.status = t, !.code = a.outcome, !.lease = "none"]
  <2>1. t \in {"pending", "sending", "sent", "failed"} /\ "none" \in LeaseStates
    BY DEF LeaseStates
  <2>2. failed = [delivery EXCEPT ![a.part] = r]
    BY <1>0
  <2>3. r.attempts = delivery[a.part].attempts /\ r.status = t /\ r.code = a.outcome
    BY <1>0 DEF DeliveryRow
  <2>. HIDE DEF t
  <2>4. r \in DeliveryRow
    BY <1>0, <2>1, RowFields DEF CoreInv
  <2>. HIDE DEF r, failed
  <2>. QED
    BY <1>0, <2>2, <2>3, <2>4
<1>4. t # "sent"
  OBVIOUS
<1>. HIDE DEF retry, t, failed, a
<1>5. \A q \in Parts :
        /\ delivery'[q].attempts = delivery[q].attempts
        /\ Sent(q)' <=> Sent(q)
        /\ delivery'[q].code # delivery[q].code => ~Sent(q) /\ delivery'[q].code = a.outcome
  BY <1>0, <1>2, <1>3, <1>4, TerminalizedRows DEF Sent
<1>6. \A q \in Parts : Sent(q) <=> q < edition.sentPartCount
  BY HolderIsNext
<1>7. RowsInv'
  BY <1>0, <1>1, <1>5, <1>6 DEF CoreInv, RowsInv, ThreadExists, InForum
<1>8. a.outcome = "rate_limited" => Asked
  <2>1. CASE a.part = 0
    BY <2>1 DEF Asked, a
  <2>2. CASE a.part # 0
    <3>1. 0 < a.part
      BY <1>0, <2>2
    <3>2. Sent(0)
      BY <3>1, <1>0, HolderIsNext DEF a
    <3>. QED
      BY <3>2, <1>0 DEF CoreInv, RowsInv, InForum, Asked
  <2>. QED
    BY <2>1, <2>2
<1>9. delivery'[0].code = "rate_limited" => Asked
  BY <1>0, <1>5, <1>8 DEF Asked
<1>. QED
  BY <1>1, <1>5, <1>7, <1>8, <1>9 DEF Ends

LEMMA AdoptionEnds ==
    ASSUME CoreInv, NEW w \in Workers, At(w, "adopt"), HoldsEdition(attempt[w]),
           NEW duplicate \in BOOLEAN,
           adoptReconciledStarter(attempt[w].thread, duplicate), UNCHANGED forum
    PROVE  Ends
<1>. DEFINE thread == attempt[w].thread
<1>0. /\ edition \in EditionRow /\ delivery \in [Parts -> DeliveryRow] /\ 0 \in Parts
      /\ Active(w)
  BY PartsAreNaturals DEF CoreInv, TypeInv, TypeOK, EditionRow, DeliveryRow, At, Active
<1>1. /\ attempt[w].part = 0 /\ thread # None /\ ThreadExists(thread)
  BY <1>0 DEF CoreInv, AttemptInv, Honest, At
<1>2. edition.sentPartCount = 0 /\ \A q \in Parts : ~Sent(q)
  BY <1>0, <1>1, HolderIsNext, PartsAreNaturals
<1>3. /\ edition'.generation = edition.generation /\ edition'.lease = "none"
      /\ edition'.thread = thread /\ edition'.sentPartCount = 1
      /\ edition'.status = IF duplicate THEN "failed" ELSE "publishing_replies"
      /\ edition'.code = IF duplicate THEN "reconcile_ambiguous" ELSE edition.code
  BY <1>0, <1>2 DEF adoptReconciledStarter, Unclaimed, EditionRow
<1>4. CASE duplicate
  <2>1. \A q \in Parts : /\ delivery'[q].attempts = delivery[q].attempts
                         /\ delivery'[q].status = "failed"
                         /\ delivery'[q].code = "reconcile_ambiguous"
    BY <1>0, <1>2, <1>4, TerminalizedRows DEF adoptReconciledStarter, Sent, Codes
  <2>2. RowsInv'
    BY <1>0, <1>1, <1>3, <1>4, <2>1 DEF RowsInv, Duplicated, Sent, ThreadExists
  <2>. QED
    BY <1>0, <1>2, <1>3, <1>4, <2>1, <2>2 DEF Ends
<1>5. CASE ~duplicate
  <2>1. \A q \in Parts : /\ delivery'[q].attempts = delivery[q].attempts
                         /\ Sent(q)' <=> q = 0
                         /\ delivery'[q].code = delivery[q].code
    BY <1>0, <1>2, <1>5 DEF adoptReconciledStarter, Sent, DeliveryRow
  <2>2. RowsInv'
    BY <1>0, <1>1, <1>3, <1>5, <2>1, PartsAreNaturals
       DEF RowsInv, ThreadExists, InForum
  <2>. QED
    BY <1>0, <1>2, <1>3, <1>5, <2>1, <2>2 DEF Ends, Asked
<1>. QED
  BY <1>4, <1>5

LEMMA EndingKeeps ==
    ASSUME CoreInv, NEW w \in Workers, acknowledgePublication(w) \/ adopt(w)
    PROVE  AttemptInv' /\ RowsInv' /\ ForumInv' /\ (ThreadInv => ThreadInv')
<1>1. Active(w) /\ attempt' = [attempt EXCEPT ![w] = None] /\ UNCHANGED forum
      /\ attempt \in [Workers -> Attempts \cup {None}]
  BY DEF acknowledgePublication, adopt, At, Active, CoreInv, TypeInv, TypeOK
<1>2. Ends
  <2>1. CASE UNCHANGED <<edition, delivery>>
    BY <2>1, <1>1, PartsAreNaturals
       DEF Ends, CoreInv, RowsInv, Duplicated, Sent, ThreadExists, InForum, Asked
  <2>. QED
    BY <2>1, <1>1, SentEnds, FailedEnds, AdoptionEnds DEF acknowledgePublication, adopt
<1>. USE DEF Ends
<1>3. \A v \in Workers : Active(v)' => v # w /\ attempt'[v] = attempt[v] /\ Active(v)
  BY <1>1 DEF Active
<1>4. \A v \in Workers : Active(v) => attempt[v].part \in Parts
  BY <1>1 DEF Active, Attempts
<1>5. ASSUME NEW v \in Workers PROVE Fenced(v)' /\ Honest(v)'
  <2>1. Fenced(v)'
    BY <1>2, <1>3, <1>4 DEF CoreInv, AttemptInv, Fenced, HoldsEdition, Sent
  <2>2. Honest(v)'
    BY <1>1, <1>3 DEF CoreInv, AttemptInv, Honest, ThreadExists, InForum
  <2>. QED
    BY <2>1, <2>2
<1>6. ForumInv'
  <2>1. \A m \in forum.requests \cup forum.messages : m.part \in Parts
    BY DEF CoreInv, TypeInv, TypeOK, Messages
  <2>. QED
    BY <2>1, <1>1, <1>2 DEF CoreInv, ForumInv
<1>7. ThreadInv => ThreadInv'
  <2>1. Asked' => Asked
    BY <1>1, <1>2, <1>3 DEF Asked
  <2>. QED
    BY <2>1, <1>2, <1>3, PartsAreNaturals DEF ThreadInv, Early, At, Active
<1>. QED
  BY <1>2, <1>5, <1>6, <1>7 DEF AttemptInv

LEMMA NextKeeps == CoreInv /\ ThreadInv /\ [Next]_publicationVars => CoreInv' /\ ThreadInv'
<1>. SUFFICES ASSUME CoreInv, ThreadInv, [Next]_publicationVars PROVE CoreInv' /\ ThreadInv'
  OBVIOUS
<1>1. TypeInv'
  BY NextTypes DEF CoreInv
<1>2. CASE UNCHANGED publicationVars
  BY <1>2 DEF publicationVars, CoreInv, TypeInv, TypeOK, LeasedIsSending, ClaimsCounted,
              AttemptInv, Fenced, Honest, RowsInv, Duplicated, ForumInv, ThreadInv, Asked,
              Early, At, Active, Sent, HoldsEdition, ThreadExists, InForum
<1>3. CASE Next
  <2>1. CASE LeaseExpires \/ recoverDelivery \/ retryEdition \/ requestReconciliation
    BY <2>1, <1>1, RowSteps, RowStepsKeep DEF CoreInv
  <2>2. ASSUME NEW w \in Workers, claimPublication(w) PROVE CoreInv' /\ ThreadInv'
    BY <2>2, <1>1, ClaimKeeps DEF CoreInv
  <2>3. ASSUME NEW w \in Workers, Moves(w) PROVE CoreInv' /\ ThreadInv'
    BY <2>3, <1>1, MovesKeep, MovesKeepThreads DEF CoreInv
  <2>4. ASSUME NEW w \in Workers, acknowledgePublication(w) \/ adopt(w)
        PROVE  CoreInv' /\ ThreadInv'
    BY <2>4, <1>1, EndingKeeps DEF CoreInv
  <2>5. ASSUME NEW m \in Messages, Arrives(m) \/ Appears(m) PROVE CoreInv' /\ ThreadInv'
    BY <2>5, <1>1, ForumKeeps DEF CoreInv
  <2>. QED
    BY <1>3, StepKinds, <2>1, <2>2, <2>3, <2>4, <2>5
<1>. QED
  BY <1>2, <1>3

LEMMA CoreHolds == Spec => [](CoreInv /\ ThreadInv)
<1>1. Init => CoreInv /\ ThreadInv
  BY InitCore
<1>2. CoreInv /\ ThreadInv /\ [Next]_publicationVars => (CoreInv /\ ThreadInv)'
  BY NextKeeps
<1>. QED
  BY <1>1, <1>2, PTL DEF Spec

-----------------------------------------------------------------------------
(* Rows, attempts and the forum keep their shape. *)
THEOREM TypeCorrect == Spec => []TypeOK
<1>1. CoreInv /\ ThreadInv => TypeOK
  BY DEF CoreInv, TypeInv
<1>. QED
  BY <1>1, CoreHolds, PTL

(* acknowledgePublication publishes an edition only when every part is sent and
   in the forum. *)
THEOREM PublishedInFullHolds == Spec => []PublishedInFull
<1>1. CoreInv /\ ThreadInv => PublishedInFull
  <2>. SUFFICES ASSUME CoreInv, edition.status = "published"
                PROVE  /\ \E m \in Threads : m.claim = edition.thread
                       /\ \A s \in Parts : /\ delivery[s].status = "sent"
                                           /\ \E m \in forum.messages : m.part = s
    BY DEF PublishedInFull
  <2>1. edition.sentPartCount > LastPart /\ ThreadExists(edition.thread)
        /\ edition.sentPartCount \in Nat /\ ~Duplicated
    BY DEF CoreInv, RowsInv, Duplicated, TypeInv, TypeOK
  <2>2. ASSUME NEW s \in Parts PROVE Sent(s)
    <3>1. s < edition.sentPartCount
      BY <2>1, PublicationAssumption DEF Parts
    <3>. QED
      BY <3>1, <2>1 DEF CoreInv, RowsInv
  <2>. QED
    BY <2>1, <2>2 DEF CoreInv, RowsInv, ThreadExists, Threads, InForum, Sent
<1>. QED
  BY <1>1, CoreHolds, PTL

(* A reply is asked for after every earlier part, and posted once. *)
THEOREM RepliesOnceInOrderHolds == Spec => []RepliesOnceInOrder
<1>1. CoreInv /\ ThreadInv => RepliesOnceInOrder
  <2>. SUFFICES ASSUME CoreInv, NEW m \in forum.messages \cup forum.requests, m.part > 0
                PROVE  /\ \A q \in 0..(m.part - 1) : delivery[q].status = "sent"
                       /\ m \in forum.messages =>
                            \A n \in forum.messages : n.part = m.part => n = m
    BY DEF RepliesOnceInOrder
  <2>1. m.part \in Parts
    BY DEF CoreInv, TypeInv, TypeOK, Messages
  <2>2. ASSUME NEW q \in 0..(m.part - 1) PROVE delivery[q].status = "sent"
    <3>1. q \in Parts /\ q < m.part
      BY <2>1, PublicationAssumption DEF Parts
    <3>. QED
      BY <3>1 DEF CoreInv, ForumInv, Sent
  <2>. QED
    BY <2>2 DEF CoreInv, ForumInv
<1>. QED
  BY <1>1, CoreHolds, PTL

(* publishStarter asks for a thread when none was asked for before, or after a
   rate limit. *)
THEOREM NoBlindSecondThreadHolds == Spec => NoBlindSecondThread
<1>1. ASSUME CoreInv, ThreadInv, NEW w \in Workers, send(w), attempt[w].part = 0
      PROVE  \/ attempt[w].code = "rate_limited"
             \/ \A m \in forum.requests \cup forum.messages : m.part > 0
  <2>1. \A m \in forum.requests \cup forum.messages : m.part \in Nat
    <3>1. \A m \in forum.requests \cup forum.messages : m.part \in Parts
      BY <1>1 DEF CoreInv, TypeInv, TypeOK, Messages
    <3>. QED
      BY <3>1, PartsAreNaturals
  <2>2. CASE attempt[w].claim = 1
    <3>1. Early(w)
      BY <1>1, <2>2 DEF Early, send, At, Active
    <3>. QED
      BY <1>1, <2>1, <3>1 DEF ThreadInv, Asked
  <2>. QED
    BY <1>1, <2>2 DEF ThreadInv, send
<1>2. CoreInv /\ ThreadInv =>
        [\A w \in Workers : send(w) /\ attempt[w].part = 0 =>
            \/ attempt[w].code = "rate_limited"
            \/ \A m \in forum.requests \cup forum.messages : m.part > 0]_publicationVars
  BY <1>1
<1>. QED
  BY <1>2, CoreHolds, PTL DEF NoBlindSecondThread

=============================================================================
