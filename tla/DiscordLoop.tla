------------------------------ MODULE DiscordLoop ------------------------------
(***************************************************************************)
(* The canonical state of one Discord guild as apps/convex/convex/         *)
(* discord.ts keeps it: the per-channel loop state, the guild conversation *)
(* with its lease, the loop runs and their turns, the reply outbox and the *)
(* canonical events.  Every Convex mutation is one serializable            *)
(* transaction, so it is one action here.                                  *)
(*                                                                         *)
(* The callers are left open.  A fence that claimLoop has once handed out  *)
(* may be presented at any later time (a gateway that lost its lease, a    *)
(* request delayed by the network, a retry); a call the mutation rejects   *)
(* changes nothing and is not an action.                                   *)
(*                                                                         *)
(* Time is abstract: a lease is live until LeaseExpires, which may come at *)
(* any moment, and a debounce or retry delay may have passed whenever a    *)
(* claim is made.  Reply text, hashes and ids are abstracted to identity.  *)
(***************************************************************************)
EXTENDS DiscordState

CONSTANTS
    Channels,       \* text channels of the guild
    Claims,         \* claim ids; claimLoop callers draw a fresh UUID for each
    FinalKeys,      \* final replies of a run: "reply", "failure-closure"
    Acks,           \* acknowledgement keys <<channel, trigger, epoch>>
    None,
    MaxSequence,    \* bound: human messages per channel
    MaxEpoch,       \* bound: resets and privacy deletions
    MaxRouting,     \* bound: routing changes
    MaxGeneration   \* bound: channel generation reached by role changes

ASSUME BoundsAssumption ==
    /\ MaxSequence \in Nat
    /\ MaxEpoch \in Nat
    /\ MaxRouting \in Nat
    /\ MaxGeneration \in Nat
ASSUME NoneAssumption == None \notin Channels \cup Claims

Finals == Claims \X FinalKeys
Replies == Finals \cup Acks

ASSUME ReplyKeysAssumption == Finals \cap Acks = {}

VARIABLES
    channelState,   \* discordChannelStates, with the discordMessages cursor
    mentions,       \* sequence numbers of human messages that mention the bot
    monitored,      \* channels with the conversation_monitor role
    conversation,   \* discordAssistantConversations, one row for the guild
    run,            \* discordLoopRuns, by run id (the claim id that made it)
    turn,           \* discordAssistantTurns, by turn id (equal to the run id)
    issued,         \* the fence each claim id was answered with
    outbox,         \* discordOutbox with the canonical event each row reserved
    humanEvents     \* discordConversationEvents of kind human_message

loopVars == <<channelState, mentions, monitored, conversation, run, turn,
              issued, outbox, humanEvents>>

-----------------------------------------------------------------------------
(* Documents. *)

Leases == {"none", "live", "expired"}
(* The stages between claim and end are one status of a run here, "active",
   and two of a turn: "reopened" says that a draft at "suppressed" was recorded
   before.  recordFrontmanResume writes "suppressed" while the run goes on;
   completeLoop writes it as an end. *)
RunStatus == {"absent", "active", "completed", "error", "stale"}
OpenStages == {"open", "reopened"}
TurnStage == OpenStages \cup
    {"absent", "completed", "suppressed", "failed", "cancelled"}

EmptyChannel ==
    [generation |-> 0, status |-> "idle", latest |-> 0, trigger |-> 0,
     completed |-> 0, errors |-> 0, run |-> None, lease |-> "none"]

NoRun == [status |-> "absent", chan |-> None, windowStart |-> 0, windowEnd |-> 0]

NoTurn == [stage |-> "absent", epoch |-> 0, eligibleThrough |-> 0]

NoFence ==
    [run |-> None, chan |-> None, generation |-> 0, epoch |-> 0,
     conversationGeneration |-> 0, routing |-> 0]

NoReply ==
    [status |-> "absent", run |-> None, chan |-> None, finalizesLoop |-> FALSE,
     generation |-> 0, epoch |-> 0, conversationGeneration |-> 0, routing |-> 0,
     token |-> None, consumes |-> 0, delivery |-> "none", begun |-> FALSE,
     event |-> "none", ordinal |-> 0]

ReplyStatus == {"absent", "pending", "sent", "finalized", "failed",
                "delivery_uncertain", "needs_reconciliation", "cancelled"}
(* delivery: the delivery lease of a row.  "lapsed" keeps its token, which
   still matches until listRunnable issues another.
   begun: a delivery token was answered by beginReplyDelivery, so Discord may
   hold the message. *)
Deliveries == {"none", "leased", "lapsed"}
EventStatus == {"none", "pending", "committed", "failed"}

Init ==
    /\ channelState = [c \in Channels |-> EmptyChannel]
    /\ mentions = [c \in Channels |-> {}]
    /\ \E c \in Channels :
        /\ monitored = {c}
        /\ conversation =
            [channel |-> c, epoch |-> 0, generation |-> 0, routing |-> 1,
             revision |-> 0, humanRevision |-> 0, nextOrdinal |-> 1,
             run |-> None, token |-> None, lease |-> "none", watermark |-> 0]
    /\ run = [r \in Claims |-> NoRun]
    /\ turn = [r \in Claims |-> NoTurn]
    /\ issued = [k \in Claims |-> NoFence]
    /\ outbox = [q \in Replies |-> NoReply]
    /\ humanEvents = {}

-----------------------------------------------------------------------------
(* Fences. *)

ConversationBusy == conversation.run # None /\ conversation.lease = "live"

(* discordChannelStates still names the caller's run and generation. *)
ChannelFence(k) ==
    isCurrentDiscordGeneration(channelState[issued[k].chan],
                               issued[k].run, issued[k].generation)

ConversationFence(k) ==
    /\ conversation.run = issued[k].run
    /\ conversation.epoch = issued[k].epoch
    /\ conversation.generation = issued[k].conversationGeneration
    /\ conversation.routing = issued[k].routing
    /\ conversation.token = k

Fence(k) == issued[k].run # None /\ ChannelFence(k) /\ ConversationFence(k)

LiveFence(k) ==
    /\ Fence(k)
    /\ channelState[issued[k].chan].lease = "live"
    /\ conversation.lease = "live"

(* The same fence as beginReplyDelivery and listRunnable find it on a row. *)
ReplyChannelFence(o) ==
    isCurrentDiscordGeneration(channelState[o.chan], o.run, o.generation)

ReplyFence(o) ==
    /\ o.status # "absent"
    /\ ReplyChannelFence(o)
    /\ conversation.run = o.run
    /\ conversation.epoch = o.epoch
    /\ conversation.generation = o.conversationGeneration
    /\ conversation.routing = o.routing
    /\ conversation.token = o.token

UnresolvedDelivery ==
    \E q \in Replies :
        outbox[q].epoch = conversation.epoch /\ outbox[q].status \in Unresolved

ClearedLoop(s) == [s EXCEPT !.run = None, !.lease = "none"]

ClearedConversation(v) ==
    [v EXCEPT !.run = None, !.token = None, !.lease = "none"]

(* Everything a role change or a reset throws away of a channel's work. *)
RestartedChannel(s) ==
    [ClearedLoop(s) EXCEPT !.generation = @ + 1, !.status = "idle",
                           !.trigger = s.latest, !.completed = s.latest]

Invalidated(o) ==
    CASE o.status = "pending" ->
            [o EXCEPT !.status = "failed", !.delivery = "none",
                      !.event = IF @ = "pending" THEN "failed" ELSE @]
      [] o.status = "delivery_uncertain" ->
            [o EXCEPT !.status = "needs_reconciliation", !.delivery = "none"]
      [] o.status = "sent" -> [o EXCEPT !.status = "finalized"]
      [] OTHER -> o

invalidateRunOutbox(runs) ==
    [q \in Replies |->
        IF outbox[q].run \in runs THEN Invalidated(outbox[q]) ELSE outbox[q]]

StaleRuns(runs) ==
    [r \in Claims |->
        IF r \in runs /\ run[r].status = "active"
        THEN [run[r] EXCEPT !.status = "stale"] ELSE run[r]]

EndedTurn_forgotten(runs, stage) == turn

(* A turn at "suppressed" is left as it is. *)
EndedTurn(runs, stage) ==
    [r \in Claims |->
        IF r \in runs /\ turn[r].stage \in OpenStages
        THEN [turn[r] EXCEPT !.stage = stage] ELSE turn[r]]

-----------------------------------------------------------------------------
(* Ingestion. *)

ReserveOrdinal(v) == [v EXCEPT !.nextOrdinal = @ + 1]

(* A human message.  Not monitored, not addressed to the bot and no loop
   running: refused.  A duplicate message id changes nothing. *)
IngestHuman(c, mention) ==
    LET s == channelState[c]
        running == s.lease = "live"
        advances == c \in monitored \/ mention
        belongs == /\ s.latest + 1 > conversation.watermark
                   /\ \/ conversation.channel = c
                      \/ mention
                      \/ conversation.run # None
    IN /\ advances \/ running
       /\ s.latest < MaxSequence
       /\ channelState' = [channelState EXCEPT ![c] =
            [s EXCEPT !.latest = @ + 1,
                      !.trigger = IF advances THEN s.latest + 1 ELSE @,
                      !.status = IF advances /\ ~running THEN "idle" ELSE @,
                      !.errors = IF advances /\ ~running THEN 0 ELSE @]]
       /\ mentions' = IF mention
                      THEN [mentions EXCEPT ![c] = @ \cup {s.latest + 1}]
                      ELSE mentions
       /\ IF belongs
          THEN /\ humanEvents' = humanEvents \cup
                    {[epoch |-> conversation.epoch,
                      ordinal |-> conversation.nextOrdinal,
                      chan |-> c, seq |-> s.latest + 1]}
               /\ conversation' = [ReserveOrdinal(conversation) EXCEPT
                                      !.revision = @ + 1, !.humanRevision = @ + 1]
          ELSE UNCHANGED <<humanEvents, conversation>>
       /\ UNCHANGED <<monitored, run, turn, issued, outbox>>

(* Another bot's message is context: it moves the cursor and triggers nothing. *)
IngestOtherBot(c) ==
    /\ c \in monitored \/ channelState[c].lease = "live"
    /\ channelState[c].latest < MaxSequence
    /\ channelState' = [channelState EXCEPT ![c].latest = @ + 1]
    /\ UNCHANGED <<mentions, monitored, conversation, run, turn, issued, outbox,
                   humanEvents>>

(* commitCanonicalAssistantDelivery: the reserved event becomes visible; the
   conversation's revision moves only for a reply of its current epoch. *)
Committed_pendingOnly(o) ==
    [o EXCEPT !.event = IF @ = "pending" THEN "committed" ELSE @]

Committed(o) == [o EXCEPT !.event = IF @ = "none" THEN "none" ELSE "committed"]

CommitRevision(o) ==
    IF o.event \in {"pending", "failed"} /\ o.epoch = conversation.epoch
    THEN [conversation EXCEPT !.revision = @ + 1]
    ELSE conversation

Sent(o) == [o EXCEPT !.status = "sent", !.delivery = "none"]

StoreBotMessage(c) ==
    channelState' = [channelState EXCEPT ![c].latest = @ + 1]

(* The gateway reports the bot's own message; its nonce and payload hash find
   the outbox row.  No fence is asked: Discord has proved the delivery.  A row
   already confirmed has its message stored, and then this is a duplicate. *)
IngestBotReply(q) ==
    LET o == outbox[q]
    IN /\ o.begun
       /\ o.status \notin Confirmed
       /\ StoreBotMessage(o.chan)
       /\ outbox' = [outbox EXCEPT ![q] = Committed(Sent(o))]
       /\ conversation' = CommitRevision(o)
       /\ UNCHANGED <<mentions, monitored, run, turn, issued, humanEvents>>

-----------------------------------------------------------------------------
(* Claiming a loop. *)

(* claimLoop only ever writes recheckPending FALSE and completeLoop never
   accepts a recheck, so the window is always a window of messages. *)
NextWindow(c) == messageWindow(channelState[c])

AwaitingFinalization(c) ==
    LET s == channelState[c]
    IN /\ s.run # None
       /\ s.lease = "expired"
       /\ hasSentDiscordFinalizer(outbox, s.run, s.generation)

(* A turn at "suppressed" is not recovered, even if its run never ended. *)
RecoverableExpiredTurn(c) ==
    LET r == channelState[c].run
    IN /\ r # None
       /\ conversation.run = r
       /\ run[r].status = "active"
       /\ turn[r].stage \in OpenStages

ClaimGuard(c, k) ==
    /\ issued[k] = NoFence
    /\ ~ConversationBusy
    /\ ~UnresolvedDelivery
    /\ ~AwaitingFinalization(c)
    /\ channelState[c].lease # "live"
    /\ HasPendingMessages(channelState[c])

NewFence(c, k, r) ==
    [run |-> r, chan |-> c,
     generation |-> channelState[c].generation + 1,
     epoch |-> conversation.epoch,
     conversationGeneration |-> conversation.generation + 1,
     routing |-> conversation.routing]

(* What both kinds of claim write: a generation and a lease on the channel
   and on the conversation. *)
AcquireLeases(c, k, r) ==
    /\ channelState' = [channelState EXCEPT ![c] =
            [channelState[c] EXCEPT !.generation = @ + 1, !.status = "running",
                                    !.run = r, !.lease = "live"]]
    /\ conversation' = [conversation EXCEPT !.generation = @ + 1, !.run = r,
                                            !.token = k, !.lease = "live"]
    /\ issued' = [issued EXCEPT ![k] = NewFence(c, k, r)]
    /\ UNCHANGED <<mentions, monitored, humanEvents>>

Refenced_oldToken(o, f, k) ==
    [o EXCEPT !.generation = f.generation,
              !.conversationGeneration = f.conversationGeneration,
              !.routing = f.routing]

Refenced(o, f, k) ==
    [o EXCEPT !.generation = f.generation,
              !.conversationGeneration = f.conversationGeneration,
              !.routing = f.routing,
              !.token = k]

(* The expired run is taken over under its own run and turn id; its pending
   replies move to the new fence. *)
RecoverLoop(c, k) ==
    LET r == channelState[c].run
        f == NewFence(c, k, r)
    IN /\ ClaimGuard(c, k)
       /\ RecoverableExpiredTurn(c)
       /\ AcquireLeases(c, k, r)
       /\ outbox' = [q \in Replies |->
            IF outbox[q].run = r /\ outbox[q].status = "pending"
            THEN Refenced(outbox[q], f, k) ELSE outbox[q]]
       /\ UNCHANGED <<run, turn>>

(* A new run named by the claim id.  A run the channel still carries goes
   stale with its outbox; a turn the conversation still carries fails. *)
StartLoop(c, k) ==
    LET old == {channelState[c].run} \ {None}
        window == NextWindow(c)
    IN /\ ClaimGuard(c, k)
       /\ ~RecoverableExpiredTurn(c)
       /\ AcquireLeases(c, k, k)
       /\ outbox' = invalidateRunOutbox(old)
       /\ run' = [StaleRuns(old) EXCEPT ![k] =
            [status |-> "active", chan |-> c,
             windowStart |-> window.start, windowEnd |-> window.end]]
       /\ turn' = [EndedTurn({conversation.run}, "failed") EXCEPT ![k] =
            [stage |-> "open", epoch |-> conversation.epoch, eligibleThrough |-> 0]]

claimLoop(c, k) == RecoverLoop(c, k) \/ StartLoop(c, k)

(* 120 s without a heartbeat: the claim set both expiries, heartbeat renews
   both, so the channel's and the conversation's lease of a run end together. *)
LeaseExpires(r) ==
    /\ \/ \E c \in Channels : channelState[c].run = r /\ channelState[c].lease = "live"
       \/ conversation.run = r /\ conversation.lease = "live"
    /\ channelState' = [c \in Channels |->
            IF channelState[c].run = r
            THEN [channelState[c] EXCEPT !.lease = "expired"] ELSE channelState[c]]
    /\ conversation' = IF conversation.run = r
                       THEN [conversation EXCEPT !.lease = "expired"] ELSE conversation
    /\ UNCHANGED <<mentions, monitored, run, turn, issued, outbox, humanEvents>>

-----------------------------------------------------------------------------
(* Work under a fence. *)

(* The newest context a turn may use ends before the next explicit trigger,
   which is left for a turn of its own.  Only the conversation's fence is
   asked, not the channel's. *)
EligibleThrough_newest(c, windowEnd, through) == through = channelState[c].latest

EligibleThrough(c, windowEnd, through) ==
    LET later == {m \in mentions[c] : m > windowEnd}
    IN IF later = {}
       THEN through = channelState[c].latest
       ELSE \E m \in later : through = m - 1 /\ \A n \in later : m <= n

(* Whatever stage is recorded for a turn under its fence replaces the one
   before, "suppressed" included. *)
Reopened(r) ==
    [turn EXCEPT ![r].stage = IF @ = "open" THEN "open" ELSE "reopened"]

getNewestContext(k) ==
    LET r == issued[k].run
    IN /\ r # None
       /\ ConversationFence(k)
       /\ conversation.lease = "live"
       /\ \E through \in 0..channelState[issued[k].chan].latest :
            /\ EligibleThrough(issued[k].chan, run[r].windowEnd, through)
            /\ turn' = [Reopened(r) EXCEPT ![r].eligibleThrough = through]
       /\ UNCHANGED <<channelState, mentions, monitored, conversation, run,
                      issued, outbox, humanEvents>>

(* The plan, the research and a draft to be sent are recorded under the same
   fence and, here, with the same effect. *)
heartbeat_channelOnly(k) ==
    LET s == channelState[issued[k].chan]
    IN /\ issued[k].run # None
       /\ ChannelFence(k)
       /\ s.lease = "live"
       /\ turn' = Reopened(issued[k].run)
       /\ UNCHANGED <<channelState, mentions, monitored, conversation, run,
                      issued, outbox, humanEvents>>

heartbeat(k) ==
    /\ LiveFence(k)
    /\ turn' = Reopened(issued[k].run)
    /\ UNCHANGED <<channelState, mentions, monitored, conversation, run, issued,
                   outbox, humanEvents>>

(* A draft that suppresses the reply.  A turn stores one such payload, at the
   first time; only a recheck may be replaced by another.  (That a draft to be
   sent was recorded before is not remembered here.)  The eligible context that
   comes with it is the one getNewestContext wrote. *)
recordFrontmanResume(k) ==
    LET r == issued[k].run
    IN /\ LiveFence(k)
       /\ turn[r].stage = "open"
       /\ turn' = [turn EXCEPT ![r].stage = "suppressed"]
       /\ UNCHANGED <<channelState, mentions, monitored, conversation, run,
                      issued, outbox, humanEvents>>

(* The key of a final carries the run id; the key of an acknowledgement names
   the explicit trigger it answers and the epoch. *)
KeyOf(k, q) ==
    IF q \in Finals THEN q[1] = issued[k].run
    ELSE /\ q[1] = issued[k].chan
         /\ q[2] \in mentions[issued[k].chan]
         /\ q[2] >= run[issued[k].run].windowStart
         /\ q[2] <= run[issued[k].run].windowEnd
         /\ q[3] = conversation.epoch

AcknowledgementDelivered(q) ==
    \E p \in Acks : /\ p[1] = q[1] /\ p[2] = q[2]
                    /\ outbox[p].status \in Confirmed

FinalAlreadyEnqueued_pendingOnly(r, generation) ==
    \E q \in Finals : /\ outbox[q].finalizesLoop /\ OfRun(outbox[q], r, generation)
                      /\ outbox[q].status = "pending"

FinalAlreadyEnqueued(r, generation) ==
    \E q \in Finals : outbox[q].finalizesLoop /\ OfRun(outbox[q], r, generation)

NewReply(k, q, through) ==
    [status |-> "pending", run |-> issued[k].run, chan |-> issued[k].chan,
     finalizesLoop |-> q \in Finals,
     generation |-> issued[k].generation, epoch |-> conversation.epoch,
     conversationGeneration |-> conversation.generation,
     routing |-> conversation.routing, token |-> k,
     consumes |-> IF q \in Finals THEN through ELSE 0,
     delivery |-> "none", begun |-> FALSE,
     event |-> "pending", ordinal |-> conversation.nextOrdinal]

(* The cutoffs a caller sends: what getNewestContext stored for the turn, or
   the end of the window.  The code takes any up to the latest message. *)
ValidCutoffs(k) ==
    {n \in {run[issued[k].run].windowEnd, turn[issued[k].run].eligibleThrough} :
        /\ n >= run[issued[k].run].windowEnd
        /\ n <= channelState[issued[k].chan].latest}

(* A second row for the same key is a duplicate or a conflict and changes
   nothing. *)
enqueueReply(k, q) ==
    LET r == issued[k].run
    IN /\ LiveFence(k)
       /\ KeyOf(k, q)
       /\ outbox[q].status = "absent"
       /\ q \in Finals => ~FinalAlreadyEnqueued(r, issued[k].generation)
       /\ q \in Acks => ~AcknowledgementDelivered(q)
       /\ \E through \in ValidCutoffs(k) :
            outbox' = [outbox EXCEPT ![q] = NewReply(k, q, through)]
       /\ conversation' = ReserveOrdinal(conversation)
       /\ turn' = Reopened(r)
       /\ UNCHANGED <<channelState, mentions, monitored, run, issued, humanEvents>>

(* completeLoop.  Leases may have run out if a final of this generation is
   already confirmed. *)
SentFinals(k) ==
    {q \in Finals : outbox[q].status = "sent" /\ outbox[q].finalizesLoop
                    /\ OfRun(outbox[q], issued[k].run, issued[k].generation)}

CompleteGuard(k) ==
    /\ Fence(k)
    /\ \/ /\ channelState[issued[k].chan].lease = "live"
          /\ conversation.lease = "live"
       \/ SentFinals(k) # {}

ReleaseLoop(k, channel) ==
    /\ channelState' = [channelState EXCEPT ![issued[k].chan] = ClearedLoop(channel)]
    /\ conversation' = ClearedConversation(conversation)
    /\ UNCHANGED <<mentions, monitored, issued, humanEvents>>

FailLoop(k, retryable) ==
    LET r == issued[k].run
        s == channelState[issued[k].chan]
    IN /\ CompleteGuard(k)
       /\ ReleaseLoop(k, [s EXCEPT !.status = "error",
                             !.errors = discordNextLoopErrorCount(@, retryable)])
       /\ run' = [run EXCEPT ![r].status = "error"]
       /\ turn' = [turn EXCEPT ![r].stage = "failed"]
       /\ outbox' = invalidateRunOutbox({r})

(* The furthest cutoff among the caller's and the confirmed finals'. *)
ConsumedThrough(k, cutoff) ==
    LET cutoffs == {cutoff} \cup {outbox[q].consumes : q \in SentFinals(k)}
    IN {through \in cutoffs : \A n \in cutoffs : n <= through}

FinalizedReplies(r) ==
    [q \in Replies |->
        IF outbox[q].run = r /\ outbox[q].status = "sent"
        THEN [outbox[q] EXCEPT !.status = "finalized"] ELSE outbox[q]]

FinishLoop(k, suppress) ==
    LET r == issued[k].run
        s == channelState[issued[k].chan]
    IN /\ CompleteGuard(k)
       /\ ~suppress => ~hasPendingDiscordReply(outbox, r, issued[k].generation)
       /\ \E cutoff \in ValidCutoffs(k) : \E through \in ConsumedThrough(k, cutoff) :
            ReleaseLoop(k, [s EXCEPT !.status = "idle", !.errors = 0,
                                     !.completed = Larger(@, through)])
       /\ run' = [run EXCEPT ![r].status = "completed"]
       /\ turn' = [turn EXCEPT ![r].stage = IF suppress THEN "suppressed" ELSE "completed"]
       /\ outbox' = IF suppress THEN invalidateRunOutbox({r}) ELSE FinalizedReplies(r)

completeLoop(k) ==
    \E flag \in BOOLEAN : FailLoop(k, flag) \/ FinishLoop(k, flag)

-----------------------------------------------------------------------------
(* Delivery. *)

(* listRunnable hands a worker the delivery lease of a row it may send. *)
LeaseDelivery(q) ==
    /\ outbox[q].status \in {"pending", "delivery_uncertain"}
    /\ outbox[q].delivery # "leased"
    /\ ReplyFence(outbox[q])
    /\ channelState[outbox[q].chan].lease = "live"
    /\ outbox' = [outbox EXCEPT ![q].delivery = "leased"]
    /\ UNCHANGED <<channelState, mentions, monitored, conversation, run, turn,
                   issued, humanEvents>>

DeliveryLeaseLapses(q) ==
    /\ outbox[q].delivery = "leased"
    /\ outbox' = [outbox EXCEPT ![q].delivery = "lapsed"]
    /\ UNCHANGED <<channelState, mentions, monitored, conversation, run, turn,
                   issued, humanEvents>>

(* listRunnable: the nonce window of an uncertain row has passed. *)
RequireReconciliation(q) ==
    /\ outbox[q].status = "delivery_uncertain"
    /\ outbox' = [outbox EXCEPT ![q].status = "needs_reconciliation",
                                ![q].delivery = "none"]
    /\ UNCHANGED <<channelState, mentions, monitored, conversation, run, turn,
                   issued, humanEvents>>

(* A row that is already uncertain is answered as a duplicate and may be sent
   again under the same nonce. *)
beginReplyDelivery(q) ==
    /\ outbox[q].status \in {"pending", "delivery_uncertain"}
    /\ outbox[q].delivery # "none"
    /\ ReplyFence(outbox[q])
    /\ channelState[outbox[q].chan].lease = "live"
    /\ conversation.lease = "live"
    /\ outbox' = [outbox EXCEPT ![q].status = "delivery_uncertain", ![q].begun = TRUE]
    /\ UNCHANGED <<channelState, mentions, monitored, conversation, run, turn,
                   issued, humanEvents>>

(* acknowledgeReply "sent".  The token may be stale once the outcome is known
   to be unknown; a row of the current epoch must still be its channel's. *)
AcknowledgeSent(q) ==
    LET o == outbox[q]
    IN /\ o.begun
       /\ o.status \notin Confirmed
       /\ o.delivery # "none" \/ o.status \in Unresolved
       /\ o.epoch = conversation.epoch => ReplyChannelFence(o)
       /\ outbox' = [outbox EXCEPT ![q] = Committed(Sent(o))]
       /\ StoreBotMessage(o.chan)
       /\ conversation' = CommitRevision(o)
       /\ UNCHANGED <<mentions, monitored, run, turn, issued, humanEvents>>

AcknowledgeGuard(o) ==
    /\ o.status \notin Confirmed \cup {"absent"}
    /\ o.delivery # "none"
    /\ ReplyChannelFence(o)

(* The dispatcher never reports a failure as retryable. *)
AcknowledgeFailed(q) ==
    /\ AcknowledgeGuard(outbox[q])
    /\ outbox' = [outbox EXCEPT ![q] =
            [outbox[q] EXCEPT !.status = "failed", !.delivery = "none",
                              !.event = IF @ = "pending" THEN "failed" ELSE @]]
    /\ UNCHANGED <<channelState, mentions, monitored, conversation, run, turn,
                   issued, humanEvents>>

AcknowledgeUncertain(q) ==
    /\ AcknowledgeGuard(outbox[q])
    /\ outbox' = [outbox EXCEPT ![q].status = "delivery_uncertain",
                                ![q].delivery = "none"]
    /\ UNCHANGED <<channelState, mentions, monitored, conversation, run, turn,
                   issued, humanEvents>>

deliverReply(q) ==
    \/ LeaseDelivery(q)
    \/ DeliveryLeaseLapses(q)
    \/ RequireReconciliation(q)
    \/ beginReplyDelivery(q)
    \/ AcknowledgeSent(q)
    \/ AcknowledgeFailed(q)
    \/ AcknowledgeUncertain(q)

-----------------------------------------------------------------------------
(* The owner's controls. *)

TurnedOn(roles) == roles \ monitored
TurnedOff(roles) == monitored \ roles

(* applyChannelRoles on every channel.  A channel that loses the monitor role
   also ends its run; one that gains it forgets the run. *)
ApplyRoles(roles) ==
    LET ended == {channelState[c].run : c \in TurnedOff(roles)} \ {None}
    IN /\ monitored' = roles
       /\ channelState' = [c \in Channels |->
            IF c \in TurnedOn(roles)
            THEN [RestartedChannel(channelState[c]) EXCEPT !.errors = 0]
            ELSE IF c \in TurnedOff(roles) THEN RestartedChannel(channelState[c])
            ELSE channelState[c]]
       /\ run' = StaleRuns(ended)
       /\ outbox' = invalidateRunOutbox(ended)

setChannelRoles(c) ==
    /\ channelState[c].generation < MaxGeneration
    /\ ApplyRoles(IF c \in monitored THEN monitored \ {c} ELSE monitored \cup {c})
    /\ UNCHANGED <<mentions, conversation, turn, issued, humanEvents>>

(* The route is the conversation channel and the research-log channel; the
   latter matters here only by having changed.  A call that names the present
   route still applies the roles. *)
setGuildRouting(to, logChanged) ==
    LET from == conversation.channel
        surface == IF from # None /\ from # to THEN 1 ELSE 0
    IN /\ ApplyRoles({to} \ {None})
       /\ IF to # from \/ logChanged
          THEN /\ conversation.routing < MaxRouting
               /\ turn' = EndedTurn({conversation.run}, "cancelled")
               /\ conversation' =
                    [ClearedConversation(conversation) EXCEPT
                        !.channel = to, !.routing = @ + 1, !.generation = @ + 1,
                        !.revision = @ + surface, !.nextOrdinal = @ + surface]
          ELSE /\ \A c \in Channels : channelState[c].generation < MaxGeneration
               /\ UNCHANGED <<turn, conversation>>
       /\ UNCHANGED <<mentions, issued, humanEvents>>

(* resetAssistantConversation *)
Superseded_pendingOnly(o) ==
    IF o.status = "pending"
    THEN [o EXCEPT !.status = "cancelled", !.delivery = "none", !.event = "failed"]
    ELSE o

Superseded(o) ==
    LET voided == [o EXCEPT !.event = IF @ = "pending" THEN "failed" ELSE @]
    IN CASE o.status = "pending" ->
                [voided EXCEPT !.status = "cancelled", !.delivery = "none"]
         [] o.status = "delivery_uncertain" ->
                [voided EXCEPT !.status = "needs_reconciliation", !.delivery = "none"]
         [] OTHER -> voided

SupersededReplies ==
    [q \in Replies |->
        IF outbox[q].epoch = conversation.epoch
        THEN Superseded(outbox[q]) ELSE outbox[q]]

NewEpoch(watermark) ==
    [ClearedConversation(conversation) EXCEPT
        !.epoch = @ + 1, !.generation = @ + 1, !.routing = @ + 1,
        !.revision = 0, !.humanRevision = 0, !.nextOrdinal = 1,
        !.watermark = watermark]

resetGuildConversation ==
    LET c == conversation.channel
    IN /\ conversation.epoch < MaxEpoch
       /\ turn' = EndedTurn({conversation.run}, "cancelled")
       /\ run' = StaleRuns({conversation.run})
       /\ outbox' = SupersededReplies
       /\ IF c = None
          THEN /\ UNCHANGED channelState
               /\ conversation' = NewEpoch(conversation.watermark)
          ELSE /\ channelState' = [channelState EXCEPT ![c] = RestartedChannel(@)]
               /\ conversation' = NewEpoch(channelState[c].latest)
       /\ UNCHANGED <<mentions, monitored, issued, humanEvents>>

(* Refused while a delivery is unresolved; otherwise a reset whose rows are
   then deleted, channel states included. *)
deleteGuildConversationPrivacyData ==
    /\ conversation.epoch < MaxEpoch
    /\ \A q \in Replies : outbox[q].status \notin Unresolved
    /\ conversation' = NewEpoch(0)
    /\ channelState' = [c \in Channels |-> EmptyChannel]
    /\ mentions' = [c \in Channels |-> {}]
    /\ run' = [r \in Claims |-> NoRun]
    /\ turn' = [r \in Claims |-> NoTurn]
    /\ outbox' = [q \in Replies |-> NoReply]
    /\ humanEvents' = {}
    /\ UNCHANGED <<monitored, issued>>

-----------------------------------------------------------------------------

Controls ==
    \/ \E c \in Channels : setChannelRoles(c)
    \/ \E to \in Channels \cup {None}, logChanged \in BOOLEAN :
            setGuildRouting(to, logChanged)
    \/ resetGuildConversation
    \/ deleteGuildConversationPrivacyData

Next ==
    \/ \E c \in Channels, mention \in BOOLEAN : IngestHuman(c, mention)
    \/ \E c \in Channels : IngestOtherBot(c)
    \/ \E q \in Replies : IngestBotReply(q)
    \/ \E c \in Channels, k \in Claims : claimLoop(c, k)
    \/ \E r \in Claims : LeaseExpires(r)
    \/ \E k \in Claims : getNewestContext(k)
    \/ \E k \in Claims : heartbeat(k)
    \/ \E k \in Claims : recordFrontmanResume(k)
    \/ \E k \in Claims, q \in Replies : enqueueReply(k, q)
    \/ \E k \in Claims : completeLoop(k)
    \/ \E q \in Replies : deliverReply(q)
    \/ Controls

Spec == Init /\ [][Next]_loopVars

-----------------------------------------------------------------------------
(* Properties. *)

ChannelRecord ==
    [generation : Nat, status : {"idle", "running", "error"}, latest : Nat,
     trigger : Nat, completed : Nat, errors : 0..DISCORD_MAX_LOOP_ERROR_ATTEMPTS,
     run : Claims \cup {None}, lease : Leases]

ConversationRecord ==
    [channel : Channels \cup {None}, epoch : Nat, generation : Nat, routing : Nat,
     revision : Nat, humanRevision : Nat, nextOrdinal : Nat,
     run : Claims \cup {None}, token : Claims \cup {None}, lease : Leases,
     watermark : Nat]

RunRecord ==
    [status : RunStatus, chan : Channels \cup {None},
     windowStart : Nat, windowEnd : Nat]

TurnRecord == [stage : TurnStage, epoch : Nat, eligibleThrough : Nat]

FenceRecord ==
    [run : Claims \cup {None}, chan : Channels \cup {None}, generation : Nat,
     epoch : Nat, conversationGeneration : Nat, routing : Nat]

ReplyRecord ==
    [status : ReplyStatus, run : Claims \cup {None}, chan : Channels \cup {None},
     finalizesLoop : BOOLEAN, generation : Nat, epoch : Nat,
     conversationGeneration : Nat, routing : Nat, token : Claims \cup {None},
     consumes : Nat, delivery : Deliveries, begun : BOOLEAN,
     event : EventStatus, ordinal : Nat]

(* Every document has the shape its table declares. *)
TypeOK ==
    /\ channelState \in [Channels -> ChannelRecord]
    /\ mentions \in [Channels -> SUBSET Nat]
    /\ monitored \subseteq Channels
    /\ conversation \in ConversationRecord
    /\ run \in [Claims -> RunRecord]
    /\ turn \in [Claims -> TurnRecord]
    /\ issued \in [Claims -> FenceRecord]
    /\ outbox \in [Replies -> ReplyRecord]
    /\ humanEvents \subseteq [epoch : Nat, ordinal : Nat, chan : Channels, seq : Nat]

(* An assistant message is visible canonical history exactly when Discord has
   confirmed it (ARCHITECTURE.md, "Canonical events"): the event a reply
   reserved is committed for sent and finalized rows and for no other. *)
VisibleIffConfirmed ==
    \A q \in Replies :
        (outbox[q].event = "committed") <=> (outbox[q].status \in Confirmed)

(* After a reset nothing of an older epoch can be sent any more: its rows are
   settled, failed, cancelled, or wait for reconciliation without a lease. *)
OldEpochQuiet ==
    \A q \in Replies :
        (outbox[q].status # "absent" /\ outbox[q].epoch # conversation.epoch)
        => /\ outbox[q].status \notin {"pending", "delivery_uncertain"}
           /\ outbox[q].delivery = "none"

(* What may still reach Discord belongs to a run that is not over: every end of
   a run, an error, a suppression, a takeover, a reset or a role change, fails
   its pending rows and sets its uncertain ones aside.  And a run never has two
   such finals, however often it was recovered and whichever of its two final
   keys, the reply and the failure closure, were used. *)
ActiveRunsSpeakOnce ==
    /\ \A q \in Replies :
        outbox[q].status \in {"pending", "delivery_uncertain"}
        => run[outbox[q].run].status = "active"
    /\ \A p, q \in Finals :
        /\ p # q
        /\ outbox[p].run = outbox[q].run
        => ~ (outbox[p].status \in Unsettled /\ outbox[q].status \in Unsettled)

(* DEC-005 (docs/personality.md): at most one turn of the guild is open, and
   it is the one the conversation names. *)
OpenTurnIsCurrent ==
    \A r \in Claims : turn[r].stage \in OpenStages => conversation.run = r

(* A channel's triggers are worked off in windows that neither skip nor repeat
   a message: the window of the active run starts right after the completed
   cursor and ends at or before the trigger, whatever was ingested or recovered
   meanwhile, and no message is the subject of two completed turns. *)
WindowsInOrder ==
    /\ \A c \in Channels :
        LET s == channelState[c]
        IN s.run # None /\ run[s.run].status = "active"
           => /\ run[s.run].chan = c
              /\ run[s.run].windowStart = s.completed + 1
              /\ run[s.run].windowEnd \in run[s.run].windowStart..s.trigger
    /\ \A r1, r2 \in Claims :
        /\ r1 # r2
        /\ run[r1].status = "completed" /\ run[r2].status = "completed"
        /\ run[r1].chan = run[r2].chan
        => \/ run[r1].windowEnd < run[r2].windowStart
           \/ run[r2].windowEnd < run[r1].windowStart

(* A pending reply of the turn in progress carries the turn's present fence,
   also after a recovery.  Otherwise no worker could ever send it, and the turn
   could never complete either ("pending_outbox"). *)
PendingRepliesDeliverable ==
    \A q \in Replies :
        LET o == outbox[q]
        IN /\ o.status = "pending"
           /\ o.run = conversation.run
           /\ o.run = channelState[o.chan].run
           => ReplyFence(o)

(* An explicit trigger is consumed only by a completed turn whose window holds
   it: a turn's newest context stops short of the next one. *)
ExplicitTriggersGetTurns ==
    [][\A c \in Channels : \A m \in mentions[c] :
        /\ channelState[c].completed < m
        /\ m <= channelState'[c].completed
        /\ channelState'[c].generation = channelState[c].generation
        => \E r \in Claims :
            /\ run[r].status = "active" /\ run'[r].status = "completed"
            /\ run[r].chan = c
            /\ m \in run[r].windowStart..run[r].windowEnd]_loopVars

-----------------------------------------------------------------------------
(* The loop implements the guild's turns.  A turn is in progress from its claim
   until the conversation lets it go, whoever carries it and even if a draft at
   "suppressed" awaits its completion; from then on it is over, at one of the
   terminal stages and for good: no late heartbeat, context, draft or reply of
   a lost worker brings it back.  A reply is visible once its event is
   committed. *)

TurnInProgress(r) == turn[r].stage # "absent" /\ conversation.run = r

TurnOver(r) == turn[r].stage \notin OpenStages \cup {"absent"} /\ conversation.run # r

Turns == INSTANCE GuildTurns WITH
    Turns <- Claims,
    open <- {r \in Claims : TurnInProgress(r)},
    over <- {r \in Claims : TurnOver(r)},
    visible <- {q \in Replies : outbox[q].event = "committed"}

ImplementsGuildTurns == Turns!Spec

=============================================================================
