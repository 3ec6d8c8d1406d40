------------------------------ MODULE DiscordLoopProofs ------------------------------
(***************************************************************************)
(* Proofs about DiscordLoop for every value of its constants.              *)
(*                                                                         *)
(* Types: TypeOK is not inductive, since an action that works under a      *)
(* fence, or on a row, needs to know that they name a channel and a run.   *)
(*                                                                         *)
(* The reply outbox: what is visible history is what Discord confirmed,    *)
(* and a superseded epoch can send nothing.  Both say something of one row *)
(* and the conversation's epoch, so the invariant is a predicate of a row, *)
(* kept by each way a mutation may rewrite a row.                          *)
(*                                                                         *)
(* The turns: at most one is open, the one the conversation's lease names, *)
(* and the loop implements GuildTurns.  OpenTurnIsCurrent alone is         *)
(* inductive.  The refinement needs more: that the turn the conversation   *)
(* names is open or suppressed by its draft, so that a completion ends it, *)
(* and that no turn has the name of a claim nobody made, so that claiming  *)
(* it is a Begin.                                                          *)
(*                                                                         *)
(* Runs, windows, cutoffs and replies: LoopInv says whose names the        *)
(* documents hold (NamesInv), that cursors and windows line up             *)
(* (WindowsInv), that no cutoff reaches past the next explicit trigger     *)
(* (CutoffsInv), and that what may still be sent carries the present fence *)
(* of a run at work (RepliesInv).  Most steps only take claims to be       *)
(* current away; LoopKept states that once, and one lemma each shows that  *)
(* it keeps the invariant.  The others, a claim, an enqueued reply and a   *)
(* privacy deletion, are taken one by one.                                 *)
(***************************************************************************)
EXTENDS DiscordLoop, TLAPS

Sendable == {"pending", "delivery_uncertain"}

(* A row nobody enqueued is blank; any other names its run and channel and has
   reserved an event; only a row that may be sent is leased for delivery. *)
ReplyShape(o) ==
    /\ o.status = "absent" => o = NoReply
    /\ o.status # "absent" => /\ o.run \in Claims
                              /\ o.chan \in Channels
                              /\ o.event # "none"
    /\ o.delivery # "none" => o.status \in Sendable

WellFormed(o) == o \in ReplyRecord /\ ReplyShape(o)

FencesNameChannels ==
    \A k \in Claims : issued[k].run # None => issued[k].chan \in Channels

TypeInv ==
    /\ TypeOK
    /\ \A q \in Replies : ReplyShape(outbox[q])
    /\ FencesNameChannels

-----------------------------------------------------------------------------
(* The records the operators of the model return. *)

LEMMA NoReplyWellFormed == WellFormed(NoReply)
BY DEF WellFormed, NoReply, ReplyShape, ReplyRecord, ReplyStatus, Deliveries, EventStatus

LEMMA InvalidatedWellFormed ==
    ASSUME NEW o, WellFormed(o)
    PROVE  WellFormed(Invalidated(o))
BY DEF WellFormed, Invalidated, ReplyShape, Sendable, NoReply,
       ReplyRecord, ReplyStatus, Deliveries, EventStatus

LEMMA SupersededWellFormed ==
    ASSUME NEW o, WellFormed(o)
    PROVE  WellFormed(Superseded(o))
<1>. DEFINE voided == [o EXCEPT !.event = IF @ = "pending" THEN "failed" ELSE @]
<1>1. WellFormed(voided) /\ voided.status = o.status
  <2>1. voided \in ReplyRecord /\ voided.status = o.status
    BY DEF WellFormed, ReplyRecord, EventStatus
  <2>2. o.status = "absent" => voided = NoReply
    <3>1. [NoReply EXCEPT !.event = IF @ = "pending" THEN "failed" ELSE @] = NoReply
      BY DEF NoReply
    <3>. QED
      BY <3>1, Zenon DEF WellFormed, ReplyShape
  <2>3. o.status # "absent" => /\ voided.run \in Claims
                               /\ voided.chan \in Channels
                               /\ voided.event # "none"
    BY DEF WellFormed, ReplyShape, ReplyRecord
  <2>4. voided.delivery = o.delivery
    BY DEF WellFormed, ReplyRecord
  <2>. QED
    BY <2>1, <2>2, <2>3, <2>4 DEF WellFormed, ReplyShape
<1>2. CASE o.status = "pending"
  <2>1. Superseded(o) = [voided EXCEPT !.status = "cancelled", !.delivery = "none"]
    BY <1>2 DEF Superseded
  <2>. HIDE DEF voided
  <2>. QED
    BY <1>1, <1>2, <2>1 DEF WellFormed, ReplyShape, ReplyRecord, ReplyStatus, Deliveries
<1>3. CASE o.status = "delivery_uncertain"
  <2>1. Superseded(o) = [voided EXCEPT !.status = "needs_reconciliation",
                                       !.delivery = "none"]
    BY <1>3 DEF Superseded
  <2>. HIDE DEF voided
  <2>. QED
    BY <1>1, <1>3, <2>1 DEF WellFormed, ReplyShape, ReplyRecord, ReplyStatus, Deliveries
<1>4. CASE o.status \notin Sendable
  BY <1>1, <1>4 DEF Superseded, Sendable
<1>. QED
  BY <1>2, <1>3, <1>4 DEF Sendable

LEMMA CommittedWellFormed ==
    ASSUME NEW o, WellFormed(o), o.status # "absent"
    PROVE  WellFormed(Committed(Sent(o)))
BY DEF WellFormed, Committed, Sent, ReplyShape, Sendable,
       ReplyRecord, ReplyStatus, Deliveries, EventStatus

LEMMA ClearedLoopType ==
    ASSUME NEW s \in ChannelRecord
    PROVE  ClearedLoop(s) \in ChannelRecord
BY DEF ClearedLoop, ChannelRecord, Leases

LEMMA RestartedType ==
    ASSUME NEW s \in ChannelRecord
    PROVE  RestartedChannel(s) \in ChannelRecord
<1>. DEFINE t == ClearedLoop(s)
<1>1. t \in ChannelRecord
  BY ClearedLoopType
<1>2. /\ s.latest \in Nat
      /\ t.generation + 1 \in Nat
  BY <1>1 DEF ChannelRecord
<1>3. [t EXCEPT !.generation = @ + 1, !.status = "idle",
                !.trigger = s.latest, !.completed = s.latest] \in ChannelRecord
  <2>. HIDE DEF t
  <2>. QED  BY <1>1, <1>2 DEF ChannelRecord
<1>. QED
  BY <1>3 DEF RestartedChannel

LEMMA ClearedConversationType ==
    ASSUME NEW v \in ConversationRecord
    PROVE  ClearedConversation(v) \in ConversationRecord
BY DEF ClearedConversation, ConversationRecord, Leases

LEMMA ErrorCountType ==
    ASSUME NEW n \in 0..DISCORD_MAX_LOOP_ERROR_ATTEMPTS, NEW retryable \in BOOLEAN
    PROVE  discordNextLoopErrorCount(n, retryable) \in 0..DISCORD_MAX_LOOP_ERROR_ATTEMPTS
BY ErrorAssumption DEF discordNextLoopErrorCount, Smaller

(* The documents that the other collections of a transaction are built from. *)
LEMMA CommitRevisionType ==
    ASSUME TypeOK, NEW o \in ReplyRecord
    PROVE  CommitRevision(o) \in ConversationRecord
BY DEF CommitRevision, TypeOK, ConversationRecord, Leases

LEMMA ReserveOrdinalType ==
    ASSUME TypeOK
    PROVE  ReserveOrdinal(conversation) \in ConversationRecord
BY DEF ReserveOrdinal, TypeOK, ConversationRecord

LEMMA StaleRunsType ==
    ASSUME TypeOK, NEW runs
    PROVE  StaleRuns(runs) \in [Claims -> RunRecord]
BY DEF StaleRuns, TypeOK, RunRecord, RunStatus

LEMMA EndedTurnType ==
    ASSUME TypeOK, NEW runs, NEW stage \in TurnStage
    PROVE  EndedTurn(runs, stage) \in [Claims -> TurnRecord]
BY DEF EndedTurn, TypeOK, TurnRecord, TurnStage, OpenStages

(* A stage recorded for a turn in progress touches nothing else. *)
LEMMA ReopenedTurn ==
    ASSUME TypeOK, NEW r \in Claims
    PROVE  /\ Reopened(r) \in [Claims -> TurnRecord]
           /\ Reopened(r)[r].stage \in OpenStages
           /\ \A p \in Claims : /\ p # r => Reopened(r)[p] = turn[p]
                                /\ Reopened(r)[p].eligibleThrough = turn[p].eligibleThrough
<1>1. turn[r] \in TurnRecord /\ turn \in [Claims -> TurnRecord]
  BY DEF TypeOK
<1>. DEFINE stage == IF turn[r].stage = "open" THEN "open" ELSE "reopened"
<1>2. stage \in OpenStages /\ stage \in TurnStage
  BY DEF OpenStages, TurnStage
<1>3. Reopened(r) = [turn EXCEPT ![r].stage = stage]
  BY DEF Reopened
<1>. HIDE DEF stage
<1>. QED
  BY <1>1, <1>2, <1>3 DEF TurnRecord

LEMMA StoreBotMessageType ==
    ASSUME TypeOK, NEW c \in Channels, StoreBotMessage(c)
    PROVE  channelState' \in [Channels -> ChannelRecord]
<1>1. channelState[c] \in ChannelRecord
  BY DEF TypeOK
<1>2. [channelState[c] EXCEPT !.latest = @ + 1] \in ChannelRecord
  BY <1>1 DEF ChannelRecord
<1>. QED
  BY <1>2 DEF TypeOK, StoreBotMessage

LEMMA TypeInvOutbox ==
    ASSUME TypeInv, NEW q \in Replies
    PROVE  WellFormed(outbox[q])
BY DEF TypeInv, TypeOK, WellFormed

LEMMA InvalidatedOutbox ==
    ASSUME TypeInv, NEW runs
    PROVE  /\ invalidateRunOutbox(runs) \in [Replies -> ReplyRecord]
           /\ \A q \in Replies : ReplyShape(invalidateRunOutbox(runs)[q])
<1>1. \A q \in Replies : WellFormed(outbox[q]) /\ WellFormed(Invalidated(outbox[q]))
  BY TypeInvOutbox, InvalidatedWellFormed
<1>. QED
  BY <1>1 DEF invalidateRunOutbox, WellFormed


-----------------------------------------------------------------------------
(* Ingestion. *)

LEMMA IngestHumanTypes ==
    ASSUME TypeInv, NEW c \in Channels, NEW mention \in BOOLEAN, IngestHuman(c, mention)
    PROVE  TypeInv'
<1>1. channelState[c] \in ChannelRecord /\ conversation \in ConversationRecord
  BY DEF TypeInv, TypeOK
<1>2. channelState' \in [Channels -> ChannelRecord]
  <2>. DEFINE s == channelState[c]
              running == s.lease = "live"
              advances == c \in monitored \/ mention
              t == [s EXCEPT !.latest = @ + 1,
                             !.trigger = IF advances THEN s.latest + 1 ELSE @,
                             !.status = IF advances /\ ~running THEN "idle" ELSE @,
                             !.errors = IF advances /\ ~running THEN 0 ELSE @]
  <2>1. channelState' = [channelState EXCEPT ![c] = t]
    BY DEF IngestHuman
  <2>2. /\ s \in ChannelRecord
        /\ s.latest + 1 \in Nat
        /\ (IF advances THEN s.latest + 1 ELSE s.trigger) \in Nat
        /\ (IF advances /\ ~running THEN "idle" ELSE s.status)
                \in {"idle", "running", "error"}
        /\ (IF advances /\ ~running THEN 0 ELSE s.errors)
                \in 0..DISCORD_MAX_LOOP_ERROR_ATTEMPTS
    BY <1>1, ErrorAssumption DEF ChannelRecord
  <2>3. t \in ChannelRecord
    <3>. HIDE DEF s, advances, running
    <3>. QED  BY <2>2 DEF ChannelRecord
  <2>. QED
    BY <2>1, <2>3 DEF TypeInv, TypeOK
<1>3. mentions' \in [Channels -> SUBSET Nat]
  BY <1>1 DEF TypeInv, TypeOK, IngestHuman, ChannelRecord
<1>4. conversation' \in ConversationRecord
  <2>. DEFINE v == ReserveOrdinal(conversation)
  <2>1. \/ conversation' = [v EXCEPT !.revision = @ + 1, !.humanRevision = @ + 1]
        \/ conversation' = conversation
    BY DEF IngestHuman
  <2>2. v \in ConversationRecord
    BY ReserveOrdinalType DEF TypeInv
  <2>3. [v EXCEPT !.revision = @ + 1, !.humanRevision = @ + 1] \in ConversationRecord
    <3>. HIDE DEF v
    <3>1. v.revision + 1 \in Nat /\ v.humanRevision + 1 \in Nat
      BY <2>2 DEF ConversationRecord
    <3>. QED  BY <2>2, <3>1 DEF ConversationRecord
  <2>. QED
    BY <1>1, <2>1, <2>3
<1>5. humanEvents' \subseteq [epoch : Nat, ordinal : Nat, chan : Channels, seq : Nat]
  BY <1>1 DEF TypeInv, TypeOK, IngestHuman, ChannelRecord, ConversationRecord
<1>6. UNCHANGED <<monitored, run, turn, issued, outbox>>
  BY DEF IngestHuman
<1>. QED
  BY <1>2, <1>3, <1>4, <1>5, <1>6 DEF TypeInv, TypeOK, FencesNameChannels

LEMMA IngestOtherBotTypes ==
    ASSUME TypeInv, NEW c \in Channels, IngestOtherBot(c)
    PROVE  TypeInv'
<1>1. channelState' \in [Channels -> ChannelRecord]
  BY DEF TypeInv, TypeOK, IngestOtherBot, ChannelRecord
<1>. QED
  BY <1>1 DEF TypeInv, TypeOK, FencesNameChannels, IngestOtherBot

(* A confirmation, whichever way it arrives. *)
Confirmation(q) ==
    /\ outbox[q].status # "absent"
    /\ StoreBotMessage(outbox[q].chan)
    /\ outbox' = [outbox EXCEPT ![q] = Committed(Sent(outbox[q]))]
    /\ conversation' = CommitRevision(outbox[q])
    /\ UNCHANGED <<mentions, monitored, run, turn, issued, humanEvents>>

LEMMA ConfirmationTypes ==
    ASSUME TypeInv, NEW q \in Replies, Confirmation(q)
    PROVE  TypeInv'
<1>1. WellFormed(outbox[q]) /\ WellFormed(Committed(Sent(outbox[q])))
  BY TypeInvOutbox, CommittedWellFormed DEF Confirmation
<1>2. channelState' \in [Channels -> ChannelRecord]
  BY <1>1, StoreBotMessageType DEF TypeInv, Confirmation, WellFormed, ReplyShape
<1>3. conversation' \in ConversationRecord
  BY <1>1, CommitRevisionType DEF TypeInv, Confirmation, WellFormed
<1>4. /\ outbox' \in [Replies -> ReplyRecord]
      /\ \A p \in Replies : ReplyShape(outbox'[p])
  BY <1>1 DEF TypeInv, TypeOK, Confirmation, WellFormed
<1>5. UNCHANGED <<mentions, monitored, run, turn, issued, humanEvents>>
  BY DEF Confirmation
<1>. QED
  BY <1>2, <1>3, <1>4, <1>5 DEF TypeInv, TypeOK, FencesNameChannels

-----------------------------------------------------------------------------
(* Claims and leases. *)

LEMMA AcquireLeasesTypes ==
    ASSUME TypeInv, NEW c \in Channels, NEW k \in Claims, NEW r \in Claims,
           AcquireLeases(c, k, r)
    PROVE  /\ channelState' \in [Channels -> ChannelRecord]
           /\ conversation' \in ConversationRecord
           /\ issued' \in [Claims -> FenceRecord]
           /\ FencesNameChannels'
           /\ UNCHANGED <<mentions, monitored, humanEvents>>
<1>. DEFINE s == channelState[c]
<1>1. s \in ChannelRecord /\ conversation \in ConversationRecord
  BY DEF TypeInv, TypeOK
<1>2. channelState' \in [Channels -> ChannelRecord]
  <2>1. s.generation + 1 \in Nat
    BY <1>1 DEF ChannelRecord
  <2>2. [s EXCEPT !.generation = @ + 1, !.status = "running",
                  !.run = r, !.lease = "live"] \in ChannelRecord
    <3>. HIDE DEF s
    <3>. QED  BY <1>1, <2>1 DEF ChannelRecord, Leases
  <2>. QED
    BY <2>2 DEF AcquireLeases, TypeInv, TypeOK
<1>3. conversation' \in ConversationRecord
  <2>1. conversation.generation + 1 \in Nat
    BY <1>1 DEF ConversationRecord
  <2>. QED
    BY <1>1, <2>1 DEF AcquireLeases, ConversationRecord, Leases
<1>4. NewFence(c, k, r) \in FenceRecord
  BY <1>1 DEF NewFence, FenceRecord, ChannelRecord, ConversationRecord
<1>5. issued' \in [Claims -> FenceRecord] /\ FencesNameChannels'
  BY <1>4 DEF AcquireLeases, TypeInv, TypeOK, FencesNameChannels, NewFence
<1>. QED
  BY <1>2, <1>3, <1>5 DEF AcquireLeases

LEMMA RefencedWellFormed ==
    ASSUME TypeInv, NEW c \in Channels, NEW k \in Claims, NEW o,
           WellFormed(o), o.status = "pending"
    PROVE  WellFormed(Refenced(o, NewFence(c, k, o.run), k))
<1>. DEFINE f == NewFence(c, k, o.run)
<1>1. f.generation \in Nat /\ f.conversationGeneration \in Nat /\ f.routing \in Nat
  BY DEF NewFence, TypeInv, TypeOK, ChannelRecord, ConversationRecord
<1>. HIDE DEF f
<1>2. WellFormed(Refenced(o, f, k))
  BY <1>1 DEF WellFormed, Refenced, ReplyShape, ReplyRecord
<1>. QED
  BY <1>2 DEF f

LEMMA ClaimLoopTypes ==
    ASSUME TypeInv, NEW c \in Channels, NEW k \in Claims, claimLoop(c, k)
    PROVE  TypeInv'
<1>1. CASE RecoverLoop(c, k)
  <2>. DEFINE r == channelState[c].run
  <2>1. r \in Claims
    BY <1>1 DEF RecoverLoop, RecoverableExpiredTurn, TypeInv, TypeOK, ChannelRecord
  <2>2. AcquireLeases(c, k, r) /\ UNCHANGED <<run, turn>>
    BY <1>1 DEF RecoverLoop
  <2>3. \A q \in Replies : WellFormed(outbox'[q])
    BY <1>1, TypeInvOutbox, RefencedWellFormed DEF RecoverLoop
  <2>4. outbox' = [q \in Replies |-> outbox'[q]]
    BY <1>1 DEF RecoverLoop
  <2>5. /\ outbox' \in [Replies -> ReplyRecord]
        /\ \A q \in Replies : ReplyShape(outbox'[q])
    BY <2>3, <2>4 DEF WellFormed
  <2>. QED
    BY <2>1, <2>2, <2>5, AcquireLeasesTypes DEF TypeInv, TypeOK
<1>2. CASE StartLoop(c, k)
  <2>. DEFINE old == {channelState[c].run} \ {None}
              window == NextWindow(c)
  <2>1. /\ AcquireLeases(c, k, k)
        /\ outbox' = invalidateRunOutbox(old)
        /\ run' = [StaleRuns(old) EXCEPT ![k] =
                    [status |-> "active", chan |-> c,
                     windowStart |-> window.start, windowEnd |-> window.end]]
        /\ turn' = [EndedTurn({conversation.run}, "failed") EXCEPT ![k] =
                    [stage |-> "open", epoch |-> conversation.epoch,
                     eligibleThrough |-> 0]]
    BY <1>2 DEF StartLoop
  <2>2. channelState[c] \in ChannelRecord /\ conversation \in ConversationRecord
    BY DEF TypeInv, TypeOK
  <2>3. window.start \in Nat /\ window.end \in Nat
    BY <2>2, WindowAssumption
       DEF NextWindow, messageWindow, Smaller, ChannelRecord
  <2>. HIDE DEF old, window
  <2>4. run' \in [Claims -> RunRecord]
    BY <2>1, <2>3, StaleRunsType DEF TypeInv, RunRecord, RunStatus
  <2>5. turn' \in [Claims -> TurnRecord]
    BY <2>1, <2>2, EndedTurnType
       DEF TypeInv, TurnRecord, TurnStage, OpenStages, ConversationRecord
  <2>. QED
    BY <2>1, <2>4, <2>5, AcquireLeasesTypes, InvalidatedOutbox DEF TypeInv, TypeOK
<1>. QED
  BY <1>1, <1>2 DEF claimLoop

LEMMA LeaseExpiresTypes ==
    ASSUME TypeInv, NEW r \in Claims, LeaseExpires(r)
    PROVE  TypeInv'
<1>1. channelState' \in [Channels -> ChannelRecord]
  BY DEF LeaseExpires, TypeInv, TypeOK, ChannelRecord, Leases
<1>2. conversation' \in ConversationRecord
  BY DEF LeaseExpires, TypeInv, TypeOK, ConversationRecord, Leases
<1>. QED
  BY <1>1, <1>2 DEF LeaseExpires, TypeInv, TypeOK, FencesNameChannels

-----------------------------------------------------------------------------
(* Work under a fence. *)

(* The run and the channel a claim was answered with, wherever a mutation has
   checked that it was answered. *)
LEMMA FencedDocuments ==
    ASSUME TypeInv, NEW k \in Claims, issued[k].run # None
    PROVE  /\ issued[k].run \in Claims
           /\ issued[k].chan \in Channels
           /\ issued[k].generation \in Nat
           /\ channelState[issued[k].chan] \in ChannelRecord
           /\ run[issued[k].run] \in RunRecord
           /\ turn[issued[k].run] \in TurnRecord
BY DEF TypeInv, TypeOK, FencesNameChannels, FenceRecord

LEMMA EndedDocuments ==
    ASSUME TypeOK, NEW r \in Claims, NEW status \in RunStatus, NEW stage \in TurnStage
    PROVE  /\ [run EXCEPT ![r].status = status] \in [Claims -> RunRecord]
           /\ [turn EXCEPT ![r].stage = stage] \in [Claims -> TurnRecord]
<1>1. run[r] \in RunRecord /\ turn[r] \in TurnRecord
  BY DEF TypeOK
<1>2. /\ [run[r] EXCEPT !.status = status] \in RunRecord
      /\ [turn[r] EXCEPT !.stage = stage] \in TurnRecord
  BY <1>1 DEF RunRecord, TurnRecord
<1>. QED
  BY <1>2 DEF TypeOK

LEMMA NewestContextTypes ==
    ASSUME TypeInv, NEW k \in Claims, getNewestContext(k)
    PROVE  TypeInv'
<1>1. PICK through \in 0..channelState[issued[k].chan].latest :
            turn' = [Reopened(issued[k].run) EXCEPT
                        ![issued[k].run].eligibleThrough = through]
  BY DEF getNewestContext
<1>2. issued[k].run \in Claims /\ through \in Nat
  BY FencedDocuments DEF getNewestContext, ChannelRecord
<1>3. Reopened(issued[k].run) \in [Claims -> TurnRecord]
  BY <1>2, ReopenedTurn DEF TypeInv
<1>4. turn' \in [Claims -> TurnRecord]
  BY <1>1, <1>2, <1>3 DEF TurnRecord
<1>. QED
  BY <1>4 DEF getNewestContext, TypeInv, TypeOK, FencesNameChannels

LEMMA RecordedStageTypes ==
    ASSUME TypeInv, NEW k \in Claims, heartbeat(k) \/ recordFrontmanResume(k)
    PROVE  TypeInv'
<1>1. issued[k].run \in Claims
  BY FencedDocuments DEF heartbeat, recordFrontmanResume, LiveFence, Fence
<1>2. turn' \in [Claims -> TurnRecord]
  <2>1. CASE heartbeat(k)
    BY <1>1, <2>1, ReopenedTurn DEF heartbeat, TypeInv
  <2>2. CASE recordFrontmanResume(k)
    BY <1>1, <2>2 DEF recordFrontmanResume, TypeInv, TypeOK, TurnRecord, TurnStage
  <2>. QED
    BY <2>1, <2>2
<1>. QED
  BY <1>2 DEF heartbeat, recordFrontmanResume, TypeInv, TypeOK, FencesNameChannels

LEMMA CutoffType ==
    ASSUME TypeInv, NEW k \in Claims, issued[k].run # None
    PROVE  ValidCutoffs(k) \subseteq Nat
BY FencedDocuments DEF ValidCutoffs, RunRecord, TurnRecord

LEMMA EnqueueReplyTypes ==
    ASSUME TypeInv, NEW k \in Claims, NEW q \in Replies, enqueueReply(k, q)
    PROVE  TypeInv'
<1>1. issued[k].run # None
  BY DEF enqueueReply, LiveFence, Fence
<1>2. PICK through \in ValidCutoffs(k) :
            outbox' = [outbox EXCEPT ![q] = NewReply(k, q, through)]
  BY DEF enqueueReply
<1>3. WellFormed(NewReply(k, q, through))
  <2>1. through \in Nat /\ conversation \in ConversationRecord
    BY <1>1, CutoffType DEF TypeInv, TypeOK
  <2>2. (IF q \in Finals THEN through ELSE 0) \in Nat
    BY <2>1
  <2>. QED
    BY <1>1, <2>1, <2>2, FencedDocuments
       DEF NewReply, WellFormed, ReplyShape, Sendable, ReplyRecord, ReplyStatus,
           Deliveries, EventStatus, ConversationRecord
<1>4. /\ outbox' \in [Replies -> ReplyRecord]
      /\ \A p \in Replies : ReplyShape(outbox'[p])
  BY <1>2, <1>3 DEF TypeInv, TypeOK, WellFormed
<1>5. conversation' \in ConversationRecord
  BY ReserveOrdinalType DEF TypeInv, enqueueReply
<1>6. turn' \in [Claims -> TurnRecord]
  BY <1>1, FencedDocuments, ReopenedTurn DEF TypeInv, enqueueReply
<1>. QED
  BY <1>4, <1>5, <1>6 DEF enqueueReply, TypeInv, TypeOK, FencesNameChannels

LEMMA ReleaseLoopTypes ==
    ASSUME TypeInv, NEW k \in Claims, issued[k].run # None,
           NEW s \in ChannelRecord, ReleaseLoop(k, s)
    PROVE  /\ channelState' \in [Channels -> ChannelRecord]
           /\ conversation' \in ConversationRecord
           /\ UNCHANGED <<mentions, monitored, issued, humanEvents>>
BY FencedDocuments, ClearedLoopType, ClearedConversationType
   DEF ReleaseLoop, TypeInv, TypeOK

LEMMA FailLoopTypes ==
    ASSUME TypeInv, NEW k \in Claims, NEW retryable \in BOOLEAN, FailLoop(k, retryable)
    PROVE  TypeInv'
<1>. DEFINE r == issued[k].run
            s == channelState[issued[k].chan]
            errors == discordNextLoopErrorCount(s.errors, retryable)
<1>1. r # None /\ r \in Claims /\ s \in ChannelRecord
  BY FencedDocuments DEF FailLoop, CompleteGuard, Fence
<1>2. ReleaseLoop(k, [s EXCEPT !.status = "error", !.errors = errors])
  BY DEF FailLoop
<1>3. errors \in 0..DISCORD_MAX_LOOP_ERROR_ATTEMPTS
  BY <1>1, ErrorCountType DEF ChannelRecord
<1>. HIDE DEF errors, s
<1>4. [s EXCEPT !.status = "error", !.errors = errors] \in ChannelRecord
  BY <1>1, <1>3 DEF ChannelRecord
<1>5. /\ channelState' \in [Channels -> ChannelRecord]
      /\ conversation' \in ConversationRecord
      /\ UNCHANGED <<mentions, monitored, issued, humanEvents>>
  BY <1>1, <1>2, <1>4, ReleaseLoopTypes
<1>6. run' \in [Claims -> RunRecord] /\ turn' \in [Claims -> TurnRecord]
  BY <1>1, EndedDocuments DEF FailLoop, TypeInv, RunStatus, TurnStage
<1>7. outbox' = invalidateRunOutbox({r})
  BY DEF FailLoop
<1>. QED
  BY <1>5, <1>6, <1>7, InvalidatedOutbox DEF TypeInv, TypeOK, FencesNameChannels

LEMMA FinalizedOutbox ==
    ASSUME TypeInv, NEW r
    PROVE  /\ FinalizedReplies(r) \in [Replies -> ReplyRecord]
           /\ \A q \in Replies : ReplyShape(FinalizedReplies(r)[q])
<1>1. \A q \in Replies :
        /\ WellFormed(outbox[q])
        /\ outbox[q].status = "sent"
                => WellFormed([outbox[q] EXCEPT !.status = "finalized"])
  BY TypeInvOutbox DEF WellFormed, ReplyShape, Sendable, ReplyRecord, ReplyStatus
<1>. QED
  BY <1>1 DEF FinalizedReplies, WellFormed

LEMMA FinishLoopTypes ==
    ASSUME TypeInv, NEW k \in Claims, NEW suppress \in BOOLEAN, FinishLoop(k, suppress)
    PROVE  TypeInv'
<1>. DEFINE r == issued[k].run
            s == channelState[issued[k].chan]
<1>1. r # None /\ r \in Claims /\ s \in ChannelRecord
  BY FencedDocuments DEF FinishLoop, CompleteGuard, Fence
<1>2. PICK cutoff \in ValidCutoffs(k) : \E through \in ConsumedThrough(k, cutoff) :
            ReleaseLoop(k, [s EXCEPT !.status = "idle", !.errors = 0,
                                     !.completed = Larger(@, through)])
  BY DEF FinishLoop
<1>3. ConsumedThrough(k, cutoff) \subseteq Nat
  <2>1. cutoff \in Nat
    BY <1>1, CutoffType
  <2>2. \A q \in Replies : outbox[q].consumes \in Nat
    BY DEF TypeInv, TypeOK, ReplyRecord
  <2>. QED
    BY <2>1, <2>2 DEF ConsumedThrough, SentFinals, Replies
<1>4. PICK through \in Nat :
            ReleaseLoop(k, [s EXCEPT !.status = "idle", !.errors = 0,
                                     !.completed = Larger(@, through)])
  BY <1>2, <1>3
<1>. DEFINE completed == Larger(s.completed, through)
<1>5. completed \in Nat /\ 0 \in 0..DISCORD_MAX_LOOP_ERROR_ATTEMPTS
  BY <1>1, ErrorAssumption DEF Larger, ChannelRecord
<1>6. ReleaseLoop(k, [s EXCEPT !.status = "idle", !.errors = 0, !.completed = completed])
  BY <1>4
<1>. HIDE DEF completed, s
<1>7. [s EXCEPT !.status = "idle", !.errors = 0, !.completed = completed] \in ChannelRecord
  BY <1>1, <1>5 DEF ChannelRecord
<1>8. /\ channelState' \in [Channels -> ChannelRecord]
      /\ conversation' \in ConversationRecord
      /\ UNCHANGED <<mentions, monitored, issued, humanEvents>>
  BY <1>1, <1>6, <1>7, ReleaseLoopTypes
<1>9. run' \in [Claims -> RunRecord] /\ turn' \in [Claims -> TurnRecord]
  BY <1>1, EndedDocuments DEF FinishLoop, TypeInv, RunStatus, TurnStage
<1>10. /\ outbox' \in [Replies -> ReplyRecord]
       /\ \A q \in Replies : ReplyShape(outbox'[q])
  BY InvalidatedOutbox, FinalizedOutbox DEF FinishLoop
<1>. QED
  BY <1>8, <1>9, <1>10 DEF TypeInv, TypeOK, FencesNameChannels

-----------------------------------------------------------------------------
(* Delivery. *)

LEMMA ConfirmedDeliveries ==
    ASSUME TypeInv, NEW q \in Replies, IngestBotReply(q) \/ AcknowledgeSent(q)
    PROVE  Confirmation(q)
<1>1. outbox[q].status # "absent"
  BY DEF IngestBotReply, AcknowledgeSent, TypeInv, ReplyShape, NoReply
<1>. QED
  BY <1>1 DEF IngestBotReply, AcknowledgeSent, Confirmation

(* The other deliveries write one row and nothing else. *)
RowWritten(q, o) ==
    /\ outbox' = [outbox EXCEPT ![q] = o]
    /\ UNCHANGED <<channelState, mentions, monitored, conversation, run, turn,
                   issued, humanEvents>>

LEMMA RowTypes ==
    ASSUME TypeInv, NEW q \in Replies, NEW o, WellFormed(o), RowWritten(q, o)
    PROVE  TypeInv'
BY DEF RowWritten, WellFormed, TypeInv, TypeOK, FencesNameChannels

LEMMA DeliveryTypes ==
    ASSUME TypeInv, NEW q \in Replies, deliverReply(q)
    PROVE  TypeInv'
<1>. DEFINE o == outbox[q]
<1>1. WellFormed(o)
  BY TypeInvOutbox
<1>2. CASE LeaseDelivery(q)
  <2>1. RowWritten(q, [o EXCEPT !.delivery = "leased"]) /\ o.status \in Sendable
    BY <1>2 DEF LeaseDelivery, RowWritten, Sendable
  <2>. HIDE DEF o
  <2>2. WellFormed([o EXCEPT !.delivery = "leased"])
    BY <1>1, <2>1 DEF WellFormed, ReplyShape, Sendable, ReplyRecord, Deliveries
  <2>. QED
    BY <2>1, <2>2, RowTypes
<1>3. CASE DeliveryLeaseLapses(q)
  <2>1. RowWritten(q, [o EXCEPT !.delivery = "lapsed"]) /\ o.delivery = "leased"
    BY <1>3 DEF DeliveryLeaseLapses, RowWritten
  <2>. HIDE DEF o
  <2>2. WellFormed([o EXCEPT !.delivery = "lapsed"])
    BY <1>1, <2>1 DEF WellFormed, ReplyShape, Sendable, ReplyRecord, Deliveries
  <2>. QED
    BY <2>1, <2>2, RowTypes
<1>4. CASE RequireReconciliation(q)
  <2>1. /\ RowWritten(q, [o EXCEPT !.status = "needs_reconciliation", !.delivery = "none"])
        /\ o.status # "absent"
    BY <1>1, <1>4 DEF RequireReconciliation, RowWritten, TypeInv, TypeOK
  <2>. HIDE DEF o
  <2>2. WellFormed([o EXCEPT !.status = "needs_reconciliation", !.delivery = "none"])
    BY <1>1, <2>1 DEF WellFormed, ReplyShape, ReplyRecord, ReplyStatus, Deliveries
  <2>. QED
    BY <2>1, <2>2, RowTypes
<1>5. CASE beginReplyDelivery(q)
  <2>1. /\ RowWritten(q, [o EXCEPT !.status = "delivery_uncertain", !.begun = TRUE])
        /\ o.status # "absent"
    BY <1>1, <1>5 DEF beginReplyDelivery, RowWritten, TypeInv, TypeOK
  <2>. HIDE DEF o
  <2>2. WellFormed([o EXCEPT !.status = "delivery_uncertain", !.begun = TRUE])
    BY <1>1, <2>1 DEF WellFormed, ReplyShape, Sendable, ReplyRecord, ReplyStatus
  <2>. QED
    BY <2>1, <2>2, RowTypes
<1>6. CASE AcknowledgeSent(q)
  BY <1>6, ConfirmedDeliveries, ConfirmationTypes
<1>7. CASE AcknowledgeFailed(q)
  <2>. DEFINE failed == [o EXCEPT !.status = "failed", !.delivery = "none",
                                  !.event = IF @ = "pending" THEN "failed" ELSE @]
  <2>1. RowWritten(q, failed) /\ o.status # "absent"
    BY <1>7 DEF AcknowledgeFailed, AcknowledgeGuard, RowWritten
  <2>. HIDE DEF o
  <2>2. WellFormed(failed)
    BY <1>1, <2>1
       DEF WellFormed, ReplyShape, ReplyRecord, ReplyStatus, Deliveries, EventStatus
  <2>. QED
    BY <2>1, <2>2, RowTypes
<1>8. CASE AcknowledgeUncertain(q)
  <2>1. /\ RowWritten(q, [o EXCEPT !.status = "delivery_uncertain", !.delivery = "none"])
        /\ o.status # "absent"
    BY <1>1, <1>8 DEF AcknowledgeUncertain, AcknowledgeGuard, RowWritten, TypeInv, TypeOK
  <2>. HIDE DEF o
  <2>2. WellFormed([o EXCEPT !.status = "delivery_uncertain", !.delivery = "none"])
    BY <1>1, <2>1 DEF WellFormed, ReplyShape, ReplyRecord, ReplyStatus, Deliveries
  <2>. QED
    BY <2>1, <2>2, RowTypes
<1>. QED
  BY <1>2, <1>3, <1>4, <1>5, <1>6, <1>7, <1>8 DEF deliverReply

-----------------------------------------------------------------------------
(* The owner's controls. *)

LEMMA ApplyRolesTypes ==
    ASSUME TypeInv, NEW roles \in SUBSET Channels, ApplyRoles(roles)
    PROVE  /\ channelState' \in [Channels -> ChannelRecord]
           /\ monitored' \subseteq Channels
           /\ run' \in [Claims -> RunRecord]
           /\ outbox' \in [Replies -> ReplyRecord]
           /\ \A q \in Replies : ReplyShape(outbox'[q])
<1>1. \A c \in Channels :
        /\ channelState[c] \in ChannelRecord
        /\ RestartedChannel(channelState[c]) \in ChannelRecord
  BY RestartedType DEF TypeInv, TypeOK
<1>2. \A c \in Channels :
        [RestartedChannel(channelState[c]) EXCEPT !.errors = 0] \in ChannelRecord
  <2>1. 0 \in 0..DISCORD_MAX_LOOP_ERROR_ATTEMPTS
    BY ErrorAssumption
  <2>2. \A s \in ChannelRecord : [s EXCEPT !.errors = 0] \in ChannelRecord
    BY <2>1 DEF ChannelRecord
  <2>. QED
    BY <1>1, <2>2
<1>3. \A c \in Channels :
        \/ channelState'[c] = [RestartedChannel(channelState[c]) EXCEPT !.errors = 0]
        \/ channelState'[c] = RestartedChannel(channelState[c])
        \/ channelState'[c] = channelState[c]
  BY DEF ApplyRoles
<1>4. channelState' = [c \in Channels |-> channelState'[c]]
  BY DEF ApplyRoles
<1>5. channelState' \in [Channels -> ChannelRecord]
  BY <1>1, <1>2, <1>3, <1>4
<1>. QED
  BY <1>5, StaleRunsType, InvalidatedOutbox DEF ApplyRoles, TypeInv

LEMMA SetChannelRolesTypes ==
    ASSUME TypeInv, NEW c \in Channels, setChannelRoles(c)
    PROVE  TypeInv'
<1>1. monitored \ {c} \in SUBSET Channels /\ monitored \cup {c} \in SUBSET Channels
  BY DEF TypeInv, TypeOK
<1>2. PICK roles \in SUBSET Channels : ApplyRoles(roles)
  BY <1>1 DEF setChannelRoles
<1>. QED
  BY <1>2, ApplyRolesTypes DEF setChannelRoles, TypeInv, TypeOK, FencesNameChannels

LEMMA SetGuildRoutingTypes ==
    ASSUME TypeInv, NEW to \in Channels \cup {None}, NEW logChanged \in BOOLEAN,
           setGuildRouting(to, logChanged)
    PROVE  TypeInv'
<1>. DEFINE v == ClearedConversation(conversation)
            surface == IF conversation.channel # None /\ conversation.channel # to
                       THEN 1 ELSE 0
            rerouted == [v EXCEPT !.channel = to, !.routing = @ + 1, !.generation = @ + 1,
                                  !.revision = @ + surface, !.nextOrdinal = @ + surface]
<1>1. \/ turn' = EndedTurn({conversation.run}, "cancelled") /\ conversation' = rerouted
      \/ UNCHANGED <<turn, conversation>>
  BY DEF setGuildRouting
<1>2. /\ v \in ConversationRecord
      /\ surface \in Nat
  BY ClearedConversationType DEF TypeInv, TypeOK
<1>3. /\ v.routing + 1 \in Nat /\ v.generation + 1 \in Nat
      /\ v.revision + surface \in Nat /\ v.nextOrdinal + surface \in Nat
  BY <1>2 DEF ConversationRecord
<1>4. rerouted \in ConversationRecord
  <2>. HIDE DEF v, surface
  <2>. QED  BY <1>2, <1>3 DEF ConversationRecord
<1>5. conversation' \in ConversationRecord /\ turn' \in [Claims -> TurnRecord]
  BY <1>1, <1>4, EndedTurnType DEF TypeInv, TypeOK, TurnStage
<1>6. ApplyRoles({to} \ {None})
  BY DEF setGuildRouting
<1>. QED
  BY <1>5, <1>6, ApplyRolesTypes
     DEF setGuildRouting, TypeInv, TypeOK, FencesNameChannels

LEMMA NewEpochType ==
    ASSUME TypeOK, NEW watermark \in Nat
    PROVE  NewEpoch(watermark) \in ConversationRecord
<1>. DEFINE v == ClearedConversation(conversation)
<1>1. v \in ConversationRecord
  BY ClearedConversationType DEF TypeOK
<1>2. v.epoch + 1 \in Nat /\ v.generation + 1 \in Nat /\ v.routing + 1 \in Nat
  BY <1>1 DEF ConversationRecord
<1>3. [v EXCEPT !.epoch = @ + 1, !.generation = @ + 1, !.routing = @ + 1,
                !.revision = 0, !.humanRevision = 0, !.nextOrdinal = 1,
                !.watermark = watermark] \in ConversationRecord
  <2>. HIDE DEF v
  <2>. QED  BY <1>1, <1>2 DEF ConversationRecord
<1>. QED
  BY <1>3 DEF NewEpoch

LEMMA SupersededOutbox ==
    ASSUME TypeInv
    PROVE  /\ SupersededReplies \in [Replies -> ReplyRecord]
           /\ \A q \in Replies : ReplyShape(SupersededReplies[q])
<1>1. \A q \in Replies : WellFormed(outbox[q]) /\ WellFormed(Superseded(outbox[q]))
  BY TypeInvOutbox, SupersededWellFormed
<1>. QED
  BY <1>1 DEF SupersededReplies, WellFormed

LEMMA ResetTypes ==
    ASSUME TypeInv, resetGuildConversation
    PROVE  TypeInv'
<1>1. channelState' \in [Channels -> ChannelRecord] /\ conversation' \in ConversationRecord
  <2>. DEFINE c == conversation.channel
  <2>1. CASE c = None
    <3>1. /\ UNCHANGED channelState
          /\ conversation' = NewEpoch(conversation.watermark)
      BY <2>1 DEF resetGuildConversation
    <3>2. conversation.watermark \in Nat
      BY DEF TypeInv, TypeOK, ConversationRecord
    <3>. QED
      BY <3>1, <3>2, NewEpochType DEF TypeInv, TypeOK
  <2>2. CASE c # None
    <3>1. c \in Channels
      BY <2>2 DEF TypeInv, TypeOK, ConversationRecord
    <3>2. channelState[c] \in ChannelRecord /\ channelState[c].latest \in Nat
      BY <3>1 DEF TypeInv, TypeOK, ChannelRecord
    <3>3. /\ channelState' = [channelState EXCEPT ![c] = RestartedChannel(channelState[c])]
          /\ conversation' = NewEpoch(channelState[c].latest)
      BY <2>2 DEF resetGuildConversation
    <3>. QED
      BY <3>1, <3>2, <3>3, RestartedType, NewEpochType DEF TypeInv, TypeOK
  <2>. QED
    BY <2>1, <2>2
<1>2. turn' \in [Claims -> TurnRecord] /\ run' \in [Claims -> RunRecord]
  BY EndedTurnType, StaleRunsType DEF resetGuildConversation, TypeInv, TurnStage
<1>3. outbox' = SupersededReplies /\ UNCHANGED <<mentions, monitored, issued, humanEvents>>
  BY DEF resetGuildConversation
<1>. QED
  BY <1>1, <1>2, <1>3, SupersededOutbox DEF TypeInv, TypeOK, FencesNameChannels

LEMMA EmptyDocuments ==
    /\ [c \in Channels |-> EmptyChannel] \in [Channels -> ChannelRecord]
    /\ [c \in Channels |-> {}] \in [Channels -> SUBSET Nat]
    /\ [r \in Claims |-> NoRun] \in [Claims -> RunRecord]
    /\ [r \in Claims |-> NoTurn] \in [Claims -> TurnRecord]
    /\ [q \in Replies |-> NoReply] \in [Replies -> ReplyRecord]
    /\ \A q \in Replies : ReplyShape([p \in Replies |-> NoReply][q])
<1>1. 0 \in 0..DISCORD_MAX_LOOP_ERROR_ATTEMPTS
  BY ErrorAssumption
<1>2. EmptyChannel \in ChannelRecord
  BY <1>1 DEF EmptyChannel, ChannelRecord, Leases
<1>3. NoRun \in RunRecord /\ NoTurn \in TurnRecord
  BY DEF NoRun, NoTurn, RunRecord, TurnRecord, RunStatus, TurnStage
<1>. QED
  BY <1>2, <1>3, NoReplyWellFormed DEF WellFormed

LEMMA PrivacyDeletionTypes ==
    ASSUME TypeInv, deleteGuildConversationPrivacyData
    PROVE  TypeInv'
<1>1. conversation' \in ConversationRecord
  BY NewEpochType DEF deleteGuildConversationPrivacyData, TypeInv
<1>. QED
  BY <1>1, EmptyDocuments
     DEF deleteGuildConversationPrivacyData, TypeInv, TypeOK, FencesNameChannels

-----------------------------------------------------------------------------

LEMMA InitTypes == Init => TypeInv
<1>. SUFFICES ASSUME Init PROVE TypeInv
  OBVIOUS
<1>1. conversation \in ConversationRecord /\ monitored \subseteq Channels
  BY DEF Init, ConversationRecord, Leases
<1>2. [k \in Claims |-> NoFence] \in [Claims -> FenceRecord]
  BY DEF NoFence, FenceRecord
<1>3. FencesNameChannels
  BY DEF FencesNameChannels, Init, NoFence
<1>. QED
  BY <1>1, <1>2, <1>3, EmptyDocuments DEF Init, TypeInv, TypeOK

LEMMA NextTypes == TypeInv /\ [Next]_loopVars => TypeInv'
<1>. SUFFICES ASSUME TypeInv, [Next]_loopVars PROVE TypeInv'
  OBVIOUS
<1>1. ASSUME NEW c \in Channels, NEW mention \in BOOLEAN, IngestHuman(c, mention)
      PROVE  TypeInv'
  BY <1>1, IngestHumanTypes
<1>2. ASSUME NEW c \in Channels, IngestOtherBot(c)  PROVE TypeInv'
  BY <1>2, IngestOtherBotTypes
<1>3. ASSUME NEW q \in Replies, IngestBotReply(q)  PROVE TypeInv'
  BY <1>3, ConfirmedDeliveries, ConfirmationTypes
<1>4. ASSUME NEW c \in Channels, NEW k \in Claims, claimLoop(c, k)  PROVE TypeInv'
  BY <1>4, ClaimLoopTypes
<1>5. ASSUME NEW r \in Claims, LeaseExpires(r)  PROVE TypeInv'
  BY <1>5, LeaseExpiresTypes
<1>6. ASSUME NEW k \in Claims, getNewestContext(k)  PROVE TypeInv'
  BY <1>6, NewestContextTypes
<1>7. ASSUME NEW k \in Claims, NEW q \in Replies, enqueueReply(k, q)  PROVE TypeInv'
  BY <1>7, EnqueueReplyTypes
<1>8. ASSUME NEW k \in Claims, completeLoop(k)  PROVE TypeInv'
  BY <1>8, FailLoopTypes, FinishLoopTypes DEF completeLoop
<1>9. ASSUME NEW q \in Replies, deliverReply(q)  PROVE TypeInv'
  BY <1>9, DeliveryTypes
<1>10. CASE Controls
  BY <1>10, SetChannelRolesTypes, SetGuildRoutingTypes, ResetTypes, PrivacyDeletionTypes
     DEF Controls
<1>11. CASE UNCHANGED loopVars
  BY <1>11 DEF loopVars, TypeInv, TypeOK, FencesNameChannels
<1>12. ASSUME NEW k \in Claims, heartbeat(k) \/ recordFrontmanResume(k)  PROVE TypeInv'
  BY <1>12, RecordedStageTypes
<1>. QED
  BY <1>1, <1>2, <1>3, <1>4, <1>5, <1>6, <1>7, <1>8, <1>9, <1>10, <1>11, <1>12 DEF Next

LEMMA TypesHold == Spec => []TypeInv
BY InitTypes, NextTypes, PTL DEF Spec

(* Every document the guild's mutations write keeps the shape its table
   declares, whatever the number of channels, claims and replies. *)
THEOREM TypeCorrect == Spec => []TypeOK
<1>1. TypeInv => TypeOK
  BY DEF TypeInv
<1>. QED
  BY TypesHold, <1>1, PTL

-----------------------------------------------------------------------------
(* The outbox. *)

(* Row o is settled consistently while the conversation is in epoch e. *)
RowInv(o, e) ==
    /\ (o.event = "committed") <=> (o.status \in Confirmed)
    /\ o.status # "absent" /\ o.epoch # e
        => o.status \notin Sendable /\ o.delivery = "none"

OutboxInv == \A q \in Replies : RowInv(outbox[q], conversation.epoch)

-----------------------------------------------------------------------------
(* The ways a row is rewritten. *)

LEMMA NoReplyRow == \A e : RowInv(NoReply, e)
BY DEF RowInv, NoReply, Confirmed

LEMMA InvalidatedRow ==
    ASSUME NEW o, NEW e, WellFormed(o), RowInv(o, e)
    PROVE  RowInv(Invalidated(o), e)
BY DEF RowInv, WellFormed, Invalidated, Confirmed, Sendable, ReplyRecord

(* A reset moves on to another epoch and supersedes the rows of its own. *)
LEMMA SupersededRow ==
    ASSUME NEW o, NEW e, NEW f, WellFormed(o), RowInv(o, e)
    PROVE  /\ o.epoch = e => RowInv(Superseded(o), f)
           /\ o.epoch # e => RowInv(o, f)
<1>1. CASE o.status = "absent"
  BY <1>1 DEF WellFormed, ReplyShape, RowInv, NoReply, Superseded, Confirmed, Sendable
<1>2. CASE o.status # "absent" /\ o.epoch # e
  BY <1>2 DEF RowInv
<1>3. CASE o.status # "absent" /\ o.epoch = e
  <2>1. o.delivery = "none" \/ o.status \in Sendable
    BY DEF WellFormed, ReplyShape
  <2>2. (o.event = "committed") <=> (o.status \in Confirmed)
    BY DEF RowInv
  <2>3. /\ Superseded(o).status = (CASE o.status = "pending" -> "cancelled"
                                     [] o.status = "delivery_uncertain" ->
                                            "needs_reconciliation"
                                     [] OTHER -> o.status)
        /\ Superseded(o).delivery = IF o.status \in Sendable THEN "none" ELSE o.delivery
        /\ Superseded(o).event = IF o.event = "pending" THEN "failed" ELSE o.event
    BY DEF Superseded, WellFormed, ReplyRecord, Sendable
  <2>. QED
    BY <1>3, <2>1, <2>2, <2>3 DEF RowInv, Sendable, Confirmed
<1>. QED
  BY <1>1, <1>2, <1>3

LEMMA ConfirmedRow ==
    ASSUME NEW o, NEW e, WellFormed(o), o.status # "absent"
    PROVE  RowInv(Committed(Sent(o)), e)
BY DEF RowInv, WellFormed, Committed, Sent, ReplyShape, Confirmed, Sendable, ReplyRecord

LEMMA InvalidatedRows ==
    ASSUME TypeInv, OutboxInv, NEW runs
    PROVE  \A q \in Replies : RowInv(invalidateRunOutbox(runs)[q], conversation.epoch)
<1>. TAKE q \in Replies
<1>1. WellFormed(outbox[q]) /\ RowInv(outbox[q], conversation.epoch)
  BY TypeInvOutbox DEF OutboxInv
<1>. QED
  BY <1>1, InvalidatedRow DEF invalidateRunOutbox

-----------------------------------------------------------------------------
(* One lemma for the actions of each kind. *)

LEMMA DeliveryRows ==
    ASSUME TypeInv, OutboxInv, NEW q \in Replies, deliverReply(q)
    PROVE  OutboxInv'
<1>. DEFINE o == outbox[q]
            e == conversation.epoch
<1>1. WellFormed(o) /\ RowInv(o, e)
  BY TypeInvOutbox DEF OutboxInv
<1>2. CASE AcknowledgeSent(q)
  <2>1. Confirmation(q)
    BY <1>2, ConfirmedDeliveries
  <2>2. RowInv(Committed(Sent(o)), e)
    BY <1>1, <2>1, ConfirmedRow DEF Confirmation
  <2>3. conversation'.epoch = e
    BY <2>1 DEF Confirmation, CommitRevision, TypeInv, TypeOK, ConversationRecord
  <2>. QED
    BY <2>1, <2>2, <2>3 DEF Confirmation, OutboxInv, TypeInv, TypeOK
<1>3. CASE LeaseDelivery(q) \/ DeliveryLeaseLapses(q) \/ RequireReconciliation(q)
        \/ beginReplyDelivery(q) \/ AcknowledgeFailed(q) \/ AcknowledgeUncertain(q)
  <2>1. UNCHANGED conversation /\ outbox' = [outbox EXCEPT ![q] = outbox'[q]]
    BY <1>3 DEF LeaseDelivery, DeliveryLeaseLapses, RequireReconciliation,
                beginReplyDelivery, AcknowledgeFailed, AcknowledgeUncertain,
                TypeInv, TypeOK
  <2>2. RowInv(outbox'[q], e)
    <3>1. CASE LeaseDelivery(q)
      <4>1. outbox'[q] = [o EXCEPT !.delivery = "leased"] /\ o.epoch = e
        BY <3>1 DEF LeaseDelivery, ReplyFence, TypeInv, TypeOK
      <4>. QED
        BY <1>1, <4>1 DEF RowInv, WellFormed, ReplyRecord
    <3>2. CASE DeliveryLeaseLapses(q)
      <4>1. outbox'[q] = [o EXCEPT !.delivery = "lapsed"] /\ o.delivery = "leased"
        BY <3>2 DEF DeliveryLeaseLapses, TypeInv, TypeOK
      <4>. QED
        BY <1>1, <4>1 DEF RowInv, WellFormed, ReplyRecord, ReplyShape, Sendable
    <3>3. CASE RequireReconciliation(q)
      <4>1. /\ outbox'[q] = [o EXCEPT !.status = "needs_reconciliation",
                                      !.delivery = "none"]
            /\ o.status = "delivery_uncertain"
        BY <3>3 DEF RequireReconciliation, TypeInv, TypeOK
      <4>. QED
        BY <1>1, <4>1 DEF RowInv, WellFormed, ReplyRecord, Sendable, Confirmed
    <3>4. CASE beginReplyDelivery(q)
      <4>1. /\ outbox'[q] = [o EXCEPT !.status = "delivery_uncertain", !.begun = TRUE]
            /\ o.epoch = e
            /\ o.status \notin Confirmed
        BY <3>4 DEF beginReplyDelivery, ReplyFence, Confirmed, TypeInv, TypeOK
      <4>. QED
        BY <1>1, <4>1 DEF RowInv, WellFormed, ReplyRecord, Confirmed
    <3>5. CASE AcknowledgeFailed(q)
      <4>1. /\ outbox'[q] = [o EXCEPT !.status = "failed", !.delivery = "none",
                                      !.event = IF @ = "pending" THEN "failed" ELSE @]
            /\ o.status \notin Confirmed
        BY <3>5 DEF AcknowledgeFailed, AcknowledgeGuard, TypeInv, TypeOK
      <4>. QED
        BY <1>1, <4>1 DEF RowInv, WellFormed, ReplyRecord, Confirmed, Sendable
    <3>6. CASE AcknowledgeUncertain(q)
      <4>1. /\ outbox'[q] = [o EXCEPT !.status = "delivery_uncertain",
                                      !.delivery = "none"]
            /\ o.status \notin Confirmed \cup {"absent"}
            /\ o.delivery # "none"
        BY <3>6 DEF AcknowledgeUncertain, AcknowledgeGuard, TypeInv, TypeOK
      <4>. QED
        BY <1>1, <4>1 DEF RowInv, WellFormed, ReplyRecord, Confirmed
    <3>. QED
      BY <1>3, <3>1, <3>2, <3>3, <3>4, <3>5, <3>6
  <2>. QED
    BY <2>1, <2>2 DEF OutboxInv, TypeInv, TypeOK
<1>. QED
  BY <1>2, <1>3 DEF deliverReply

LEMMA IngestedReplyRows ==
    ASSUME TypeInv, OutboxInv, NEW q \in Replies, IngestBotReply(q)
    PROVE  OutboxInv'
<1>1. Confirmation(q)
  BY ConfirmedDeliveries
<1>2. RowInv(Committed(Sent(outbox[q])), conversation.epoch)
  BY <1>1, TypeInvOutbox, ConfirmedRow DEF Confirmation
<1>3. conversation'.epoch = conversation.epoch
  BY <1>1 DEF Confirmation, CommitRevision, TypeInv, TypeOK, ConversationRecord
<1>. QED
  BY <1>1, <1>2, <1>3 DEF Confirmation, OutboxInv, TypeInv, TypeOK

LEMMA ClaimRows ==
    ASSUME TypeInv, OutboxInv, NEW c \in Channels, NEW k \in Claims, claimLoop(c, k)
    PROVE  OutboxInv'
<1>1. conversation'.epoch = conversation.epoch
  BY DEF claimLoop, RecoverLoop, StartLoop, AcquireLeases, TypeInv, TypeOK,
         ConversationRecord
<1>2. CASE RecoverLoop(c, k)
  <2>. DEFINE f == NewFence(c, k, channelState[c].run)
  <2>1. \A q \in Replies :
            \/ outbox'[q] = outbox[q]
            \/ outbox[q].status = "pending" /\ outbox'[q] = Refenced(outbox[q], f, k)
    BY <1>2 DEF RecoverLoop
  <2>. HIDE DEF f
  <2>2. \A q \in Replies : RowInv(Refenced(outbox[q], f, k), conversation.epoch)
    BY DEF Refenced, RowInv, OutboxInv, TypeInv, TypeOK, ReplyRecord
  <2>. QED
    BY <1>1, <2>1, <2>2 DEF OutboxInv
<1>3. CASE StartLoop(c, k)
  BY <1>1, <1>3, InvalidatedRows DEF StartLoop, OutboxInv
<1>. QED
  BY <1>2, <1>3 DEF claimLoop

LEMMA EnqueuedRows ==
    ASSUME TypeInv, OutboxInv, NEW k \in Claims, NEW q \in Replies, enqueueReply(k, q)
    PROVE  OutboxInv'
<1>1. PICK through \in ValidCutoffs(k) :
            outbox' = [outbox EXCEPT ![q] = NewReply(k, q, through)]
  BY DEF enqueueReply
<1>2. RowInv(NewReply(k, q, through), conversation.epoch)
  BY DEF NewReply, RowInv, Confirmed
<1>3. conversation'.epoch = conversation.epoch
  BY DEF enqueueReply, ReserveOrdinal, TypeInv, TypeOK, ConversationRecord
<1>. QED
  BY <1>1, <1>2, <1>3 DEF OutboxInv, TypeInv, TypeOK

LEMMA CompletedRows ==
    ASSUME TypeInv, OutboxInv, NEW k \in Claims, completeLoop(k)
    PROVE  OutboxInv'
<1>1. conversation'.epoch = conversation.epoch
  BY DEF completeLoop, FailLoop, FinishLoop, ReleaseLoop, ClearedConversation,
         TypeInv, TypeOK, ConversationRecord
<1>2. \/ outbox' = invalidateRunOutbox({issued[k].run})
      \/ outbox' = FinalizedReplies(issued[k].run)
  BY DEF completeLoop, FailLoop, FinishLoop
<1>3. \A q \in Replies :
        RowInv(FinalizedReplies(issued[k].run)[q], conversation.epoch)
  BY DEF FinalizedReplies, RowInv, OutboxInv, Confirmed, Sendable,
         TypeInv, TypeOK, ReplyRecord
<1>. QED
  BY <1>1, <1>2, <1>3, InvalidatedRows DEF OutboxInv

LEMMA ControlledRows ==
    ASSUME TypeInv, OutboxInv, Controls
    PROVE  OutboxInv'
<1>1. ASSUME NEW c \in Channels, setChannelRoles(c)
      PROVE  OutboxInv'
  BY <1>1, InvalidatedRows DEF setChannelRoles, ApplyRoles, OutboxInv
<1>2. ASSUME NEW to \in Channels \cup {None}, NEW logChanged \in BOOLEAN,
             setGuildRouting(to, logChanged)
      PROVE  OutboxInv'
  <2>1. conversation'.epoch = conversation.epoch
    BY <1>2 DEF setGuildRouting, ClearedConversation, TypeInv, TypeOK, ConversationRecord
  <2>. QED
    BY <1>2, <2>1, InvalidatedRows DEF setGuildRouting, ApplyRoles, OutboxInv
<1>3. CASE resetGuildConversation
  <2>1. \A q \in Replies :
            /\ outbox[q].epoch = conversation.epoch
                => RowInv(Superseded(outbox[q]), conversation'.epoch)
            /\ outbox[q].epoch # conversation.epoch
                => RowInv(outbox[q], conversation'.epoch)
    BY TypeInvOutbox, SupersededRow DEF OutboxInv
  <2>2. outbox' = SupersededReplies
    BY <1>3 DEF resetGuildConversation
  <2>. QED
    BY <2>1, <2>2 DEF SupersededReplies, OutboxInv
<1>4. CASE deleteGuildConversationPrivacyData
  BY <1>4, NoReplyRow DEF deleteGuildConversationPrivacyData, OutboxInv
<1>. QED
  BY <1>1, <1>2, <1>3, <1>4 DEF Controls

LEMMA OutboxInvHolds == Spec => []OutboxInv
<1>1. Init => OutboxInv
  BY NoReplyRow DEF Init, OutboxInv
<1>2. TypeInv /\ OutboxInv /\ [Next]_loopVars => OutboxInv'
  <2>. SUFFICES ASSUME TypeInv, OutboxInv, [Next]_loopVars PROVE OutboxInv'
    OBVIOUS
  <2>1. ASSUME NEW c \in Channels, NEW mention \in BOOLEAN, IngestHuman(c, mention)
        PROVE  OutboxInv'
    <3>1. conversation'.epoch = conversation.epoch
      BY <2>1 DEF IngestHuman, ReserveOrdinal, TypeInv, TypeOK, ConversationRecord
    <3>. QED
      BY <2>1, <3>1 DEF IngestHuman, OutboxInv
  <2>2. ASSUME NEW r \in Claims, LeaseExpires(r)  PROVE OutboxInv'
    <3>1. conversation'.epoch = conversation.epoch
      BY <2>2 DEF LeaseExpires, TypeInv, TypeOK, ConversationRecord
    <3>. QED
      BY <2>2, <3>1 DEF LeaseExpires, OutboxInv
  <2>3. CASE UNCHANGED <<conversation, outbox>>
    BY <2>3 DEF OutboxInv
  <2>. QED
    BY <2>1, <2>2, <2>3, IngestedReplyRows, ClaimRows, EnqueuedRows, CompletedRows,
       DeliveryRows, ControlledRows
       DEF Next, IngestOtherBot, getNewestContext, heartbeat, recordFrontmanResume,
           loopVars
<1>. QED
  BY <1>1, <1>2, TypesHold, PTL DEF Spec

(* The reader of the conversation sees an assistant message exactly when the
   outbox holds Discord's confirmation of it. *)
THEOREM VisibleIffConfirmedHolds == Spec => []VisibleIffConfirmed
<1>1. OutboxInv => VisibleIffConfirmed
  BY DEF OutboxInv, RowInv, VisibleIffConfirmed
<1>. QED
  BY OutboxInvHolds, <1>1, PTL

(* Once the owner has reset the conversation, no reply of the epoch before it
   can be leased, begun or sent. *)
THEOREM OldEpochQuietHolds == Spec => []OldEpochQuiet
<1>1. OutboxInv => OldEpochQuiet
  BY DEF OutboxInv, RowInv, OldEpochQuiet, Sendable
<1>. QED
  BY OutboxInvHolds, <1>1, PTL

-----------------------------------------------------------------------------
(* Turns. *)

TurnsOfClaims == \A r \in Claims : turn[r].stage # "absent" => issued[r] # NoFence

(* A turn the conversation names is in progress: its draft may suppress it, but
   none of its ends was written. *)
ActiveStages == OpenStages \cup {"suppressed"}

TurnInv ==
    /\ OpenTurnIsCurrent
    /\ conversation.run # None => turn[conversation.run].stage \in ActiveStages
    /\ TurnsOfClaims

InProgress == {r \in Claims : TurnInProgress(r)}
Over == {r \in Claims : TurnOver(r)}
Visible == {q \in Replies : outbox[q].event = "committed"}

(* What a step may do to the turns. *)
Kept == InProgress' = InProgress /\ Over' = Over
Ended == InProgress' = {} /\ Over' = Over \cup InProgress

-----------------------------------------------------------------------------
(* Turns and the conversation's lease. *)

(* Every turn ever begun is in progress or over, by the conversation alone. *)
LEMMA TurnSets ==
    ASSUME OpenTurnIsCurrent
    PROVE  /\ \A r \in Claims : r \in InProgress <=> /\ turn[r].stage # "absent"
                                                     /\ conversation.run = r
           /\ \A r \in Claims : r \in Over <=> /\ turn[r].stage # "absent"
                                               /\ conversation.run # r
BY DEF OpenTurnIsCurrent, InProgress, Over, TurnInProgress, TurnOver

LEMMA EndedTurns ==
    ASSUME TypeInv, TurnInv, NEW stage \in TurnStage \ (OpenStages \cup {"absent"}),
           \A r \in Claims :
                turn'[r].stage = IF turn[r].stage \in OpenStages THEN stage ELSE turn[r].stage,
           conversation'.run = None, UNCHANGED issued
    PROVE  TurnInv' /\ Ended
<1>1. \A r \in Claims : /\ turn'[r].stage \notin OpenStages
                        /\ turn'[r].stage = "absent" <=> turn[r].stage = "absent"
  BY DEF OpenStages
<1>2. TurnInv'
  BY <1>1 DEF TurnInv, OpenTurnIsCurrent, TurnsOfClaims
<1>3. \A r \in Claims : r # None
  BY NoneAssumption
<1>4. \A r \in Claims : /\ r \in InProgress <=> /\ turn[r].stage # "absent"
                                               /\ conversation.run = r
                        /\ r \in Over <=> /\ turn[r].stage # "absent"
                                          /\ conversation.run # r
  BY TurnSets DEF TurnInv
<1>5. \A r \in Claims : /\ r \notin InProgress'
                        /\ r \in Over' <=> turn[r].stage # "absent"
  BY <1>1, <1>3 DEF InProgress, Over, TurnInProgress, TurnOver
<1>6. InProgress \subseteq Claims /\ InProgress' \subseteq Claims
      /\ Over \subseteq Claims /\ Over' \subseteq Claims
  BY DEF InProgress, Over
<1>. QED
  BY <1>2, <1>4, <1>5, <1>6 DEF Ended

(* The turns the conversation's end of a turn ends: those still open. *)
LEMMA EndedOpenTurns ==
    ASSUME TypeInv, TurnInv, NEW stage \in TurnStage \ (OpenStages \cup {"absent"}),
           turn' = EndedTurn({conversation.run}, stage),
           conversation'.run = None, UNCHANGED issued
    PROVE  TurnInv' /\ Ended
<1>1. \A r \in Claims :
        turn'[r].stage = IF turn[r].stage \in OpenStages THEN stage ELSE turn[r].stage
  BY DEF EndedTurn, TurnInv, OpenTurnIsCurrent, TypeInv, TypeOK, TurnRecord
<1>. QED
  BY <1>1, EndedTurns

(* A step that leaves the conversation's lease alone may record a stage for the
   turn in progress and for no other. *)
LEMMA KeptTurns ==
    ASSUME TypeInv, TurnInv, conversation'.run = conversation.run,
           \A r \in Claims :
                \/ turn'[r].stage = turn[r].stage
                \/ r = conversation.run /\ turn'[r].stage \in ActiveStages,
           UNCHANGED issued
    PROVE  TurnInv' /\ Kept
<1>1. conversation.run \in Claims \cup {None}
  BY DEF TypeInv, TypeOK, ConversationRecord
<1>2. \A r \in Claims : turn'[r].stage = "absent" <=> turn[r].stage = "absent"
  BY NoneAssumption DEF TurnInv, ActiveStages, OpenStages
<1>3. TurnInv'
  <2>1. OpenTurnIsCurrent'
    BY DEF TurnInv, OpenTurnIsCurrent
  <2>2. (conversation.run # None => turn[conversation.run].stage \in ActiveStages)'
    BY <1>1 DEF TurnInv
  <2>3. TurnsOfClaims'
    BY <1>2 DEF TurnInv, TurnsOfClaims
  <2>. QED
    BY <2>1, <2>2, <2>3 DEF TurnInv
<1>4. \A r \in Claims : /\ r \in InProgress' <=> r \in InProgress
                        /\ r \in Over' <=> r \in Over
  BY <1>2, <1>3 DEF TurnInv, OpenTurnIsCurrent, InProgress, Over, TurnInProgress, TurnOver
<1>. QED
  BY <1>3, <1>4 DEF Kept, InProgress, Over

LEMMA ClaimedTurns ==
    ASSUME TypeInv, TurnInv, NEW c \in Channels, NEW k \in Claims, claimLoop(c, k)
    PROVE  /\ TurnInv'
           /\ Kept \/ /\ k \notin InProgress \cup Over
                      /\ InProgress' = {k}
                      /\ Over' = Over \cup InProgress
<1>1. issued[k] = NoFence /\ turn[k].stage = "absent"
  BY DEF claimLoop, RecoverLoop, StartLoop, ClaimGuard, TurnInv, TurnsOfClaims
<1>2. CASE RecoverLoop(c, k)
  <2>. DEFINE r == channelState[c].run
  <2>1. r \in Claims /\ conversation.run = r
    BY <1>2 DEF RecoverLoop, RecoverableExpiredTurn, TypeInv, TypeOK, ChannelRecord
  <2>2. conversation'.run = r /\ UNCHANGED turn
    BY <1>2 DEF RecoverLoop, AcquireLeases, TypeInv, TypeOK, ConversationRecord
  <2>3. issued' = [issued EXCEPT ![k] = NewFence(c, k, r)] /\ NewFence(c, k, r).run = r
    BY <1>2 DEF RecoverLoop, AcquireLeases, NewFence
  <2>4. TurnsOfClaims'
    BY <1>1, <2>2, <2>3 DEF TurnInv, TurnsOfClaims, TypeInv, TypeOK
  <2>. QED
    BY <2>1, <2>2, <2>4
       DEF TurnInv, OpenTurnIsCurrent, Kept, InProgress, Over, TurnInProgress, TurnOver
<1>3. CASE StartLoop(c, k)
  <2>1. /\ \A r \in Claims \ {k} :
            turn'[r].stage = IF turn[r].stage \in OpenStages THEN "failed" ELSE turn[r].stage
        /\ turn'[k].stage = "open"
    BY <1>3 DEF StartLoop, EndedTurn, TurnInv, OpenTurnIsCurrent, TypeInv, TypeOK,
                TurnRecord
  <2>2. conversation'.run = k
    BY <1>3 DEF StartLoop, AcquireLeases, TypeInv, TypeOK, ConversationRecord
  <2>3. issued' = [issued EXCEPT ![k] = NewFence(c, k, k)] /\ NewFence(c, k, k) # NoFence
    BY <1>3, NoneAssumption DEF StartLoop, AcquireLeases, NewFence, NoFence
  <2>4. /\ \A r \in Claims \ {k} : /\ turn'[r].stage \notin OpenStages
                                   /\ turn'[r].stage = "absent" <=> turn[r].stage = "absent"
        /\ turn'[k].stage \in OpenStages
    BY <2>1 DEF OpenStages
  <2>5. TurnInv'
    BY <2>2, <2>3, <2>4
       DEF TurnInv, OpenTurnIsCurrent, TurnsOfClaims, ActiveStages, TypeInv, TypeOK
  <2>6. \A r \in Claims : /\ r \in InProgress <=> /\ turn[r].stage # "absent"
                                                 /\ conversation.run = r
                          /\ r \in Over <=> /\ turn[r].stage # "absent"
                                            /\ conversation.run # r
    BY TurnSets DEF TurnInv
  <2>7. k \notin InProgress \cup Over
    BY <1>1, <2>6
  <2>8. \A r \in Claims : /\ r \in InProgress' <=> r = k
                          /\ r \in Over' <=> r # k /\ turn[r].stage # "absent"
    BY <2>2, <2>4 DEF InProgress, Over, TurnInProgress, TurnOver, OpenStages
  <2>9. InProgress' = {k} /\ Over' = Over \cup InProgress
    <3>1. InProgress \subseteq Claims /\ InProgress' \subseteq Claims
          /\ Over \subseteq Claims /\ Over' \subseteq Claims
      BY DEF InProgress, Over
    <3>. QED
      BY <1>1, <2>6, <2>8, <3>1
  <2>. QED
    BY <2>5, <2>7, <2>9
<1>. QED
  BY <1>2, <1>3 DEF claimLoop

LEMMA CompletedTurns ==
    ASSUME TypeInv, TurnInv, NEW k \in Claims, completeLoop(k)
    PROVE  TurnInv' /\ Ended
<1>. DEFINE r == issued[k].run
<1>1. /\ r # None
      /\ conversation.run = r
      /\ conversation'.run = None
      /\ UNCHANGED issued
  BY DEF completeLoop, FailLoop, FinishLoop, ReleaseLoop, CompleteGuard, Fence,
         ConversationFence, ClearedConversation, TypeInv, TypeOK, ConversationRecord
<1>2. r \in Claims
  BY <1>1, FencedDocuments
<1>3. PICK stage \in TurnStage \ (OpenStages \cup {"absent"}) :
            turn' = [turn EXCEPT ![r].stage = stage]
  BY DEF completeLoop, FailLoop, FinishLoop, TurnStage, OpenStages
<1>4. \A p \in Claims :
        turn'[p].stage = IF p = r THEN stage ELSE turn[p].stage
  BY <1>2, <1>3 DEF TypeInv, TypeOK, TurnRecord
<1>5. turn[r].stage \in ActiveStages
  BY <1>1 DEF TurnInv
<1>6. \A p \in Claims : /\ turn'[p].stage \notin OpenStages
                        /\ turn'[p].stage = "absent" <=> turn[p].stage = "absent"
  BY <1>1, <1>4, <1>5 DEF TurnInv, OpenTurnIsCurrent, ActiveStages, OpenStages
<1>7. TurnInv'
  BY <1>1, <1>6 DEF TurnInv, OpenTurnIsCurrent, TurnsOfClaims
<1>8. \A p \in Claims : /\ p \in InProgress <=> /\ turn[p].stage # "absent"
                                               /\ conversation.run = p
                        /\ p \in Over <=> /\ turn[p].stage # "absent"
                                          /\ conversation.run # p
  BY TurnSets DEF TurnInv
<1>9. \A p \in Claims : p # None
  BY NoneAssumption
<1>10. \A p \in Claims : /\ p \notin InProgress'
                         /\ p \in Over' <=> turn[p].stage # "absent"
  BY <1>1, <1>6, <1>9 DEF InProgress, Over, TurnInProgress, TurnOver
<1>11. InProgress \subseteq Claims /\ InProgress' \subseteq Claims
       /\ Over \subseteq Claims /\ Over' \subseteq Claims
  BY DEF InProgress, Over
<1>. QED
  BY <1>7, <1>8, <1>10, <1>11 DEF Ended

(* Every step but a claim and a deletion keeps the turns or ends the one in
   progress. *)
LEMMA ControlledTurns ==
    ASSUME TypeInv, TurnInv, Controls
    PROVE  TurnInv' /\ (Kept \/ Ended \/ deleteGuildConversationPrivacyData)
<1>1. ASSUME NEW c \in Channels, setChannelRoles(c)
      PROVE  TurnInv' /\ Kept
  BY <1>1, KeptTurns DEF setChannelRoles
<1>2. ASSUME NEW to \in Channels \cup {None}, NEW logChanged \in BOOLEAN,
             setGuildRouting(to, logChanged)
      PROVE  TurnInv' /\ (Kept \/ Ended)
  <2>1. CASE to # conversation.channel \/ logChanged
    <3>1. turn' = EndedTurn({conversation.run}, "cancelled") /\ UNCHANGED issued
      BY <1>2, <2>1 DEF setGuildRouting
    <3>2. conversation'.run = None
      BY <1>2, <2>1 DEF setGuildRouting, ClearedConversation, TypeInv, TypeOK,
                        ConversationRecord
    <3>. QED
      BY <3>1, <3>2, EndedOpenTurns DEF TurnStage, OpenStages
  <2>2. CASE ~(to # conversation.channel \/ logChanged)
    BY <1>2, <2>2, KeptTurns DEF setGuildRouting
  <2>. QED
    BY <2>1, <2>2
<1>3. CASE resetGuildConversation
  <2>1. turn' = EndedTurn({conversation.run}, "cancelled") /\ UNCHANGED issued
    BY <1>3 DEF resetGuildConversation
  <2>2. \E watermark : conversation' = NewEpoch(watermark)
    BY <1>3 DEF resetGuildConversation
  <2>3. conversation'.run = None
    BY <2>2 DEF NewEpoch, ClearedConversation, TypeInv, TypeOK, ConversationRecord
  <2>. QED
    BY <2>1, <2>3, EndedOpenTurns DEF TurnStage, OpenStages
<1>4. CASE deleteGuildConversationPrivacyData
  <2>1. conversation'.run = None
    BY <1>4 DEF deleteGuildConversationPrivacyData, NewEpoch, ClearedConversation,
                TypeInv, TypeOK, ConversationRecord
  <2>2. \A r \in Claims : turn'[r].stage = "absent"
    BY <1>4 DEF deleteGuildConversationPrivacyData, NoTurn
  <2>. QED
    BY <1>4, <2>1, <2>2 DEF TurnInv, OpenTurnIsCurrent, TurnsOfClaims, OpenStages
<1>. QED
  BY <1>1, <1>2, <1>3, <1>4 DEF Controls

(* A stage recorded under the conversation's fence is recorded for the turn in
   progress: the fence names it. *)
LEMMA RecordedStages ==
    ASSUME TypeInv, NEW k \in Claims,
           \/ getNewestContext(k)
           \/ heartbeat(k)
           \/ recordFrontmanResume(k)
           \/ \E q \in Replies : enqueueReply(k, q)
    PROVE  /\ UNCHANGED issued
           /\ conversation'.run = conversation.run
           /\ \A r \in Claims :
                \/ turn'[r].stage = turn[r].stage
                \/ r = conversation.run /\ turn'[r].stage \in ActiveStages
<1>1. /\ issued[k].run # None
      /\ conversation.run = issued[k].run
      /\ UNCHANGED issued
  BY DEF getNewestContext, heartbeat, recordFrontmanResume, enqueueReply, LiveFence, Fence,
         ConversationFence
<1>2. issued[k].run \in Claims
  BY <1>1, FencedDocuments
<1>3. conversation'.run = conversation.run
  BY DEF getNewestContext, heartbeat, recordFrontmanResume, enqueueReply, ReserveOrdinal,
         TypeInv, TypeOK, ConversationRecord
<1>4. TypeOK
  BY DEF TypeInv
<1>5. CASE \/ heartbeat(k)
           \/ \E q \in Replies : enqueueReply(k, q)
  <2>1. turn' = Reopened(issued[k].run)
    BY <1>5 DEF heartbeat, enqueueReply
  <2>. QED
    BY <1>1, <1>2, <1>3, <1>4, <2>1, ReopenedTurn DEF ActiveStages
<1>6. CASE getNewestContext(k)
  <2>1. PICK through : turn' = [Reopened(issued[k].run) EXCEPT
                                    ![issued[k].run].eligibleThrough = through]
    BY <1>6 DEF getNewestContext
  <2>2. Reopened(issued[k].run) \in [Claims -> TurnRecord]
    BY <1>2, <1>4, ReopenedTurn
  <2>3. \A r \in Claims : turn'[r].stage = Reopened(issued[k].run)[r].stage
    BY <1>2, <2>1, <2>2 DEF TurnRecord
  <2>. QED
    BY <1>1, <1>2, <1>3, <1>4, <2>3, ReopenedTurn DEF ActiveStages
<1>7. CASE recordFrontmanResume(k)
  <2>1. turn' = [turn EXCEPT ![issued[k].run].stage = "suppressed"]
    BY <1>7 DEF recordFrontmanResume
  <2>2. \A r \in Claims :
            turn'[r].stage = IF r = issued[k].run THEN "suppressed" ELSE turn[r].stage
    BY <1>2, <1>4, <2>1 DEF TypeOK, TurnRecord
  <2>. QED
    BY <1>1, <1>3, <2>2 DEF ActiveStages
<1>. QED
  BY <1>5, <1>6, <1>7

LEMMA OtherTurns ==
    ASSUME TypeInv, TurnInv, [Next]_loopVars,
           ~ \E c \in Channels, k \in Claims : claimLoop(c, k),
           ~ \E k \in Claims : completeLoop(k),
           ~Controls
    PROVE  TurnInv' /\ Kept
<1>1. \A v \in ConversationRecord :
        /\ [ReserveOrdinal(v) EXCEPT !.revision = @ + 1, !.humanRevision = @ + 1].run = v.run
        /\ [v EXCEPT !.revision = @ + 1].run = v.run
        /\ [v EXCEPT !.lease = "expired"].run = v.run
  BY DEF ReserveOrdinal, ConversationRecord
<1>2. conversation \in ConversationRecord
  BY DEF TypeInv, TypeOK
<1>. DEFINE Records(k) == \/ getNewestContext(k)
                          \/ heartbeat(k)
                          \/ recordFrontmanResume(k)
                          \/ \E q \in Replies : enqueueReply(k, q)
<1>3. ASSUME NEW k \in Claims, Records(k)
      PROVE  TurnInv' /\ Kept
  BY <1>3, RecordedStages, KeptTurns
<1>4. ASSUME ~ \E k \in Claims : Records(k)
      PROVE  TurnInv' /\ Kept
  <2>1. UNCHANGED <<turn, issued>> /\ conversation'.run = conversation.run
    <3>1. ASSUME NEW c \in Channels, NEW mention \in BOOLEAN, IngestHuman(c, mention)
          PROVE  UNCHANGED <<turn, issued>> /\ conversation'.run = conversation.run
      BY <1>1, <1>2, <3>1 DEF IngestHuman
    <3>2. ASSUME NEW q \in Replies, IngestBotReply(q) \/ AcknowledgeSent(q)
          PROVE  UNCHANGED <<turn, issued>> /\ conversation'.run = conversation.run
      BY <1>1, <1>2, <3>2, ConfirmedDeliveries DEF Confirmation, CommitRevision
    <3>3. ASSUME NEW r \in Claims, LeaseExpires(r)
          PROVE  UNCHANGED <<turn, issued>> /\ conversation'.run = conversation.run
      BY <1>1, <1>2, <3>3 DEF LeaseExpires
    <3>4. ASSUME NEW q \in Replies, deliverReply(q), ~AcknowledgeSent(q)
          PROVE  UNCHANGED <<turn, issued, conversation>>
      BY <3>4 DEF deliverReply, LeaseDelivery, DeliveryLeaseLapses,
                  RequireReconciliation, beginReplyDelivery, AcknowledgeFailed,
                  AcknowledgeUncertain
    <3>. QED
      BY <1>4, <3>1, <3>2, <3>3, <3>4 DEF Next, IngestOtherBot, loopVars
  <2>. QED
    BY <2>1, KeptTurns
<1>. QED
  BY <1>3, <1>4

LEMMA TurnInvHolds == Spec => []TurnInv
<1>1. Init => TurnInv
  BY DEF Init, TurnInv, OpenTurnIsCurrent, TurnsOfClaims, NoTurn, OpenStages
<1>2. TypeInv /\ TurnInv /\ [Next]_loopVars => TurnInv'
  BY ClaimedTurns, CompletedTurns, ControlledTurns, OtherTurns
<1>. QED
  BY <1>1, <1>2, TypesHold, PTL DEF Spec

(* However its leases expire, its workers crash and its owner interferes, a
   guild never has two open turns: DEC-005 of docs/personality.md. *)
THEOREM OpenTurnIsCurrentHolds == Spec => []OpenTurnIsCurrent
<1>1. TurnInv => OpenTurnIsCurrent
  BY DEF TurnInv
<1>. QED
  BY TurnInvHolds, <1>1, PTL

-----------------------------------------------------------------------------
(* Visible replies. *)

Publishes(q) == Visible' = Visible \cup {q}

(* No rewriting of a row but a confirmation makes it visible or hides it. *)
LEMMA RewrittenRows ==
    ASSUME NEW o, WellFormed(o)
    PROVE  /\ (Invalidated(o).event = "committed") <=> (o.event = "committed")
           /\ (Superseded(o).event = "committed") <=> (o.event = "committed")
           /\ [o EXCEPT !.status = "finalized"].event = o.event
           /\ \A f, k : Refenced(o, f, k).event = o.event
BY DEF WellFormed, ReplyRecord, Invalidated, Superseded, Refenced

LEMMA ClaimedVisible ==
    ASSUME TypeInv, NEW c \in Channels, NEW k \in Claims, claimLoop(c, k)
    PROVE  Visible' = Visible
<1>1. \A q \in Replies : WellFormed(outbox[q])
  BY TypeInvOutbox
<1>2. \A q \in Replies : \/ outbox'[q] = outbox[q]
                         \/ outbox'[q] = Invalidated(outbox[q])
                         \/ \E f : outbox'[q] = Refenced(outbox[q], f, k)
  BY DEF claimLoop, RecoverLoop, StartLoop, invalidateRunOutbox
<1>. QED
  BY <1>1, <1>2, RewrittenRows DEF Visible

LEMMA CompletedVisible ==
    ASSUME TypeInv, NEW k \in Claims, completeLoop(k)
    PROVE  Visible' = Visible
<1>1. \A q \in Replies : WellFormed(outbox[q])
  BY TypeInvOutbox
<1>2. \A q \in Replies : \/ outbox'[q] = outbox[q]
                         \/ outbox'[q] = Invalidated(outbox[q])
                         \/ outbox'[q] = [outbox[q] EXCEPT !.status = "finalized"]
  BY DEF completeLoop, FailLoop, FinishLoop, invalidateRunOutbox, FinalizedReplies
<1>3. ASSUME NEW q \in Replies
      PROVE  (outbox'[q].event = "committed") <=> (outbox[q].event = "committed")
  <2>1. WellFormed(outbox[q])
    BY <1>1
  <2>2. [outbox[q] EXCEPT !.status = "finalized"].event = outbox[q].event
    BY <2>1, RewrittenRows
  <2>3. (Invalidated(outbox[q]).event = "committed") <=> (outbox[q].event = "committed")
    BY <2>1, RewrittenRows
  <2>. QED
    BY <1>2, <2>2, <2>3
<1>. QED
  BY <1>3 DEF Visible

LEMMA ControlledVisible ==
    ASSUME TypeInv, Controls, ~deleteGuildConversationPrivacyData
    PROVE  Visible' = Visible
<1>1. \A q \in Replies : WellFormed(outbox[q])
  BY TypeInvOutbox
<1>2. \A q \in Replies : \/ outbox'[q] = outbox[q]
                         \/ outbox'[q] = Invalidated(outbox[q])
                         \/ outbox'[q] = Superseded(outbox[q])
  BY DEF Controls, setChannelRoles, setGuildRouting, ApplyRoles, resetGuildConversation,
         invalidateRunOutbox, SupersededReplies
<1>. QED
  BY <1>1, <1>2, RewrittenRows DEF Visible

LEMMA OtherVisible ==
    ASSUME TypeInv, [Next]_loopVars,
           ~ \E c \in Channels, k \in Claims : claimLoop(c, k),
           ~ \E k \in Claims : completeLoop(k),
           ~Controls
    PROVE  Visible' = Visible \/ \E q \in Replies : Publishes(q)
<1>1. ASSUME NEW q \in Replies, IngestBotReply(q) \/ AcknowledgeSent(q)
      PROVE  Publishes(q)
  <2>1. Confirmation(q)
    BY <1>1, ConfirmedDeliveries
  <2>2. Committed(Sent(outbox[q])).event = "committed"
    BY <2>1, TypeInvOutbox
       DEF Confirmation, Committed, Sent, WellFormed, ReplyShape, ReplyRecord
  <2>3. outbox' = [outbox EXCEPT ![q] = Committed(Sent(outbox[q]))]
    BY <2>1 DEF Confirmation
  <2>. QED
    BY <2>2, <2>3 DEF Publishes, Visible, TypeInv, TypeOK
<1>2. ASSUME NEW k \in Claims, NEW q \in Replies, enqueueReply(k, q)
      PROVE  Visible' = Visible
  <2>1. outbox[q].event # "committed"
    BY <1>2, TypeInvOutbox DEF enqueueReply, WellFormed, ReplyShape, NoReply
  <2>2. PICK through \in ValidCutoffs(k) :
            outbox' = [outbox EXCEPT ![q] = NewReply(k, q, through)]
    BY <1>2 DEF enqueueReply
  <2>3. NewReply(k, q, through).event = "pending"
    BY DEF NewReply
  <2>. QED
    BY <2>1, <2>2, <2>3 DEF Visible, TypeInv, TypeOK
<1>3. ASSUME NEW q \in Replies, deliverReply(q), ~AcknowledgeSent(q)
      PROVE  Visible' = Visible
  <2>1. /\ \A p \in Replies \ {q} : outbox'[p] = outbox[p]
        /\ (outbox'[q].event = "committed") <=> (outbox[q].event = "committed")
    <3>. USE <1>3 DEF TypeInv, TypeOK, ReplyRecord
    <3>1. CASE LeaseDelivery(q) \/ DeliveryLeaseLapses(q)
      BY <3>1 DEF LeaseDelivery, DeliveryLeaseLapses
    <3>2. CASE RequireReconciliation(q) \/ AcknowledgeUncertain(q)
      BY <3>2 DEF RequireReconciliation, AcknowledgeUncertain
    <3>3. CASE beginReplyDelivery(q)
      BY <3>3 DEF beginReplyDelivery
    <3>4. CASE AcknowledgeFailed(q)
      BY <3>4 DEF AcknowledgeFailed
    <3>. QED
      BY <3>1, <3>2, <3>3, <3>4 DEF deliverReply
  <2>. QED
    BY <2>1 DEF Visible
<1>4. CASE UNCHANGED outbox
  BY <1>4 DEF Visible
<1>. QED
  BY <1>1, <1>2, <1>3, <1>4
     DEF Next, IngestHuman, IngestOtherBot, LeaseExpires, getNewestContext, heartbeat,
         recordFrontmanResume, loopVars

-----------------------------------------------------------------------------
(* The refinement. *)

LEMMA InitImplements == Init => Turns!Init
BY DEF Init, Turns!Init, TurnInProgress, TurnOver, NoTurn, NoReply

LEMMA StepImplements ==
    ASSUME TypeInv, TurnInv, [Next]_loopVars
    PROVE  [Turns!Next]_(Turns!turnVars)
<1>. USE DEF InProgress, Over, Visible
<1>1. ASSUME Kept, Visible' = Visible  PROVE UNCHANGED Turns!turnVars
  BY <1>1 DEF Kept, Turns!turnVars
<1>2. ASSUME Ended, Visible' = Visible  PROVE [Turns!Next]_(Turns!turnVars)
  <2>1. CASE InProgress = {}
    BY <1>2, <2>1 DEF Ended, Turns!turnVars
  <2>2. CASE InProgress # {}
    BY <1>2, <2>2 DEF Ended, Turns!Next, Turns!End
  <2>. QED
    BY <2>1, <2>2
<1>3. ASSUME NEW c \in Channels, NEW k \in Claims, claimLoop(c, k)
      PROVE  [Turns!Next]_(Turns!turnVars)
  <2>1. Visible' = Visible
    BY <1>3, ClaimedVisible
  <2>2. CASE Kept
    BY <1>1, <2>1, <2>2
  <2>3. CASE /\ k \notin InProgress \cup Over
             /\ InProgress' = {k}
             /\ Over' = Over \cup InProgress
    BY <2>1, <2>3 DEF Turns!Next, Turns!Begin
  <2>. QED
    BY <1>3, <2>2, <2>3, ClaimedTurns
<1>4. ASSUME NEW k \in Claims, completeLoop(k)
      PROVE  [Turns!Next]_(Turns!turnVars)
  BY <1>2, <1>4, CompletedTurns, CompletedVisible
<1>5. CASE deleteGuildConversationPrivacyData
  <2>1. /\ turn' = [r \in Claims |-> NoTurn]
        /\ outbox' = [q \in Replies |-> NoReply]
    BY <1>5 DEF deleteGuildConversationPrivacyData
  <2>2. InProgress' = {} /\ Over' = {} /\ Visible' = {}
    BY <2>1 DEF TurnInProgress, TurnOver, NoTurn, NoReply
  <2>. QED
    BY <2>2 DEF Turns!Next, Turns!Erase
<1>6. CASE Controls /\ ~deleteGuildConversationPrivacyData
  BY <1>1, <1>2, <1>6, ControlledTurns, ControlledVisible
<1>7. CASE /\ ~ \E c \in Channels, k \in Claims : claimLoop(c, k)
           /\ ~ \E k \in Claims : completeLoop(k)
           /\ ~Controls
  <2>1. Kept /\ (Visible' = Visible \/ \E q \in Replies : Publishes(q))
    BY <1>7, OtherTurns, OtherVisible
  <2>2. CASE Visible' = Visible
    BY <1>1, <2>1, <2>2
  <2>3. ASSUME NEW q \in Replies, Publishes(q), q \in Visible
        PROVE  Visible' = Visible
    BY <2>3 DEF Publishes
  <2>4. ASSUME NEW q \in Replies, Publishes(q), q \notin Visible
        PROVE  Turns!Next
    BY <2>1, <2>4 DEF Kept, Publishes, Turns!Next, Turns!Publish
  <2>. QED
    BY <2>1, <2>2, <2>3, <2>4
<1>. QED
  BY <1>3, <1>4, <1>5, <1>6, <1>7

(* The loop, with its leases, fences, recoveries and late answers, does only
   what GuildTurns allows: one turn in progress at a time, from its claim until
   the conversation lets it go; a turn let go is at a terminal stage and stays
   there, whatever stage a draft, a heartbeat or a reply recorded before and
   whoever still presents its fence; replies become visible once. *)
THEOREM LoopImplementsGuildTurns == Spec => ImplementsGuildTurns
<1>. QED
  BY InitImplements, StepImplements, TypesHold, TurnInvHolds, PTL
     DEF Spec, ImplementsGuildTurns, Turns!Spec

-----------------------------------------------------------------------------
(* Runs, windows, cutoffs and replies.  The four parts are inductive only
   together. *)

(* The names documents call each other by.  A run, and what it was issued, has
   the name of a claim that was made; a channel and the conversation name runs
   that exist, and a run they both name is active; a reply names its run and
   the channel that run works on. *)
RunsOfClaims ==
    /\ \A r \in Claims : run[r].status # "absent" => /\ issued[r] # NoFence
                                                   /\ run[r].chan \in Channels
    /\ \A k \in Claims : issued[k].run # None => issued[issued[k].run] # NoFence

RunsOfChannels ==
    /\ \A c \in Channels : channelState[c].run # None =>
        /\ run[channelState[c].run].status # "absent"
        /\ run[channelState[c].run].chan = c
    /\ conversation.run # None =>
        /\ run[conversation.run].status # "absent"
        /\ \A k \in Claims : issued[k].run = conversation.run
                => run[conversation.run].chan = issued[k].chan
        /\ \A c \in Channels : channelState[c].run = conversation.run
                => run[conversation.run].status = "active"

RowNames(q) ==
    outbox[q].status # "absent" =>
        /\ run[outbox[q].run].status # "absent"
        /\ run[outbox[q].run].chan = outbox[q].chan
        /\ outbox[q].run = conversation.run => outbox[q].epoch = conversation.epoch
        /\ q \in Finals => outbox[q].finalizesLoop

NamesInv == RunsOfClaims /\ RunsOfChannels /\ \A q \in Replies : RowNames(q)

(* Cursors stay within the channel, and a completed window before them. *)
CursorsInOrder ==
    \A c \in Channels : /\ channelState[c].completed <= channelState[c].latest
                        /\ channelState[c].trigger <= channelState[c].latest
                        /\ \A m \in mentions[c] : m <= channelState[c].latest

CompletedWindow(r) ==
    run[r].status = "completed" =>
        /\ run[r].windowStart <= run[r].windowEnd
        /\ run[r].windowEnd <= channelState[run[r].chan].completed

WindowsInv == /\ CursorsInOrder
              /\ \A r \in Claims : CompletedWindow(r)
              /\ WindowsInOrder

(* No explicit trigger between the end of a run's window and n. *)
Clear(r, n) ==
    /\ n <= channelState[run[r].chan].latest
    /\ \A m \in mentions[run[r].chan] : m <= run[r].windowEnd \/ n < m

CutoffsInv ==
    /\ \A r \in Claims : run[r].status # "absent" => Clear(r, turn[r].eligibleThrough)
    /\ \A q \in Replies : outbox[q].status # "absent"
            => Clear(outbox[q].run, outbox[q].consumes)

(* An unsettled reply of the run that channel and conversation name has their
   fence. *)
CurrentRow(o) ==
    /\ o.status \in Unsettled
    /\ o.run = conversation.run
    /\ o.run = channelState[o.chan].run
    => ReplyFence(o)

RepliesInv == /\ \A q \in Replies : CurrentRow(outbox[q])
              /\ ActiveRunsSpeakOnce

LoopInv == NamesInv /\ WindowsInv /\ CutoffsInv /\ RepliesInv

-----------------------------------------------------------------------------
(* What most steps do: rows, channels and runs lose claims to be current, and
   gain none. *)

RowKept(o, p) ==
    /\ p.status # "absent" => o.status # "absent"
    /\ p.status \in Unsettled => o.status \in Unsettled
    /\ p.status \in Sendable => o.status \in Sendable
    /\ p.status # "absent" =>
        /\ p.run = o.run /\ p.chan = o.chan /\ p.finalizesLoop = o.finalizesLoop
        /\ p.generation = o.generation /\ p.epoch = o.epoch
        /\ p.conversationGeneration = o.conversationGeneration
        /\ p.routing = o.routing /\ p.token = o.token /\ p.consumes = o.consumes

ChannelKept(s, t) ==
    /\ s.latest <= t.latest
    /\ s.completed <= t.completed
    /\ t.completed <= t.latest
    /\ t.trigger <= t.latest
    /\ t.run # None => /\ t.run = s.run
                       /\ t.generation = s.generation
                       /\ t.completed = s.completed
                       /\ s.trigger <= t.trigger

MentionsKept(c) ==
    \A m \in mentions'[c] : /\ m <= channelState'[c].latest
                            /\ m \in mentions[c] \/ channelState[c].latest < m

ConversationKept(v, w) ==
    w.run # None => /\ w.run = v.run
                    /\ w.epoch = v.epoch
                    /\ w.generation = v.generation
                    /\ w.routing = v.routing
                    /\ w.token = v.token

WindowKept(r) ==
    /\ run'[r].status = "absent" <=> run[r].status = "absent"
    /\ run'[r].chan = run[r].chan
    /\ run'[r].windowStart = run[r].windowStart
    /\ run'[r].windowEnd = run[r].windowEnd
    /\ run'[r].status = "active" => run[r].status = "active"

(* A run that completes leaves its channel, with its window consumed. *)
CompletionKept(r) ==
    run'[r].status = "completed" /\ run[r].status # "completed" =>
        /\ run[r].status = "active"
        /\ channelState[run[r].chan].run = r
        /\ channelState'[run[r].chan].run = None
        /\ run[r].windowEnd <= channelState'[run[r].chan].completed

(* A run that ends takes back what it had to say, and is not named any more by
   both its channel and the conversation. *)
EndKept(r) ==
    run[r].status = "active" /\ run'[r].status # "active" =>
        /\ \A q \in Replies : outbox'[q].run = r => outbox'[q].status \notin Sendable
        /\ \A c \in Channels : channelState'[c].run = r => conversation'.run # r

CutoffKept(r) ==
    run[r].status # "absent" =>
        \/ turn'[r].eligibleThrough = turn[r].eligibleThrough
        \/ Clear(r, turn'[r].eligibleThrough)

(* A cursor advances by a restart or by a run's completion, and then to where
   no trigger of another turn is passed. *)
CursorKept(c) ==
    \/ channelState'[c].completed = channelState[c].completed
    \/ channelState'[c].generation # channelState[c].generation
    \/ \E r \in Claims : /\ run[r].status = "active" /\ run'[r].status = "completed"
                         /\ channelState[c].run = r
                         /\ Clear(r, channelState'[c].completed)

RowsKept == \A q \in Replies : RowKept(outbox[q], outbox'[q])
ChannelsKept ==
    \A c \in Channels : /\ ChannelKept(channelState[c], channelState'[c])
                        /\ MentionsKept(c)
                        /\ CursorKept(c)
RunsKept ==
    \A r \in Claims : /\ WindowKept(r) /\ CompletionKept(r) /\ EndKept(r)
                      /\ CutoffKept(r)
DocumentsKept ==
    /\ ChannelsKept
    /\ RunsKept
    /\ ConversationKept(conversation, conversation')
    /\ issued' = issued

LoopKept == RowsKept /\ DocumentsKept

-----------------------------------------------------------------------------
(* Such a step keeps each part of the invariant. *)

LEMMA NamesKept ==
    ASSUME TypeInv, LoopInv, DocumentsKept
    PROVE  /\ RunsOfClaims'
           /\ RunsOfChannels'
           /\ \A q \in Replies : RowKept(outbox[q], outbox'[q]) => RowNames(q)'
<1>. USE DEF LoopInv, NamesInv, DocumentsKept
<1>1. RunsOfClaims'
  BY DEF RunsOfClaims, RunsKept, WindowKept
<1>2. \A c \in Channels : channelState[c].run \in Claims \cup {None}
  BY DEF TypeInv, TypeOK, ChannelRecord
<1>3. conversation.run \in Claims \cup {None}
  BY DEF TypeInv, TypeOK, ConversationRecord
<1>4. \A c \in Channels : channelState'[c].run # None =>
        channelState'[c].run = channelState[c].run
  BY DEF ChannelsKept, ChannelKept
<1>5. conversation'.run # None => conversation'.run = conversation.run
  BY DEF ConversationKept
<1>6. RunsOfChannels'
  <2>1. \A c \in Channels : channelState'[c].run # None =>
            /\ run'[channelState'[c].run].status # "absent"
            /\ run'[channelState'[c].run].chan = c
    BY <1>2, <1>4 DEF RunsOfChannels, RunsKept, WindowKept
  <2>2. ASSUME conversation'.run # None
        PROVE  /\ run'[conversation'.run].status # "absent"
               /\ \A k \in Claims : issued'[k].run = conversation'.run
                    => run'[conversation'.run].chan = issued'[k].chan
    BY <1>3, <1>5, <2>2 DEF RunsOfChannels, RunsKept, WindowKept
  <2>3. ASSUME conversation'.run # None,
               NEW c \in Channels, channelState'[c].run = conversation'.run
        PROVE  run'[conversation'.run].status = "active"
    <3>1. conversation.run \in Claims /\ run[conversation.run].status = "active"
      BY <1>2, <1>3, <1>4, <1>5, <2>3 DEF RunsOfChannels
    <3>. QED
      BY <1>5, <2>3, <3>1 DEF RunsKept, EndKept
  <2>. QED
    BY <2>1, <2>2, <2>3 DEF RunsOfChannels
<1>7. ASSUME NEW q \in Replies, RowKept(outbox[q], outbox'[q]), outbox'[q].status # "absent"
      PROVE  RowNames(q)'
  <2>1. /\ outbox[q].status # "absent"
        /\ outbox'[q].run = outbox[q].run
        /\ outbox'[q].chan = outbox[q].chan
        /\ outbox'[q].epoch = outbox[q].epoch
        /\ outbox'[q].finalizesLoop = outbox[q].finalizesLoop
    BY <1>7 DEF RowKept
  <2>2. outbox[q].run \in Claims /\ outbox[q].run # None
    BY <2>1, NoneAssumption DEF TypeInv, ReplyShape
  <2>3. conversation'.run = outbox[q].run => conversation'.epoch = conversation.epoch
    BY <2>2 DEF ConversationKept
  <2>. QED
    BY <1>5, <2>1, <2>2, <2>3 DEF RowNames, RunsKept, WindowKept
<1>. QED
  BY <1>1, <1>6, <1>7 DEF RowNames

LEMMA WindowsKept ==
    ASSUME TypeInv, TypeInv', LoopInv, DocumentsKept
    PROVE  WindowsInv'
<1>. USE DEF LoopInv, DocumentsKept
<1>1. CursorsInOrder'
  BY DEF CursorsInOrder, ChannelsKept, ChannelKept, MentionsKept
<1>2. /\ \A c \in Channels : channelState[c] \in ChannelRecord /\ channelState'[c] \in ChannelRecord
      /\ \A r \in Claims : run[r] \in RunRecord /\ run'[r] \in RunRecord
  BY DEF TypeInv, TypeOK
<1>3. \A c \in Channels : channelState'[c].run # None =>
        /\ channelState'[c].run = channelState[c].run
        /\ channelState'[c].completed = channelState[c].completed
        /\ channelState[c].trigger <= channelState'[c].trigger
  BY DEF ChannelsKept, ChannelKept
<1>4. ASSUME NEW c \in Channels, channelState'[c].run # None,
             run'[channelState'[c].run].status = "active"
      PROVE  /\ run'[channelState'[c].run].chan = c
             /\ run'[channelState'[c].run].windowStart = channelState'[c].completed + 1
             /\ run'[channelState'[c].run].windowEnd
                    \in run'[channelState'[c].run].windowStart..channelState'[c].trigger
  <2>. DEFINE r == channelState[c].run
  <2>1. r \in Claims /\ channelState'[c].run = r
    BY <1>2, <1>3, <1>4 DEF ChannelRecord
  <2>2. /\ run[r].status = "active"
        /\ run'[r].chan = run[r].chan
        /\ run'[r].windowStart = run[r].windowStart
        /\ run'[r].windowEnd = run[r].windowEnd
    BY <1>4, <2>1 DEF RunsKept, WindowKept
  <2>3. /\ run[r].chan = c
        /\ run[r].windowStart = channelState[c].completed + 1
        /\ run[r].windowEnd \in run[r].windowStart..channelState[c].trigger
    BY <1>4, <2>1, <2>2 DEF WindowsInv, WindowsInOrder
  <2>4. /\ channelState[c].trigger \in Nat /\ channelState'[c].trigger \in Nat
        /\ run[r].windowStart \in Nat /\ run[r].windowEnd \in Nat
        /\ channelState[c].trigger <= channelState'[c].trigger
        /\ channelState'[c].completed = channelState[c].completed
    BY <1>2, <1>3, <1>4, <2>1 DEF ChannelRecord, RunRecord
  <2>5. run[r].windowEnd \in run[r].windowStart..channelState'[c].trigger
    BY <2>3, <2>4
  <2>. QED
    BY <2>1, <2>2, <2>3, <2>4, <2>5
<1>5. ASSUME NEW r \in Claims, run'[r].status = "completed", run[r].status # "completed"
      PROVE  /\ run[r].chan \in Channels
             /\ channelState[run[r].chan].run = r
             /\ run[r].windowStart = channelState[run[r].chan].completed + 1
             /\ run[r].windowStart <= run[r].windowEnd
             /\ run[r].windowEnd <= channelState'[run[r].chan].completed
  <2>1. CompletionKept(r)
    BY DEF RunsKept
  <2>2. r # None
    BY NoneAssumption
  <2>. QED
    BY <1>2, <1>5, <2>1, <2>2
       DEF CompletionKept, WindowsInv, WindowsInOrder, RunRecord, ChannelRecord,
           NamesInv, RunsOfClaims
<1>6. ASSUME NEW r \in Claims  PROVE CompletedWindow(r)'
  <2>1. CASE run[r].status = "completed"
    <3>1. /\ run[r].chan \in Channels
          /\ run[r].windowStart <= run[r].windowEnd
          /\ run[r].windowEnd <= channelState[run[r].chan].completed
      BY <2>1 DEF WindowsInv, CompletedWindow, NamesInv, RunsOfClaims
    <3>2. channelState[run[r].chan].completed <= channelState'[run[r].chan].completed
      BY <3>1 DEF ChannelsKept, ChannelKept
    <3>3. run[r].windowEnd <= channelState'[run[r].chan].completed
      BY <1>2, <3>1, <3>2 DEF RunRecord, ChannelRecord
    <3>. QED
      BY <3>1, <3>3 DEF CompletedWindow, RunsKept, WindowKept
  <2>2. CASE run[r].status # "completed"
    BY <1>5, <2>2 DEF CompletedWindow, RunsKept, WindowKept
  <2>. QED
    BY <2>1, <2>2
<1>7. ASSUME NEW r1 \in Claims, NEW r2 \in Claims, r1 # r2,
             run'[r1].status = "completed", run'[r2].status = "completed",
             run'[r1].chan = run'[r2].chan
      PROVE  \/ run'[r1].windowEnd < run'[r2].windowStart
             \/ run'[r2].windowEnd < run'[r1].windowStart
  <2>1. run[r1].chan = run[r2].chan
    BY <1>7 DEF RunsKept, WindowKept
  <2>2. ASSUME NEW r \in Claims, NEW p \in Claims, run[r].chan = run[p].chan,
               run[r].status = "completed", run'[p].status = "completed",
               run[p].status # "completed"
        PROVE  run[r].windowEnd < run[p].windowStart
    <3>1. /\ run[r].chan \in Channels
          /\ run[r].windowEnd <= channelState[run[r].chan].completed
      BY <2>2 DEF WindowsInv, CompletedWindow, NamesInv, RunsOfClaims
    <3>2. run[p].windowStart = channelState[run[r].chan].completed + 1
      BY <1>5, <2>2
    <3>3. channelState[run[r].chan].completed \in Nat /\ run[r].windowEnd \in Nat
      BY <1>2, <3>1 DEF RunRecord, ChannelRecord
    <3>. QED
      BY <3>1, <3>2, <3>3
  <2>3. CASE run[r1].status = "completed" /\ run[r2].status = "completed"
    <3>1. \/ run[r1].windowEnd < run[r2].windowStart
          \/ run[r2].windowEnd < run[r1].windowStart
      BY <1>7, <2>1, <2>3 DEF WindowsInv, WindowsInOrder
    <3>. QED
      BY <3>1 DEF RunsKept, WindowKept
  <2>4. CASE run[r1].status = "completed" /\ run[r2].status # "completed"
    <3>1. run[r1].windowEnd < run[r2].windowStart
      BY <1>7, <2>1, <2>2, <2>4
    <3>. QED
      BY <3>1 DEF RunsKept, WindowKept
  <2>5. CASE run[r1].status # "completed" /\ run[r2].status = "completed"
    <3>1. run[r2].windowEnd < run[r1].windowStart
      BY <1>7, <2>1, <2>2, <2>5
    <3>. QED
      BY <3>1 DEF RunsKept, WindowKept
  <2>6. CASE run[r1].status # "completed" /\ run[r2].status # "completed"
    <3>1. channelState[run[r1].chan].run = r1 /\ channelState[run[r2].chan].run = r2
      BY <1>5, <1>7, <2>6
    <3>. QED
      BY <1>7, <2>1, <3>1
  <2>. QED
    BY <2>3, <2>4, <2>5, <2>6
<1>8. WindowsInOrder'
  BY <1>4, <1>7 DEF WindowsInOrder
<1>. QED
  BY <1>1, <1>6, <1>8 DEF WindowsInv

LEMMA ClearKept ==
    ASSUME TypeInv, TypeInv', LoopInv, DocumentsKept,
           NEW r \in Claims, run[r].status # "absent", NEW n \in Nat, Clear(r, n)
    PROVE  /\ n <= channelState'[run'[r].chan].latest
           /\ \A m \in mentions'[run'[r].chan] : m <= run'[r].windowEnd \/ n < m
<1>. DEFINE c == run[r].chan
<1>1. /\ c \in Channels
      /\ run'[r].chan = c
      /\ run'[r].windowEnd = run[r].windowEnd
  BY DEF LoopInv, NamesInv, RunsOfClaims, DocumentsKept, RunsKept, WindowKept
<1>2. /\ channelState[c].latest \in Nat /\ channelState'[c].latest \in Nat
      /\ mentions'[c] \subseteq Nat
  BY <1>1 DEF TypeInv, TypeOK, ChannelRecord
<1>3. /\ channelState[c].latest <= channelState'[c].latest
      /\ \A m \in mentions'[c] : m \in mentions[c] \/ channelState[c].latest < m
  BY <1>1 DEF DocumentsKept, ChannelsKept, ChannelKept, MentionsKept
<1>4. /\ n <= channelState[c].latest
      /\ \A m \in mentions[c] : m <= run[r].windowEnd \/ n < m
  BY DEF Clear
<1>5. n <= channelState'[c].latest
  BY <1>2, <1>3, <1>4
<1>6. \A m \in mentions'[c] : m <= run[r].windowEnd \/ n < m
  BY <1>2, <1>3, <1>4
<1>. QED
  BY <1>1, <1>5, <1>6

LEMMA CutoffsKept ==
    ASSUME TypeInv, TypeInv', LoopInv, DocumentsKept
    PROVE  /\ \A r \in Claims : run'[r].status # "absent"
                    => Clear(r, turn[r].eligibleThrough)'
           /\ \A q \in Replies :
                RowKept(outbox[q], outbox'[q]) /\ outbox'[q].status # "absent"
                    => Clear(outbox[q].run, outbox[q].consumes)'
<1>1. ASSUME NEW r \in Claims, run'[r].status # "absent"
      PROVE  Clear(r, turn[r].eligibleThrough)'
  <2>1. run[r].status # "absent" /\ CutoffKept(r)
    BY <1>1 DEF DocumentsKept, RunsKept, WindowKept
  <2>2. Clear(r, turn[r].eligibleThrough)
    BY <2>1 DEF LoopInv, CutoffsInv
  <2>3. PICK n \in Nat : n = turn'[r].eligibleThrough
    BY DEF TypeInv, TypeOK, TurnRecord
  <2>4. Clear(r, n)
    BY <2>1, <2>2, <2>3 DEF CutoffKept
  <2>5. /\ n <= channelState'[run'[r].chan].latest
        /\ \A m \in mentions'[run'[r].chan] : m <= run'[r].windowEnd \/ n < m
    BY <2>1, <2>4, ClearKept
  <2>. QED
    BY <2>3, <2>5 DEF Clear
<1>2. ASSUME NEW q \in Replies, RowKept(outbox[q], outbox'[q]), outbox'[q].status # "absent"
      PROVE  Clear(outbox[q].run, outbox[q].consumes)'
  <2>1. /\ outbox[q].status # "absent"
        /\ outbox'[q].run = outbox[q].run
        /\ outbox'[q].consumes = outbox[q].consumes
    BY <1>2 DEF RowKept
  <2>2. PICK r \in Claims : r = outbox[q].run
    BY <2>1 DEF TypeInv, ReplyShape
  <2>3. PICK n \in Nat : n = outbox[q].consumes
    BY DEF TypeInv, TypeOK, ReplyRecord
  <2>4. run[r].status # "absent" /\ Clear(r, n)
    BY <2>1, <2>2, <2>3 DEF LoopInv, NamesInv, RowNames, CutoffsInv
  <2>5. /\ n <= channelState'[run'[r].chan].latest
        /\ \A m \in mentions'[run'[r].chan] : m <= run'[r].windowEnd \/ n < m
    BY <2>4, ClearKept
  <2>. QED
    BY <2>1, <2>2, <2>3, <2>5 DEF Clear
<1>. QED
  BY <1>1, <1>2

(* Rows: a current row stays current or loses its run. *)
LEMMA CurrentRowsKept ==
    ASSUME TypeInv, LoopInv, DocumentsKept, NEW q \in Replies,
           RowKept(outbox[q], outbox'[q])
    PROVE  CurrentRow(outbox[q])'
<1>. SUFFICES ASSUME /\ outbox'[q].status \in Unsettled
                     /\ outbox'[q].run = conversation'.run
                     /\ outbox'[q].run = channelState'[outbox'[q].chan].run
              PROVE  ReplyFence(outbox[q])'
  BY DEF CurrentRow
<1>1. outbox[q].status \in Unsettled /\ outbox[q].status # "absent"
      /\ outbox'[q].status # "absent"
  BY DEF RowKept, Unsettled
<1>2. /\ outbox'[q].run = outbox[q].run /\ outbox'[q].chan = outbox[q].chan
      /\ outbox'[q].generation = outbox[q].generation
      /\ outbox'[q].epoch = outbox[q].epoch
      /\ outbox'[q].conversationGeneration = outbox[q].conversationGeneration
      /\ outbox'[q].routing = outbox[q].routing
      /\ outbox'[q].token = outbox[q].token
  BY <1>1 DEF RowKept
<1>3. /\ outbox[q].run \in Claims /\ outbox[q].run # None
      /\ outbox[q].chan \in Channels
  BY <1>1, NoneAssumption DEF TypeInv, ReplyShape
<1>4. /\ conversation'.run = conversation.run
      /\ conversation'.epoch = conversation.epoch
      /\ conversation'.generation = conversation.generation
      /\ conversation'.routing = conversation.routing
      /\ conversation'.token = conversation.token
  BY <1>2, <1>3 DEF DocumentsKept, ConversationKept
<1>5. /\ channelState'[outbox[q].chan].run = channelState[outbox[q].chan].run
      /\ channelState'[outbox[q].chan].generation = channelState[outbox[q].chan].generation
  BY <1>2, <1>3 DEF DocumentsKept, ChannelsKept, ChannelKept
<1>6. ReplyFence(outbox[q])
  BY <1>1, <1>2, <1>4, <1>5 DEF LoopInv, RepliesInv, CurrentRow
<1>. QED
  BY <1>1, <1>2, <1>4, <1>5, <1>6
     DEF ReplyFence, ReplyChannelFence, isCurrentDiscordGeneration

LEMMA RepliesKept ==
    ASSUME TypeInv, LoopInv, LoopKept
    PROVE  RepliesInv'
<1>. USE DEF LoopKept, RowsKept
<1>1. \A q \in Replies : CurrentRow(outbox[q])'
  BY CurrentRowsKept
<1>2. ASSUME NEW q \in Replies, outbox'[q].status \in Sendable
      PROVE  run'[outbox'[q].run].status = "active"
  <2>1. /\ outbox[q].status \in Sendable
        /\ outbox[q].status # "absent"
        /\ outbox'[q].run = outbox[q].run
    BY <1>2 DEF RowKept, Sendable
  <2>2. outbox[q].run \in Claims /\ run[outbox[q].run].status = "active"
    BY <2>1 DEF TypeInv, ReplyShape, LoopInv, RepliesInv, ActiveRunsSpeakOnce, Sendable
  <2>. QED
    BY <1>2, <2>1, <2>2 DEF DocumentsKept, RunsKept, EndKept
<1>3. ASSUME NEW p \in Finals, NEW q \in Finals, p # q,
             outbox'[p].run = outbox'[q].run,
             outbox'[p].status \in Unsettled, outbox'[q].status \in Unsettled
      PROVE  FALSE
  <2>1. /\ outbox[p].status \in Unsettled /\ outbox[q].status \in Unsettled
        /\ outbox[p].run = outbox[q].run
    BY <1>3 DEF RowKept, Unsettled, Replies
  <2>. QED
    BY <1>3, <2>1 DEF LoopInv, RepliesInv, ActiveRunsSpeakOnce
<1>. QED
  BY <1>1, <1>2, <1>3 DEF RepliesInv, ActiveRunsSpeakOnce, Sendable

LEMMA LoopInvKept ==
    ASSUME TypeInv, TypeInv', LoopInv, LoopKept
    PROVE  LoopInv'
<1>1. NamesInv'
  BY NamesKept DEF LoopKept, RowsKept, NamesInv
<1>2. WindowsInv'
  BY WindowsKept DEF LoopKept
<1>3. CutoffsInv'
  BY CutoffsKept DEF LoopKept, RowsKept, CutoffsInv
<1>. QED
  BY <1>1, <1>2, <1>3, RepliesKept DEF LoopInv

-----------------------------------------------------------------------------
(* The steps that keep what they find. *)

LEMMA SameRuns ==
    ASSUME UNCHANGED run, \A r \in Claims : turn'[r].eligibleThrough = turn[r].eligibleThrough
    PROVE  RunsKept
BY DEF RunsKept, WindowKept, CompletionKept, EndKept, CutoffKept

LEMMA UnchangedRuns ==
    ASSUME UNCHANGED <<run, turn>>
    PROVE  RunsKept
BY SameRuns

LEMMA UnchangedRows ==
    ASSUME UNCHANGED outbox
    PROVE  RowsKept
BY DEF RowsKept, RowKept

LEMMA UnchangedChannel ==
    ASSUME TypeInv, LoopInv, NEW c \in Channels,
           channelState'[c] = channelState[c], mentions'[c] = mentions[c]
    PROVE  /\ ChannelKept(channelState[c], channelState'[c])
           /\ MentionsKept(c)
           /\ CursorKept(c)
<1>1. channelState[c] \in ChannelRecord
  BY DEF TypeInv, TypeOK
<1>. QED
  BY <1>1 DEF ChannelKept, MentionsKept, CursorKept, LoopInv, WindowsInv, CursorsInOrder,
              ChannelRecord

LEMMA UnchangedChannels ==
    ASSUME TypeInv, LoopInv, UNCHANGED <<channelState, mentions>>
    PROVE  ChannelsKept
BY UnchangedChannel DEF ChannelsKept

LEMMA ConversationsKept ==
    ASSUME NEW v \in ConversationRecord
    PROVE  /\ ConversationKept(v, v)
           /\ ConversationKept(v, [v EXCEPT !.lease = "expired"])
           /\ ConversationKept(v, [v EXCEPT !.revision = @ + 1])
           /\ ConversationKept(v, ReserveOrdinal(v))
           /\ ConversationKept(v, [ReserveOrdinal(v) EXCEPT !.revision = @ + 1,
                                                            !.humanRevision = @ + 1])
           /\ ClearedConversation(v).run = None
BY DEF ConversationKept, ReserveOrdinal, ConversationRecord, ClearedConversation

LEMMA IngestHumanKept ==
    ASSUME TypeInv, LoopInv, NEW c \in Channels, NEW mention \in BOOLEAN,
           IngestHuman(c, mention)
    PROVE  LoopKept
<1>. DEFINE s == channelState[c]
            t == channelState'[c]
<1>1. /\ s \in ChannelRecord
      /\ s.completed <= s.latest
      /\ s.trigger <= s.latest
      /\ \A m \in mentions[c] : m <= s.latest
      /\ mentions[c] \subseteq Nat
  BY DEF TypeInv, TypeOK, LoopInv, WindowsInv, CursorsInOrder
<1>2. /\ t.latest = s.latest + 1
      /\ t.trigger = s.latest + 1 \/ t.trigger = s.trigger
      /\ t.completed = s.completed
      /\ t.run = s.run
      /\ t.generation = s.generation
  BY <1>1 DEF IngestHuman, TypeInv, TypeOK, ChannelRecord
<1>3. mentions'[c] \subseteq mentions[c] \cup {s.latest + 1}
  BY DEF IngestHuman, TypeInv, TypeOK
<1>4. \A d \in Channels \ {c} :
        channelState'[d] = channelState[d] /\ mentions'[d] = mentions[d]
  BY DEF IngestHuman, TypeInv, TypeOK
<1>5. ChannelKept(s, t) /\ MentionsKept(c) /\ CursorKept(c)
  <2>1. s.latest \in Nat /\ s.trigger \in Nat /\ s.completed \in Nat
    BY <1>1 DEF ChannelRecord
  <2>. HIDE DEF s, t
  <2>2. ChannelKept(s, t)
    BY <1>1, <1>2, <2>1 DEF ChannelKept
  <2>3. \A m \in mentions'[c] : m <= t.latest /\ (m \in mentions[c] \/ s.latest < m)
    BY <1>1, <1>2, <1>3, <2>1
  <2>. QED
    BY <1>2, <2>2, <2>3 DEF MentionsKept, CursorKept, s, t
<1>6. ChannelsKept
  BY <1>4, <1>5, UnchangedChannel DEF ChannelsKept
<1>7. ConversationKept(conversation, conversation')
  BY ConversationsKept DEF IngestHuman, TypeInv, TypeOK
<1>8. UNCHANGED <<run, turn, issued, outbox>>
  BY DEF IngestHuman
<1>. QED
  BY <1>6, <1>7, <1>8, UnchangedRuns, UnchangedRows DEF LoopKept, DocumentsKept

(* A message of a bot moves the cursor of its channel. *)
LEMMA StoredMessage ==
    ASSUME TypeInv, LoopInv, NEW c \in Channels, StoreBotMessage(c), UNCHANGED mentions
    PROVE  ChannelsKept
<1>. DEFINE s == channelState[c]
            t == channelState'[c]
<1>1. /\ s \in ChannelRecord
      /\ s.completed <= s.latest
      /\ s.trigger <= s.latest
      /\ \A m \in mentions[c] : m <= s.latest
      /\ mentions[c] \subseteq Nat
  BY DEF TypeInv, TypeOK, LoopInv, WindowsInv, CursorsInOrder
<1>2. /\ t.latest = s.latest + 1
      /\ t.trigger = s.trigger
      /\ t.completed = s.completed
      /\ t.run = s.run
      /\ t.generation = s.generation
  BY <1>1 DEF StoreBotMessage, TypeInv, TypeOK, ChannelRecord
<1>3. ChannelKept(s, t) /\ MentionsKept(c) /\ CursorKept(c)
  <2>1. s.latest \in Nat /\ s.trigger \in Nat /\ s.completed \in Nat
    BY <1>1 DEF ChannelRecord
  <2>. HIDE DEF s, t
  <2>2. ChannelKept(s, t)
    BY <1>1, <1>2, <2>1 DEF ChannelKept
  <2>3. \A m \in mentions[c] : m <= t.latest
    BY <1>1, <1>2, <2>1
  <2>. QED
    BY <1>2, <2>2, <2>3 DEF MentionsKept, CursorKept, s, t
<1>4. \A d \in Channels \ {c} : channelState'[d] = channelState[d]
  BY DEF StoreBotMessage, TypeInv, TypeOK
<1>. QED
  BY <1>3, <1>4, UnchangedChannel DEF ChannelsKept

LEMMA IngestOtherBotKept ==
    ASSUME TypeInv, LoopInv, NEW c \in Channels, IngestOtherBot(c)
    PROVE  LoopKept
<1>1. ChannelsKept
  BY StoredMessage DEF IngestOtherBot, StoreBotMessage
<1>2. ConversationKept(conversation, conversation')
  BY DEF IngestOtherBot, ConversationKept
<1>. QED
  BY <1>1, <1>2, UnchangedRuns, UnchangedRows DEF IngestOtherBot, LoopKept, DocumentsKept

LEMMA RowWrittenKept ==
    ASSUME TypeInv, LoopInv, NEW q \in Replies, NEW o, RowWritten(q, o),
           RowKept(outbox[q], o)
    PROVE  LoopKept
<1>1. RowsKept
  BY DEF RowWritten, RowsKept, RowKept, TypeInv, TypeOK
<1>2. ConversationKept(conversation, conversation')
  BY DEF RowWritten, ConversationKept
<1>. QED
  BY <1>1, <1>2, UnchangedRuns, UnchangedChannels
     DEF RowWritten, LoopKept, DocumentsKept

LEMMA ConfirmationKept ==
    ASSUME TypeInv, LoopInv, NEW q \in Replies, Confirmation(q)
    PROVE  LoopKept
<1>. DEFINE o == outbox[q]
<1>1. /\ o \in ReplyRecord
      /\ o.status # "absent"
      /\ o.chan \in Channels
  BY DEF Confirmation, TypeInv, TypeOK, ReplyShape
<1>2. RowKept(o, Committed(Sent(o)))
  BY <1>1 DEF RowKept, Committed, Sent, ReplyRecord, Unsettled, Sendable
<1>3. RowsKept
  BY <1>2 DEF Confirmation, RowsKept, RowKept, TypeInv, TypeOK
<1>4. ConversationKept(conversation, conversation')
  BY ConversationsKept DEF Confirmation, CommitRevision, TypeInv, TypeOK
<1>. QED
  BY <1>1, <1>3, <1>4, StoredMessage, UnchangedRuns
     DEF Confirmation, LoopKept, DocumentsKept

LEMMA DeliveryKept ==
    ASSUME TypeInv, LoopInv, NEW q \in Replies, deliverReply(q) \/ IngestBotReply(q)
    PROVE  LoopKept
<1>. DEFINE o == outbox[q]
<1>1. /\ o \in ReplyRecord
      /\ o.delivery # "none" => o.status \in Sendable
  BY DEF TypeInv, TypeOK, ReplyShape
<1>2. CASE LeaseDelivery(q)
  <2>1. RowWritten(q, [o EXCEPT !.delivery = "leased"])
    BY <1>2 DEF LeaseDelivery, RowWritten
  <2>. HIDE DEF o
  <2>2. RowKept(o, [o EXCEPT !.delivery = "leased"])
    BY <1>1 DEF RowKept, ReplyRecord
  <2>. QED
    BY <2>1, <2>2, RowWrittenKept DEF o
<1>3. CASE DeliveryLeaseLapses(q)
  <2>1. RowWritten(q, [o EXCEPT !.delivery = "lapsed"])
    BY <1>3 DEF DeliveryLeaseLapses, RowWritten
  <2>. HIDE DEF o
  <2>2. RowKept(o, [o EXCEPT !.delivery = "lapsed"])
    BY <1>1 DEF RowKept, ReplyRecord
  <2>. QED
    BY <2>1, <2>2, RowWrittenKept DEF o
<1>4. CASE RequireReconciliation(q)
  <2>1. /\ RowWritten(q, [o EXCEPT !.status = "needs_reconciliation", !.delivery = "none"])
        /\ o.status = "delivery_uncertain"
    BY <1>1, <1>4 DEF RequireReconciliation, RowWritten, TypeInv, TypeOK
  <2>. HIDE DEF o
  <2>2. RowKept(o, [o EXCEPT !.status = "needs_reconciliation", !.delivery = "none"])
    BY <1>1, <2>1 DEF RowKept, ReplyRecord, Unsettled, Sendable
  <2>. QED
    BY <2>1, <2>2, RowWrittenKept DEF o
<1>5. CASE beginReplyDelivery(q)
  <2>1. /\ RowWritten(q, [o EXCEPT !.status = "delivery_uncertain", !.begun = TRUE])
        /\ o.status \in Sendable
    BY <1>1, <1>5 DEF beginReplyDelivery, RowWritten, TypeInv, TypeOK, Sendable
  <2>. HIDE DEF o
  <2>2. RowKept(o, [o EXCEPT !.status = "delivery_uncertain", !.begun = TRUE])
    BY <1>1, <2>1 DEF RowKept, ReplyRecord, Unsettled, Sendable
  <2>. QED
    BY <2>1, <2>2, RowWrittenKept DEF o
<1>6. CASE AcknowledgeFailed(q)
  <2>. DEFINE failed == [o EXCEPT !.status = "failed", !.delivery = "none",
                                  !.event = IF @ = "pending" THEN "failed" ELSE @]
  <2>1. RowWritten(q, failed) /\ o.status # "absent"
    BY <1>6 DEF AcknowledgeFailed, AcknowledgeGuard, RowWritten
  <2>. HIDE DEF o
  <2>2. RowKept(o, failed)
    BY <1>1, <2>1 DEF RowKept, ReplyRecord, Unsettled, Sendable
  <2>. QED
    BY <2>1, <2>2, RowWrittenKept DEF o
<1>7. CASE AcknowledgeUncertain(q)
  <2>1. /\ RowWritten(q, [o EXCEPT !.status = "delivery_uncertain", !.delivery = "none"])
        /\ o.delivery # "none"
    BY <1>1, <1>7 DEF AcknowledgeUncertain, AcknowledgeGuard, RowWritten, TypeInv, TypeOK
  <2>. HIDE DEF o
  <2>2. RowKept(o, [o EXCEPT !.status = "delivery_uncertain", !.delivery = "none"])
    BY <1>1, <2>1 DEF RowKept, ReplyRecord, Unsettled, Sendable
  <2>. QED
    BY <2>1, <2>2, RowWrittenKept DEF o
<1>8. CASE AcknowledgeSent(q) \/ IngestBotReply(q)
  BY <1>8, ConfirmedDeliveries, ConfirmationKept
<1>. QED
  BY <1>2, <1>3, <1>4, <1>5, <1>6, <1>7, <1>8 DEF deliverReply

LEMMA LeaseExpiresKept ==
    ASSUME TypeInv, LoopInv, NEW r \in Claims, LeaseExpires(r)
    PROVE  LoopKept
<1>1. ASSUME NEW c \in Channels
      PROVE  /\ ChannelKept(channelState[c], channelState'[c])
             /\ MentionsKept(c)
             /\ CursorKept(c)
  <2>1. /\ channelState[c] \in ChannelRecord
        /\ channelState'[c].latest = channelState[c].latest
        /\ channelState'[c].completed = channelState[c].completed
        /\ channelState'[c].trigger = channelState[c].trigger
        /\ channelState'[c].run = channelState[c].run
        /\ channelState'[c].generation = channelState[c].generation
        /\ mentions'[c] = mentions[c]
    BY DEF LeaseExpires, TypeInv, TypeOK, ChannelRecord
  <2>. QED
    BY <2>1 DEF ChannelKept, MentionsKept, CursorKept, LoopInv, WindowsInv,
                CursorsInOrder, ChannelRecord
<1>2. ConversationKept(conversation, conversation')
  BY ConversationsKept DEF LeaseExpires, TypeInv, TypeOK
<1>. QED
  BY <1>1, <1>2, UnchangedRuns, UnchangedRows
     DEF LeaseExpires, LoopKept, DocumentsKept, ChannelsKept

(* The newest context a turn is given stops short of the next trigger. *)
LEMMA NewestContextKept ==
    ASSUME TypeInv, LoopInv, NEW k \in Claims, getNewestContext(k)
    PROVE  LoopKept
<1>. DEFINE r == issued[k].run
            c == issued[k].chan
<1>1. /\ r # None /\ r \in Claims
      /\ conversation.run = r
      /\ UNCHANGED <<channelState, mentions, conversation, run, issued, outbox>>
  BY FencedDocuments DEF getNewestContext, ConversationFence
<1>2. run[r].chan = c /\ c \in Channels
  BY <1>1, FencedDocuments DEF LoopInv, NamesInv, RunsOfChannels
<1>3. PICK through \in 0..channelState[c].latest :
            /\ EligibleThrough(c, run[r].windowEnd, through)
            /\ turn' = [Reopened(r) EXCEPT ![r].eligibleThrough = through]
  BY DEF getNewestContext
<1>4. Clear(r, through)
  <2>1. /\ channelState[c].latest \in Nat
        /\ mentions[c] \subseteq Nat
        /\ run[r].windowEnd \in Nat
    BY <1>1, <1>2 DEF TypeInv, TypeOK, ChannelRecord, RunRecord
  <2>2. through \in Nat /\ through <= channelState[c].latest
    BY <2>1
  <2>3. \A m \in mentions[c] : m <= run[r].windowEnd \/ through < m
    <3>1. CASE \A m \in mentions[c] : m <= run[r].windowEnd
      BY <3>1
    <3>2. CASE \E m \in mentions[c] : m > run[r].windowEnd
      <4>1. PICK m \in mentions[c] : /\ m > run[r].windowEnd
                                     /\ through = m - 1
                                     /\ \A n \in mentions[c] : n > run[r].windowEnd => m <= n
        BY <1>3, <3>2 DEF EligibleThrough
      <4>. QED
        BY <2>1, <2>2, <4>1
    <3>. QED
      BY <2>1, <3>1, <3>2
  <2>. QED
    BY <1>2, <2>2, <2>3 DEF Clear
<1>5. \A p \in Claims : \/ turn'[p].eligibleThrough = turn[p].eligibleThrough
                        \/ p = r /\ turn'[p].eligibleThrough = through
  <2>1. Reopened(r) \in [Claims -> TurnRecord]
    BY <1>1, ReopenedTurn DEF TypeInv
  <2>2. \A p \in Claims : Reopened(r)[p].eligibleThrough = turn[p].eligibleThrough
    BY <1>1, ReopenedTurn DEF TypeInv
  <2>. QED
    BY <1>1, <1>3, <2>1, <2>2 DEF TurnRecord
<1>6. RunsKept
  BY <1>1, <1>4, <1>5 DEF RunsKept, WindowKept, CompletionKept, EndKept, CutoffKept
<1>. QED
  BY <1>1, <1>6, UnchangedChannels, UnchangedRows
     DEF LoopKept, DocumentsKept, ConversationKept

LEMMA RecordedStageKept ==
    ASSUME TypeInv, LoopInv, NEW k \in Claims, heartbeat(k) \/ recordFrontmanResume(k)
    PROVE  LoopKept
<1>1. issued[k].run \in Claims
  BY FencedDocuments DEF heartbeat, recordFrontmanResume, LiveFence, Fence
<1>2. UNCHANGED <<channelState, mentions, conversation, run, issued, outbox>>
  BY DEF heartbeat, recordFrontmanResume
<1>3. \A r \in Claims : turn'[r].eligibleThrough = turn[r].eligibleThrough
  <2>1. CASE heartbeat(k)
    BY <1>1, <2>1, ReopenedTurn DEF heartbeat, TypeInv
  <2>2. CASE recordFrontmanResume(k)
    BY <1>1, <2>2 DEF recordFrontmanResume, TypeInv, TypeOK, TurnRecord
  <2>. QED
    BY <2>1, <2>2
<1>. QED
  BY <1>2, <1>3, SameRuns, UnchangedChannels, UnchangedRows
     DEF LoopKept, DocumentsKept, ConversationKept

-----------------------------------------------------------------------------
(* The ends of a run. *)

LEMMA InvalidatedKept ==
    ASSUME TypeInv, NEW runs, outbox' = invalidateRunOutbox(runs)
    PROVE  /\ RowsKept
           /\ \A q \in Replies : outbox'[q].run \in runs => outbox'[q].status \notin Sendable
<1>1. ASSUME NEW q \in Replies
      PROVE  /\ RowKept(outbox[q], outbox'[q])
             /\ outbox'[q].run \in runs => outbox'[q].status \notin Sendable
  <2>1. outbox[q] \in ReplyRecord
    BY DEF TypeInv, TypeOK
  <2>2. /\ RowKept(outbox[q], Invalidated(outbox[q]))
        /\ Invalidated(outbox[q]).run = outbox[q].run
        /\ Invalidated(outbox[q]).status \notin Sendable
    BY <2>1 DEF Invalidated, RowKept, ReplyRecord, Unsettled, Sendable
  <2>3. RowKept(outbox[q], outbox[q])
    BY DEF RowKept
  <2>. QED
    BY <2>1, <2>2, <2>3 DEF invalidateRunOutbox
<1>. QED
  BY <1>1 DEF RowsKept

(* What Fence guarantees of the documents. *)
LEMMA FencedRun ==
    ASSUME TypeInv, LoopInv, NEW k \in Claims, Fence(k)
    PROVE  /\ issued[k].run \in Claims
           /\ issued[k].run # None
           /\ issued[k].chan \in Channels
           /\ conversation.run = issued[k].run
           /\ channelState[issued[k].chan].run = issued[k].run
           /\ channelState[issued[k].chan].generation = issued[k].generation
           /\ run[issued[k].run].chan = issued[k].chan
           /\ run[issued[k].run].status = "active"
<1>1. /\ issued[k].run # None
      /\ conversation.run = issued[k].run
      /\ channelState[issued[k].chan].run = issued[k].run
      /\ channelState[issued[k].chan].generation = issued[k].generation
  BY DEF Fence, ChannelFence, ConversationFence, isCurrentDiscordGeneration
<1>2. issued[k].run \in Claims /\ issued[k].chan \in Channels
  BY <1>1, FencedDocuments
<1>. QED
  BY <1>1, <1>2 DEF LoopInv, NamesInv, RunsOfChannels

(* A run released by its fence. *)
LEMMA ReleasedKept ==
    ASSUME TypeInv, LoopInv, NEW k \in Claims, Fence(k),
           NEW channel \in ChannelRecord, ReleaseLoop(k, channel),
           channel.latest = channelState[issued[k].chan].latest,
           channel.trigger = channelState[issued[k].chan].trigger,
           channelState[issued[k].chan].completed <= channel.completed,
           channel.completed <= channel.latest,
           NEW status \in {"completed", "error"},
           run' = [run EXCEPT ![issued[k].run].status = status],
           channel.completed = channelState[issued[k].chan].completed
           \/ /\ status = "completed"
              /\ Clear(issued[k].run, channel.completed),
           status = "completed" => run[issued[k].run].windowEnd <= channel.completed,
           NEW stage, turn' = [turn EXCEPT ![issued[k].run].stage = stage],
           RowsKept,
           \A q \in Replies : outbox'[q].run = issued[k].run
                => outbox'[q].status \notin Sendable
    PROVE  LoopKept
<1>. DEFINE r == issued[k].run
            c == issued[k].chan
            s == channelState[c]
            t == channelState'[c]
<1>1. /\ r \in Claims /\ r # None
      /\ c \in Channels
      /\ conversation.run = r
      /\ s.run = r
      /\ run[r].chan = c
      /\ run[r].status = "active"
  BY FencedRun
<1>2. /\ t = ClearedLoop(channel)
      /\ \A d \in Channels \ {c} : channelState'[d] = channelState[d]
      /\ conversation' = ClearedConversation(conversation)
      /\ UNCHANGED <<mentions, issued>>
  BY <1>1 DEF ReleaseLoop, TypeInv, TypeOK
<1>3. /\ t.run = None
      /\ t.latest = s.latest
      /\ t.trigger = s.trigger
      /\ t.completed = channel.completed
  BY <1>2 DEF ClearedLoop, ChannelRecord
<1>4. /\ s \in ChannelRecord
      /\ s.trigger <= s.latest
      /\ \A m \in mentions[c] : m <= s.latest
  BY <1>1 DEF TypeInv, TypeOK, LoopInv, WindowsInv, CursorsInOrder
<1>5. conversation'.run = None
  BY <1>2, ConversationsKept DEF TypeInv, TypeOK
<1>6. /\ run'[r].status = status
      /\ run'[r].chan = run[r].chan
      /\ run'[r].windowStart = run[r].windowStart
      /\ run'[r].windowEnd = run[r].windowEnd
      /\ \A p \in Claims \ {r} : run'[p] = run[p]
  BY <1>1 DEF TypeInv, TypeOK, RunRecord
<1>7. \A p \in Claims : turn'[p].eligibleThrough = turn[p].eligibleThrough
  BY <1>1 DEF TypeInv, TypeOK, TurnRecord
<1>8. ChannelKept(s, t) /\ MentionsKept(c) /\ CursorKept(c)
  <2>1. ChannelKept(s, t)
    <3>1. s.latest \in Nat
      BY <1>4 DEF ChannelRecord
    <3>. HIDE DEF s, t
    <3>. QED  BY <1>3, <1>4, <3>1 DEF ChannelKept, s
  <2>2. MentionsKept(c)
    BY <1>2, <1>3, <1>4 DEF MentionsKept
  <2>3. CursorKept(c)
    BY <1>1, <1>3, <1>6 DEF CursorKept
  <2>. QED
    BY <2>1, <2>2, <2>3
<1>9. ChannelsKept
  BY <1>2, <1>8, UnchangedChannel DEF ChannelsKept
<1>10. RunsKept
  <2>1. WindowKept(r) /\ CompletionKept(r) /\ EndKept(r)
    BY <1>1, <1>3, <1>5, <1>6 DEF WindowKept, CompletionKept, EndKept
  <2>2. \A p \in Claims \ {r} : WindowKept(p) /\ CompletionKept(p) /\ EndKept(p)
    BY <1>6 DEF WindowKept, CompletionKept, EndKept
  <2>. QED
    BY <1>7, <2>1, <2>2 DEF RunsKept, CutoffKept
<1>. QED
  BY <1>2, <1>5, <1>9, <1>10 DEF LoopKept, DocumentsKept, ConversationKept

LEMMA FailLoopKept ==
    ASSUME TypeInv, LoopInv, NEW k \in Claims, NEW retryable \in BOOLEAN,
           FailLoop(k, retryable)
    PROVE  LoopKept
<1>. DEFINE s == channelState[issued[k].chan]
            errors == discordNextLoopErrorCount(s.errors, retryable)
            channel == [s EXCEPT !.status = "error", !.errors = errors]
<1>1. Fence(k) /\ ReleaseLoop(k, channel)
  BY DEF FailLoop, CompleteGuard
<1>2. s \in ChannelRecord /\ s.completed <= s.latest
  BY <1>1, FencedRun DEF TypeInv, TypeOK, LoopInv, WindowsInv, CursorsInOrder
<1>3. errors \in 0..DISCORD_MAX_LOOP_ERROR_ATTEMPTS
  BY <1>2, ErrorCountType DEF ChannelRecord
<1>4. /\ channel \in ChannelRecord
      /\ channel.latest = s.latest
      /\ channel.trigger = s.trigger
      /\ channel.completed = s.completed
      /\ s.completed <= s.completed
  <2>1. s.completed \in Nat
    BY <1>2 DEF ChannelRecord
  <2>2. s.completed <= s.completed
    <3>. HIDE DEF s
    <3>. QED  BY <2>1
  <2>. HIDE DEF errors, s
  <2>3. /\ channel \in ChannelRecord
        /\ channel.latest = s.latest
        /\ channel.trigger = s.trigger
        /\ channel.completed = s.completed
    BY <1>2, <1>3 DEF ChannelRecord
  <2>. QED
    BY <2>2, <2>3
<1>5. /\ run' = [run EXCEPT ![issued[k].run].status = "error"]
      /\ turn' = [turn EXCEPT ![issued[k].run].stage = "failed"]
      /\ outbox' = invalidateRunOutbox({issued[k].run})
  BY DEF FailLoop
<1>6. /\ RowsKept
      /\ \A q \in Replies : outbox'[q].run = issued[k].run
            => outbox'[q].status \notin Sendable
  BY <1>5, InvalidatedKept
<1>. HIDE DEF channel
<1>. QED
  BY <1>1, <1>2, <1>4, <1>5, <1>6, ReleasedKept

(* Every confirmed final of the run, and every cutoff a caller may name, ends
   before the next explicit trigger. *)
LEMMA ConsumedIsClear ==
    ASSUME TypeInv, LoopInv, NEW k \in Claims, Fence(k),
           NEW cutoff \in ValidCutoffs(k), NEW through \in ConsumedThrough(k, cutoff)
    PROVE  /\ through \in Nat
           /\ Clear(issued[k].run, through)
           /\ run[issued[k].run].windowEnd <= through
<1>. DEFINE r == issued[k].run
            c == issued[k].chan
<1>1. /\ r \in Claims /\ c \in Channels
      /\ run[r].chan = c
      /\ run[r].status = "active"
      /\ channelState[c].run = r /\ r # None
  BY FencedRun
<1>2. /\ channelState[c] \in ChannelRecord
      /\ run[r] \in RunRecord
      /\ turn[r] \in TurnRecord
      /\ mentions[c] \subseteq Nat
  BY <1>1 DEF TypeInv, TypeOK
<1>3. cutoff \in Nat /\ Clear(r, cutoff) /\ run[r].windowEnd <= cutoff
  <2>1. /\ cutoff \in {run[r].windowEnd, turn[r].eligibleThrough}
        /\ cutoff >= run[r].windowEnd
        /\ cutoff <= channelState[c].latest
    BY DEF ValidCutoffs
  <2>2. Clear(r, turn[r].eligibleThrough)
    BY <1>1 DEF LoopInv, CutoffsInv
  <2>3. cutoff <= channelState[c].latest => Clear(r, cutoff)
    BY <1>1, <1>2, <2>1, <2>2 DEF Clear, RunRecord
  <2>. QED
    BY <1>2, <2>1, <2>3 DEF RunRecord, TurnRecord
<1>4. \A q \in SentFinals(k) : outbox[q].consumes \in Nat /\ Clear(r, outbox[q].consumes)
  BY <1>1 DEF SentFinals, OfRun, TypeInv, TypeOK, ReplyRecord, LoopInv, CutoffsInv, Replies
<1>5. /\ through \in {cutoff} \cup {outbox[q].consumes : q \in SentFinals(k)}
      /\ cutoff <= through
  BY DEF ConsumedThrough
<1>6. through \in Nat /\ Clear(r, through)
  BY <1>3, <1>4, <1>5
<1>7. run[r].windowEnd <= through
  BY <1>2, <1>3, <1>5, <1>6 DEF RunRecord
<1>. QED
  BY <1>6, <1>7

(* A run that completes without suppression has nothing left to send: whatever
   it has unsettled carries its present fence, so completeLoop has seen it. *)
LEMMA FinishedRows ==
    ASSUME TypeInv, LoopInv, NEW k \in Claims, NEW suppress \in BOOLEAN,
           FinishLoop(k, suppress)
    PROVE  /\ RowsKept
           /\ \A q \in Replies : outbox'[q].run = issued[k].run
                => outbox'[q].status \notin Sendable
<1>. DEFINE r == issued[k].run
<1>1. Fence(k)
  BY DEF FinishLoop, CompleteGuard
<1>2. CASE suppress
  BY <1>2, InvalidatedKept DEF FinishLoop
<1>3. CASE ~suppress
  <2>1. /\ ~hasPendingDiscordReply(outbox, r, issued[k].generation)
        /\ outbox' = FinalizedReplies(r)
    BY <1>3 DEF FinishLoop
  <2>2. ASSUME NEW q \in Replies
        PROVE  /\ RowKept(outbox[q], outbox'[q])
               /\ outbox'[q].run = outbox[q].run
               /\ outbox'[q].status \in Sendable => outbox[q].status \in Sendable
    <3>1. outbox[q] \in ReplyRecord
      BY DEF TypeInv, TypeOK
    <3>2. \/ outbox'[q] = outbox[q]
          \/ /\ outbox[q].status = "sent"
             /\ outbox'[q] = [outbox[q] EXCEPT !.status = "finalized"]
      BY <2>1 DEF FinalizedReplies
    <3>. QED
      BY <3>1, <3>2 DEF RowKept, ReplyRecord, Unsettled, Sendable
  <2>3. ASSUME NEW q \in Replies, outbox[q].run = r, outbox[q].status \in Sendable
        PROVE  FALSE
    <3>1. outbox[q].status # "absent" /\ outbox[q].status \in Unsettled
      BY <2>3 DEF Sendable, Unsettled
    <3>2. outbox[q].chan = issued[k].chan
      BY <1>1, <2>3, <3>1, FencedRun DEF LoopInv, NamesInv, RowNames
    <3>3. ReplyFence(outbox[q])
      BY <1>1, <2>3, <3>1, <3>2, FencedRun DEF LoopInv, RepliesInv, CurrentRow
    <3>4. OfRun(outbox[q], r, issued[k].generation)
      BY <1>1, <2>3, <3>1, <3>2, <3>3, FencedRun
         DEF OfRun, ReplyFence, ReplyChannelFence, isCurrentDiscordGeneration
    <3>. QED
      BY <2>1, <3>1, <3>4 DEF hasPendingDiscordReply, TypeInv, TypeOK
  <2>. QED
    BY <2>2, <2>3 DEF RowsKept
<1>. QED
  BY <1>2, <1>3

LEMMA FinishLoopKept ==
    ASSUME TypeInv, LoopInv, NEW k \in Claims, NEW suppress \in BOOLEAN,
           FinishLoop(k, suppress)
    PROVE  LoopKept
<1>. DEFINE s == channelState[issued[k].chan]
<1>1. Fence(k)
  BY DEF FinishLoop, CompleteGuard
<1>2. PICK cutoff \in ValidCutoffs(k) : \E through \in ConsumedThrough(k, cutoff) :
            ReleaseLoop(k, [s EXCEPT !.status = "idle", !.errors = 0,
                                     !.completed = Larger(@, through)])
  BY DEF FinishLoop
<1>3. PICK through \in ConsumedThrough(k, cutoff) :
            ReleaseLoop(k, [s EXCEPT !.status = "idle", !.errors = 0,
                                     !.completed = Larger(@, through)])
  BY <1>2
<1>. DEFINE completed == Larger(s.completed, through)
            channel == [s EXCEPT !.status = "idle", !.errors = 0, !.completed = completed]
<1>4. /\ through \in Nat
      /\ Clear(issued[k].run, through)
      /\ run[issued[k].run].windowEnd <= through
  BY <1>1, ConsumedIsClear
<1>5. /\ s \in ChannelRecord
      /\ s.completed <= s.latest
      /\ run[issued[k].run] \in RunRecord
      /\ run[issued[k].run].chan = issued[k].chan
  BY <1>1, FencedRun DEF TypeInv, TypeOK, LoopInv, WindowsInv, CursorsInOrder
<1>6. through <= s.latest
  BY <1>4, <1>5 DEF Clear
<1>7. /\ completed \in Nat
      /\ s.completed <= completed
      /\ completed <= s.latest
      /\ run[issued[k].run].windowEnd <= completed
      /\ completed = s.completed \/ Clear(issued[k].run, completed)
      /\ 0 \in 0..DISCORD_MAX_LOOP_ERROR_ATTEMPTS
  <2>1. /\ s.completed \in Nat /\ s.latest \in Nat
        /\ run[issued[k].run].windowEnd \in Nat
    BY <1>5 DEF ChannelRecord, RunRecord
  <2>. HIDE DEF s
  <2>2. \/ completed = s.completed /\ s.completed >= through
        \/ completed = through
    BY DEF Larger
  <2>. QED
    BY <1>4, <1>5, <1>6, <2>1, <2>2, ErrorAssumption DEF Larger
<1>8. ReleaseLoop(k, channel)
  BY <1>3
<1>. HIDE DEF completed, s
<1>9. /\ channel \in ChannelRecord
      /\ channel.latest = s.latest
      /\ channel.trigger = s.trigger
      /\ channel.completed = completed
  BY <1>5, <1>7 DEF ChannelRecord
<1>10. /\ run' = [run EXCEPT ![issued[k].run].status = "completed"]
       /\ \E stage : turn' = [turn EXCEPT ![issued[k].run].stage = stage]
  BY DEF FinishLoop
<1>. HIDE DEF channel
<1>. QED
  BY <1>1, <1>7, <1>8, <1>9, <1>10, FinishedRows, ReleasedKept DEF s

-----------------------------------------------------------------------------
(* The owner's controls. *)

LEMMA RestartedKept ==
    ASSUME NEW s \in ChannelRecord, s.completed <= s.latest
    PROVE  /\ ChannelKept(s, RestartedChannel(s))
           /\ ChannelKept(s, [RestartedChannel(s) EXCEPT !.errors = 0])
           /\ RestartedChannel(s).run = None
           /\ RestartedChannel(s).latest = s.latest
           /\ RestartedChannel(s).generation = s.generation + 1
           /\ RestartedChannel(s).generation # s.generation
           /\ RestartedChannel(s) \in ChannelRecord
<1>. DEFINE t == RestartedChannel(s)
<1>1. /\ t \in ChannelRecord
      /\ t.run = None
      /\ t.latest = s.latest
      /\ t.trigger = s.latest
      /\ t.completed = s.latest
      /\ t.generation = s.generation + 1
  BY RestartedType DEF RestartedChannel, ClearedLoop, ChannelRecord
<1>. HIDE DEF t
<1>2. /\ s.latest \in Nat /\ s.completed \in Nat /\ s.generation \in Nat
      /\ t.generation # s.generation
      /\ s.latest <= s.latest
  BY <1>1 DEF ChannelRecord
<1>3. /\ ChannelKept(s, t)
      /\ ChannelKept(s, [t EXCEPT !.errors = 0])
  BY <1>1, <1>2 DEF ChannelKept, ChannelRecord
<1>. QED
  BY <1>1, <1>2, <1>3 DEF t

LEMMA StaleRunsKept ==
    ASSUME TypeInv, NEW runs, NEW r \in Claims, run' = StaleRuns(runs)
    PROVE  /\ WindowKept(r)
           /\ CompletionKept(r)
           /\ run[r].status = "active" /\ run'[r].status # "active" => r \in runs
<1>1. run[r] \in RunRecord
  BY DEF TypeInv, TypeOK
<1>. QED
  BY <1>1 DEF StaleRuns, RunRecord, WindowKept, CompletionKept

LEMMA EndedTurnKept ==
    ASSUME TypeInv, NEW runs, NEW stage, NEW r \in Claims,
           turn' = EndedTurn(runs, stage) \/ UNCHANGED turn
    PROVE  CutoffKept(r)
BY DEF EndedTurn, CutoffKept, TypeInv, TypeOK, TurnRecord

LEMMA ApplyRolesKept ==
    ASSUME TypeInv, LoopInv, NEW roles \in SUBSET Channels, ApplyRoles(roles),
           UNCHANGED mentions
    PROVE  /\ RowsKept
           /\ ChannelsKept
           /\ \A r \in Claims : WindowKept(r) /\ CompletionKept(r) /\ EndKept(r)
<1>. DEFINE ended == {channelState[c].run : c \in TurnedOff(roles)} \ {None}
<1>1. /\ outbox' = invalidateRunOutbox(ended)
      /\ run' = StaleRuns(ended)
  BY DEF ApplyRoles
<1>2. \A c \in Channels :
        /\ channelState[c] \in ChannelRecord
        /\ channelState[c].completed <= channelState[c].latest
        /\ \A m \in mentions[c] : m <= channelState[c].latest
  BY DEF TypeInv, TypeOK, LoopInv, WindowsInv, CursorsInOrder
<1>3. \A c \in Channels :
        \/ /\ c \in TurnedOn(roles)
           /\ channelState'[c] = [RestartedChannel(channelState[c]) EXCEPT !.errors = 0]
        \/ /\ c \in TurnedOff(roles)
           /\ channelState'[c] = RestartedChannel(channelState[c])
        \/ /\ c \notin TurnedOff(roles)
           /\ channelState'[c] = channelState[c]
  BY DEF ApplyRoles
<1>4. ASSUME NEW c \in Channels
      PROVE  /\ ChannelKept(channelState[c], channelState'[c])
             /\ MentionsKept(c)
             /\ CursorKept(c)
             /\ c \in TurnedOff(roles) => channelState'[c].run = None
  <2>. DEFINE s == channelState[c]
  <2>1. CASE channelState'[c] = channelState[c] /\ c \notin TurnedOff(roles)
    BY <2>1, UnchangedChannel
  <2>2. CASE \/ channelState'[c] = [RestartedChannel(s) EXCEPT !.errors = 0]
             \/ channelState'[c] = RestartedChannel(s)
    <3>1. \A t \in ChannelRecord : /\ [t EXCEPT !.errors = 0].run = t.run
                                   /\ [t EXCEPT !.errors = 0].latest = t.latest
                                   /\ [t EXCEPT !.errors = 0].generation = t.generation
      BY DEF ChannelRecord
    <3>2. /\ ChannelKept(s, channelState'[c])
          /\ channelState'[c].run = None
          /\ channelState'[c].latest = s.latest
          /\ channelState'[c].generation # s.generation
      <4>. DEFINE t == RestartedChannel(s)
      <4>1. /\ t \in ChannelRecord
            /\ ChannelKept(s, t)
            /\ ChannelKept(s, [t EXCEPT !.errors = 0])
            /\ t.run = None /\ t.latest = s.latest /\ t.generation # s.generation
        BY <1>2, RestartedKept
      <4>. HIDE DEF t, s
      <4>. QED
        BY <2>2, <3>1, <4>1 DEF t
    <3>. QED
      BY <1>2, <3>2 DEF MentionsKept, CursorKept
  <2>. QED
    BY <1>3, <2>1, <2>2
<1>5. ASSUME NEW r \in Claims
      PROVE  WindowKept(r) /\ CompletionKept(r) /\ EndKept(r)
  <2>1. /\ WindowKept(r)
        /\ CompletionKept(r)
        /\ run[r].status = "active" /\ run'[r].status # "active" => r \in ended
    BY <1>1, StaleRunsKept
  <2>2. ASSUME r \in ended, NEW d \in Channels, channelState'[d].run = r
        PROVE  FALSE
    <3>1. PICK c \in TurnedOff(roles) : channelState[c].run = r
      BY <2>2
    <3>2. c \in Channels /\ r # None
      BY <2>2 DEF TurnedOff, TypeInv, TypeOK
    <3>3. d \notin TurnedOff(roles) /\ channelState[d].run = r
      BY <1>4, <2>2, <3>2 DEF ChannelKept
    <3>4. run[r].chan = c /\ run[r].chan = d
      BY <3>1, <3>2, <3>3 DEF LoopInv, NamesInv, RunsOfChannels
    <3>. QED
      BY <3>3, <3>4
  <2>3. \A q \in Replies : outbox'[q].run \in ended => outbox'[q].status \notin Sendable
    BY <1>1, InvalidatedKept
  <2>. HIDE DEF ended
  <2>. QED
    BY <2>1, <2>2, <2>3 DEF EndKept
<1>. QED
  BY <1>1, <1>4, <1>5, InvalidatedKept DEF ChannelsKept

LEMMA SetChannelRolesKept ==
    ASSUME TypeInv, LoopInv, NEW c \in Channels, setChannelRoles(c)
    PROVE  LoopKept
<1>1. monitored \ {c} \in SUBSET Channels /\ monitored \cup {c} \in SUBSET Channels
  BY DEF TypeInv, TypeOK
<1>2. PICK roles \in SUBSET Channels : ApplyRoles(roles)
  BY <1>1 DEF setChannelRoles
<1>. QED
  BY <1>2, ApplyRolesKept
     DEF setChannelRoles, LoopKept, DocumentsKept, RunsKept, CutoffKept, ConversationKept

LEMMA SetGuildRoutingKept ==
    ASSUME TypeInv, LoopInv, NEW to \in Channels \cup {None}, NEW logChanged \in BOOLEAN,
           setGuildRouting(to, logChanged)
    PROVE  LoopKept
<1>1. /\ {to} \ {None} \in SUBSET Channels
      /\ ApplyRoles({to} \ {None})
      /\ UNCHANGED <<mentions, issued>>
  BY DEF setGuildRouting
<1>2. RowsKept /\ ChannelsKept /\ \A r \in Claims : WindowKept(r) /\ CompletionKept(r) /\ EndKept(r)
  BY <1>1, ApplyRolesKept
<1>3. CASE to # conversation.channel \/ logChanged
  <2>1. turn' = EndedTurn({conversation.run}, "cancelled")
    BY <1>3 DEF setGuildRouting
  <2>2. conversation'.run = None
    BY <1>3 DEF setGuildRouting, ClearedConversation, TypeInv, TypeOK, ConversationRecord
  <2>. QED
    BY <1>1, <1>2, <2>1, <2>2, EndedTurnKept
       DEF LoopKept, DocumentsKept, RunsKept, ConversationKept
<1>4. CASE ~(to # conversation.channel \/ logChanged)
  <2>1. UNCHANGED <<turn, conversation>>
    BY <1>4 DEF setGuildRouting
  <2>. QED
    BY <1>1, <1>2, <2>1, EndedTurnKept
       DEF LoopKept, DocumentsKept, RunsKept, ConversationKept
<1>. QED
  BY <1>3, <1>4

LEMMA SupersededKept ==
    ASSUME NEW o \in ReplyRecord
    PROVE  /\ RowKept(o, Superseded(o))
           /\ Superseded(o).run = o.run
           /\ Superseded(o).status \notin Sendable
<1>. DEFINE voided == [o EXCEPT !.event = IF @ = "pending" THEN "failed" ELSE @]
<1>1. /\ voided \in ReplyRecord
      /\ voided.status = o.status
      /\ RowKept(o, voided)
      /\ voided.run = o.run
  BY DEF ReplyRecord, EventStatus, RowKept
<1>2. CASE o.status = "pending"
  <2>1. Superseded(o) = [voided EXCEPT !.status = "cancelled", !.delivery = "none"]
    BY <1>2 DEF Superseded
  <2>. HIDE DEF voided
  <2>. QED
    BY <1>1, <1>2, <2>1 DEF RowKept, ReplyRecord, Unsettled, Sendable
<1>3. CASE o.status = "delivery_uncertain"
  <2>1. Superseded(o) = [voided EXCEPT !.status = "needs_reconciliation",
                                       !.delivery = "none"]
    BY <1>3 DEF Superseded
  <2>. HIDE DEF voided
  <2>. QED
    BY <1>1, <1>3, <2>1 DEF RowKept, ReplyRecord, Unsettled, Sendable
<1>4. CASE o.status \notin Sendable
  BY <1>1, <1>4 DEF Superseded, Sendable
<1>. QED
  BY <1>2, <1>3, <1>4 DEF Sendable

LEMMA ResetKept ==
    ASSUME TypeInv, LoopInv, resetGuildConversation
    PROVE  LoopKept
<1>. DEFINE c == conversation.channel
<1>1. /\ turn' = EndedTurn({conversation.run}, "cancelled")
      /\ run' = StaleRuns({conversation.run})
      /\ outbox' = SupersededReplies
      /\ UNCHANGED <<mentions, issued>>
  BY DEF resetGuildConversation
<1>2. conversation'.run = None
  BY DEF resetGuildConversation, NewEpoch, ClearedConversation, TypeInv, TypeOK,
         ConversationRecord
<1>3. ASSUME NEW q \in Replies
      PROVE  /\ RowKept(outbox[q], outbox'[q])
             /\ outbox'[q].run = conversation.run /\ conversation.run # None
                    => outbox'[q].status \notin Sendable
  <2>1. outbox[q] \in ReplyRecord
    BY DEF TypeInv, TypeOK
  <2>2. CASE outbox[q].epoch = conversation.epoch
    BY <1>1, <2>1, <2>2, SupersededKept DEF SupersededReplies
  <2>3. CASE outbox[q].epoch # conversation.epoch
    <3>1. outbox'[q] = outbox[q]
      BY <1>1, <2>3 DEF SupersededReplies
    <3>2. outbox[q].run = conversation.run => outbox[q].status \notin Sendable
      BY <2>3 DEF LoopInv, NamesInv, RowNames, Sendable
    <3>. QED
      BY <3>1, <3>2 DEF RowKept
  <2>. QED
    BY <2>2, <2>3
<1>4. ASSUME NEW d \in Channels
      PROVE  /\ ChannelKept(channelState[d], channelState'[d])
             /\ MentionsKept(d)
             /\ CursorKept(d)
  <2>1. /\ channelState[d] \in ChannelRecord
        /\ channelState[d].completed <= channelState[d].latest
        /\ \A m \in mentions[d] : m <= channelState[d].latest
    BY DEF TypeInv, TypeOK, LoopInv, WindowsInv, CursorsInOrder
  <2>2. \/ channelState'[d] = channelState[d]
        \/ channelState'[d] = RestartedChannel(channelState[d])
    BY DEF resetGuildConversation, TypeInv, TypeOK
  <2>3. CASE channelState'[d] = channelState[d]
    BY <1>1, <2>3, UnchangedChannel
  <2>4. CASE channelState'[d] = RestartedChannel(channelState[d])
    BY <1>1, <2>1, <2>4, RestartedKept DEF MentionsKept, CursorKept
  <2>. QED
    BY <2>2, <2>3, <2>4
<1>5. ASSUME NEW r \in Claims
      PROVE  WindowKept(r) /\ CompletionKept(r) /\ EndKept(r) /\ CutoffKept(r)
  <2>1. /\ WindowKept(r)
        /\ CompletionKept(r)
        /\ run[r].status = "active" /\ run'[r].status # "active" => r = conversation.run
    BY <1>1, StaleRunsKept
  <2>2. CutoffKept(r)
    BY <1>1, EndedTurnKept
  <2>. QED
    BY <1>2, <1>3, <2>1, <2>2, NoneAssumption DEF EndKept
<1>. QED
  BY <1>1, <1>2, <1>3, <1>4, <1>5
     DEF LoopKept, RowsKept, DocumentsKept, ChannelsKept, RunsKept, ConversationKept

-----------------------------------------------------------------------------
(* The steps that add a claim, a run or a reply, and the deletion. *)

(* A claim changes its channel and takes over the conversation. *)
LEMMA AcquiredDocuments ==
    ASSUME TypeInv, LoopInv, NEW c \in Channels, NEW k \in Claims, NEW r \in Claims,
           AcquireLeases(c, k, r)
    PROVE  /\ channelState'[c].run = r
           /\ channelState'[c].generation = channelState[c].generation + 1
           /\ channelState'[c].generation # channelState[c].generation
           /\ channelState'[c].latest = channelState[c].latest
           /\ channelState'[c].trigger = channelState[c].trigger
           /\ channelState'[c].completed = channelState[c].completed
           /\ \A d \in Channels \ {c} : channelState'[d] = channelState[d]
           /\ conversation'.run = r
           /\ conversation'.epoch = conversation.epoch
           /\ conversation'.routing = conversation.routing
           /\ conversation'.generation = conversation.generation + 1
           /\ conversation'.token = k
           /\ issued' = [issued EXCEPT ![k] = NewFence(c, k, r)]
           /\ NewFence(c, k, r).run = r
           /\ NewFence(c, k, r).chan = c
           /\ UNCHANGED mentions
           /\ CursorsInOrder'
<1>1. channelState[c] \in ChannelRecord /\ conversation \in ConversationRecord
  BY DEF TypeInv, TypeOK
<1>2. /\ channelState'[c].run = r
      /\ channelState'[c].generation = channelState[c].generation + 1
      /\ channelState'[c].latest = channelState[c].latest
      /\ channelState'[c].trigger = channelState[c].trigger
      /\ channelState'[c].completed = channelState[c].completed
      /\ \A d \in Channels \ {c} : channelState'[d] = channelState[d]
  BY <1>1 DEF AcquireLeases, TypeInv, TypeOK, ChannelRecord
<1>3. channelState'[c].generation # channelState[c].generation
  BY <1>1, <1>2 DEF ChannelRecord
<1>4. /\ conversation'.run = r
      /\ conversation'.epoch = conversation.epoch
      /\ conversation'.routing = conversation.routing
      /\ conversation'.generation = conversation.generation + 1
      /\ conversation'.token = k
  BY <1>1 DEF AcquireLeases, ConversationRecord
<1>5. /\ issued' = [issued EXCEPT ![k] = NewFence(c, k, r)]
      /\ UNCHANGED mentions
      /\ NewFence(c, k, r).run = r
      /\ NewFence(c, k, r).chan = c
  BY DEF AcquireLeases, NewFence
<1>6. CursorsInOrder'
  BY <1>2, <1>5 DEF CursorsInOrder, LoopInv, WindowsInv
<1>. QED
  BY <1>2, <1>3, <1>4, <1>5, <1>6

(* Recovery: the same run under a new fence, its pending replies with it; it
   has no delivery of unknown outcome, or the claim had been refused. *)
LEMMA RecoverLoopInv ==
    ASSUME TypeInv, TypeInv', LoopInv, NEW c \in Channels, NEW k \in Claims,
           RecoverLoop(c, k)
    PROVE  LoopInv'
<1>. DEFINE r == channelState[c].run
            f == NewFence(c, k, r)
<1>1. /\ r \in Claims /\ r # None
      /\ conversation.run = r
      /\ run[r].status = "active"
      /\ run[r].chan = c
      /\ issued[k] = NoFence
      /\ ~UnresolvedDelivery
      /\ AcquireLeases(c, k, r)
      /\ UNCHANGED <<run, turn>>
  BY NoneAssumption
     DEF RecoverLoop, RecoverableExpiredTurn, ClaimGuard, TypeInv, TypeOK, ChannelRecord,
         LoopInv, NamesInv, RunsOfChannels
<1>2. /\ channelState'[c].run = r
      /\ channelState'[c].generation = channelState[c].generation + 1
      /\ channelState'[c].latest = channelState[c].latest
      /\ channelState'[c].trigger = channelState[c].trigger
      /\ channelState'[c].completed = channelState[c].completed
      /\ \A d \in Channels \ {c} : channelState'[d] = channelState[d]
      /\ conversation'.run = r
      /\ conversation'.epoch = conversation.epoch
      /\ conversation'.routing = conversation.routing
      /\ conversation'.generation = conversation.generation + 1
      /\ conversation'.token = k
      /\ issued' = [issued EXCEPT ![k] = f]
      /\ f.run = r /\ f.chan = c
      /\ UNCHANGED mentions
      /\ CursorsInOrder'
  BY <1>1, AcquiredDocuments
<1>3. ASSUME NEW q \in Replies
      PROVE  /\ outbox'[q].status = outbox[q].status
             /\ outbox'[q].run = outbox[q].run
             /\ outbox'[q].chan = outbox[q].chan
             /\ outbox'[q].epoch = outbox[q].epoch
             /\ outbox'[q].finalizesLoop = outbox[q].finalizesLoop
             /\ outbox'[q].consumes = outbox[q].consumes
             /\ outbox[q].run = r /\ outbox[q].status = "pending"
                    => /\ outbox'[q].generation = channelState[c].generation + 1
                       /\ outbox'[q].conversationGeneration = conversation.generation + 1
                       /\ outbox'[q].routing = conversation.routing
                       /\ outbox'[q].token = k
  <2>1. outbox[q] \in ReplyRecord
    BY DEF TypeInv, TypeOK
  <2>2. /\ f.generation = channelState[c].generation + 1
        /\ f.conversationGeneration = conversation.generation + 1
        /\ f.routing = conversation.routing
    BY DEF NewFence
  <2>3. outbox'[q] = IF outbox[q].run = r /\ outbox[q].status = "pending"
                     THEN Refenced(outbox[q], f, k) ELSE outbox[q]
    BY DEF RecoverLoop
  <2>. HIDE DEF f, r
  <2>. QED
    BY <2>1, <2>2, <2>3 DEF Refenced, ReplyRecord
<1>4. NamesInv'
  <2>1. RunsOfClaims'
    <3>1. issued'[k] # NoFence /\ issued'[k].run = r
      BY <1>1, <1>2 DEF NoFence, TypeInv, TypeOK
    <3>2. issued[r] # NoFence
      BY <1>1 DEF LoopInv, NamesInv, RunsOfClaims
    <3>3. \A p \in Claims \ {k} : issued'[p] = issued[p]
      BY <1>2 DEF TypeInv, TypeOK
    <3>4. NoFence.run = None
      BY DEF NoFence
    <3>. HIDE DEF r, f
    <3>5. \A p \in Claims : issued[p] # NoFence => issued'[p] # NoFence
      BY <3>1, <3>3
    <3>6. ASSUME NEW p \in Claims, issued'[p].run # None
          PROVE  issued'[issued'[p].run] # NoFence
      <4>1. CASE p = k
        BY <1>1, <3>1, <3>2, <3>5, <4>1
      <4>2. CASE p # k
        <5>1. issued'[p] = issued[p] /\ issued[p].run \in Claims
          BY <3>3, <3>6, <4>2 DEF TypeInv, TypeOK, FenceRecord
        <5>. QED
          BY <3>5, <3>6, <5>1 DEF LoopInv, NamesInv, RunsOfClaims
      <4>. QED
        BY <4>1, <4>2
    <3>. QED
      BY <1>1, <3>5, <3>6 DEF LoopInv, NamesInv, RunsOfClaims
  <2>2. RunsOfChannels'
    <3>1. \A d \in Channels : channelState'[d].run = channelState[d].run
      BY <1>2
    <3>2. ASSUME NEW p \in Claims, issued'[p].run = r
          PROVE  run[r].chan = issued'[p].chan
      <4>1. CASE p = k
        BY <1>1, <1>2, <4>1 DEF TypeInv, TypeOK
      <4>2. CASE p # k
        <5>1. issued'[p] = issued[p]
          BY <1>2, <4>2 DEF TypeInv, TypeOK
        <5>. QED
          BY <1>1, <3>2, <5>1 DEF LoopInv, NamesInv, RunsOfChannels
      <4>. QED
        BY <4>1, <4>2
    <3>. QED
      BY <1>1, <1>2, <3>1, <3>2 DEF LoopInv, NamesInv, RunsOfChannels
  <2>3. ASSUME NEW q \in Replies  PROVE RowNames(q)'
    BY <1>1, <1>2, <1>3 DEF LoopInv, NamesInv, RowNames
  <2>. QED
    BY <2>1, <2>2, <2>3 DEF NamesInv
<1>5. WindowsInv'
  <2>1. \A d \in Channels : /\ channelState'[d].run = channelState[d].run
                            /\ channelState'[d].completed = channelState[d].completed
                            /\ channelState'[d].trigger = channelState[d].trigger
    BY <1>2
  <2>2. WindowsInOrder'
    BY <1>1, <2>1 DEF LoopInv, WindowsInv, WindowsInOrder
  <2>3. \A p \in Claims : CompletedWindow(p)'
    BY <1>1, <2>1 DEF LoopInv, WindowsInv, CompletedWindow, NamesInv, RunsOfClaims
  <2>. QED
    BY <1>2, <2>2, <2>3 DEF WindowsInv
<1>6. CutoffsInv'
  <2>1. \A d \in Channels : channelState'[d].latest = channelState[d].latest
    BY <1>2
  <2>2. \A p \in Claims : run[p].status # "absent" => run[p].chan \in Channels
    BY DEF LoopInv, NamesInv, RunsOfClaims
  <2>3. \A q \in Replies : outbox[q].status # "absent" =>
            run[outbox[q].run].chan \in Channels
    BY <2>2 DEF TypeInv, ReplyShape, LoopInv, NamesInv, RowNames
  <2>. QED
    BY <1>1, <1>2, <1>3, <2>1, <2>2, <2>3 DEF LoopInv, CutoffsInv, Clear
<1>7. RepliesInv'
  <2>1. ASSUME NEW q \in Replies, outbox[q].status \in Unsettled, outbox[q].run = r
        PROVE  outbox[q].status = "pending" /\ outbox[q].chan = c
    <3>1. outbox[q].status # "absent" /\ outbox[q].epoch = conversation.epoch
      BY <1>1, <2>1 DEF LoopInv, NamesInv, RowNames, Unsettled
    <3>2. outbox[q].status \notin Unresolved
      BY <1>1, <3>1 DEF UnresolvedDelivery
    <3>3. outbox[q].chan = c
      BY <1>1, <2>1, <3>1 DEF LoopInv, NamesInv, RowNames
    <3>. QED
      BY <2>1, <3>2, <3>3 DEF Unsettled, Unresolved
  <2>2. ASSUME NEW q \in Replies  PROVE CurrentRow(outbox[q])'
    <3>1. CASE outbox[q].status \in Unsettled /\ outbox[q].run = r
      <4>1. /\ outbox[q].status = "pending" /\ outbox[q].chan = c
            /\ outbox[q].epoch = conversation.epoch
        BY <1>1, <2>1, <3>1 DEF LoopInv, NamesInv, RowNames
      <4>. QED
        BY <1>2, <1>3, <3>1, <4>1
           DEF CurrentRow, ReplyFence, ReplyChannelFence, isCurrentDiscordGeneration
    <3>2. CASE ~(outbox[q].status \in Unsettled /\ outbox[q].run = r)
      BY <1>2, <1>3, <3>2 DEF CurrentRow
    <3>. QED
      BY <3>1, <3>2
  <2>3. ActiveRunsSpeakOnce'
    <3>. HIDE DEF r, f
    <3>. QED
      BY <1>1, <1>3 DEF LoopInv, RepliesInv, ActiveRunsSpeakOnce, Replies
  <2>. QED
    BY <2>2, <2>3 DEF RepliesInv
<1>. QED
  BY <1>4, <1>5, <1>6, <1>7 DEF LoopInv

(* A claim id nobody has used names nothing yet. *)
LEMMA FreshClaim ==
    ASSUME TypeInv, LoopInv, NEW k \in Claims, issued[k] = NoFence
    PROVE  /\ k # None
           /\ run[k].status = "absent"
           /\ \A p \in Claims : issued[p].run # k
           /\ \A d \in Channels : channelState[d].run # k
           /\ \A q \in Replies : outbox[q].status # "absent" => outbox[q].run # k
<1>1. k # None
  BY NoneAssumption
<1>2. run[k].status = "absent" /\ \A p \in Claims : issued[p].run # k
  BY <1>1 DEF LoopInv, NamesInv, RunsOfClaims
<1>3. \A d \in Channels : channelState[d].run # k
  BY <1>1, <1>2 DEF LoopInv, NamesInv, RunsOfChannels
<1>4. \A q \in Replies : outbox[q].status # "absent" => outbox[q].run # k
  BY <1>2 DEF LoopInv, NamesInv, RowNames
<1>. QED
  BY <1>1, <1>2, <1>3, <1>4

LEMMA StartLoopInv ==
    ASSUME TypeInv, TypeInv', LoopInv, NEW c \in Channels, NEW k \in Claims,
           StartLoop(c, k)
    PROVE  LoopInv'
<1>. DEFINE old == {channelState[c].run} \ {None}
            window == NextWindow(c)
            started == [status |-> "active", chan |-> c,
                        windowStart |-> window.start, windowEnd |-> window.end]
<1>1. /\ issued[k] = NoFence
      /\ HasPendingMessages(channelState[c])
      /\ AcquireLeases(c, k, k)
      /\ outbox' = invalidateRunOutbox(old)
      /\ run' = [StaleRuns(old) EXCEPT ![k] = started]
  BY DEF StartLoop, ClaimGuard
<1>2. /\ k # None
      /\ run[k].status = "absent"
      /\ \A p \in Claims : issued[p].run # k
      /\ \A d \in Channels : channelState[d].run # k
      /\ \A q \in Replies : outbox[q].status # "absent" => outbox[q].run # k
  BY <1>1, FreshClaim
<1>3. /\ channelState'[c].run = k
      /\ channelState'[c].latest = channelState[c].latest
      /\ channelState'[c].trigger = channelState[c].trigger
      /\ channelState'[c].completed = channelState[c].completed
      /\ \A d \in Channels \ {c} : channelState'[d] = channelState[d]
      /\ conversation'.run = k
      /\ issued' = [issued EXCEPT ![k] = NewFence(c, k, k)]
      /\ NewFence(c, k, k).run = k
      /\ NewFence(c, k, k).chan = c
      /\ UNCHANGED mentions
      /\ CursorsInOrder'
  BY <1>1, AcquiredDocuments
<1>4. /\ issued'[k].run = k /\ issued'[k].chan = c /\ issued'[k] # NoFence
      /\ \A p \in Claims \ {k} : issued'[p] = issued[p]
  BY <1>2, <1>3 DEF TypeInv, TypeOK, NoFence
<1>5. run'[k] = started
  BY <1>1, StaleRunsType DEF TypeInv
<1>6. ASSUME NEW p \in Claims \ {k}
      PROVE  /\ run'[p].status = "absent" <=> run[p].status = "absent"
             /\ run'[p].chan = run[p].chan
             /\ run'[p].windowStart = run[p].windowStart
             /\ run'[p].windowEnd = run[p].windowEnd
             /\ run'[p].status = "active" => run[p].status = "active"
             /\ run[p].status = "active" /\ run'[p].status # "active" => p \in old
             /\ run'[p].status = "completed" <=> run[p].status = "completed"
  <2>1. run[p] \in RunRecord
    BY DEF TypeInv, TypeOK
  <2>2. run'[p] = StaleRuns(old)[p]
    BY <1>1, StaleRunsType DEF TypeInv
  <2>3. run'[p] = IF p \in old /\ run[p].status = "active"
                  THEN [run[p] EXCEPT !.status = "stale"] ELSE run[p]
    BY <2>2 DEF StaleRuns
  <2>. HIDE DEF old
  <2>. QED
    BY <2>1, <2>3 DEF RunRecord
<1>7. /\ \A q \in Replies : RowKept(outbox[q], outbox'[q])
      /\ \A q \in Replies : outbox'[q].run \in old => outbox'[q].status \notin Sendable
  BY <1>1, InvalidatedKept DEF RowsKept
<1>8. ASSUME NEW q \in Replies, outbox'[q].status # "absent"
      PROVE  /\ outbox[q].status # "absent"
             /\ outbox[q].run \in Claims \ {k}
             /\ outbox'[q].run = outbox[q].run
             /\ outbox'[q].chan = outbox[q].chan
             /\ outbox'[q].consumes = outbox[q].consumes
             /\ outbox'[q].finalizesLoop = outbox[q].finalizesLoop
  BY <1>2, <1>7, <1>8 DEF RowKept, TypeInv, ReplyShape
<1>9. NamesInv'
  <2>1. RunsOfClaims'
    <3>1. \A p \in Claims : issued[p] # NoFence => issued'[p] # NoFence
      BY <1>4
    <3>2. ASSUME NEW p \in Claims, issued'[p].run # None
          PROVE  issued'[issued'[p].run] # NoFence
      <4>1. CASE p = k
        BY <1>4, <4>1
      <4>2. CASE p # k
        <5>1. issued'[p] = issued[p] /\ issued[p].run \in Claims
          BY <1>4, <3>2, <4>2 DEF TypeInv, TypeOK, FenceRecord
        <5>. QED
          BY <3>1, <3>2, <5>1 DEF LoopInv, NamesInv, RunsOfClaims
      <4>. QED
        BY <4>1, <4>2
    <3>3. ASSUME NEW p \in Claims, run'[p].status # "absent"
          PROVE  issued'[p] # NoFence /\ run'[p].chan \in Channels
      <4>1. CASE p = k
        BY <1>4, <1>5, <4>1
      <4>2. CASE p # k
        BY <1>6, <3>1, <3>3, <4>2 DEF LoopInv, NamesInv, RunsOfClaims
      <4>. QED
        BY <4>1, <4>2
    <3>. QED
      BY <3>2, <3>3 DEF RunsOfClaims
  <2>2. RunsOfChannels'
    <3>1. ASSUME NEW d \in Channels, channelState'[d].run # None
          PROVE  /\ run'[channelState'[d].run].status # "absent"
                 /\ run'[channelState'[d].run].chan = d
      <4>1. CASE d = c
        BY <1>3, <1>5, <4>1
      <4>2. CASE d # c
        <5>1. channelState'[d].run = channelState[d].run
              /\ channelState[d].run \in Claims \ {k}
          BY <1>2, <1>3, <3>1, <4>2 DEF TypeInv, TypeOK, ChannelRecord
        <5>. QED
          BY <1>6, <3>1, <5>1 DEF LoopInv, NamesInv, RunsOfChannels
      <4>. QED
        BY <4>1, <4>2
    <3>2. \A p \in Claims : issued'[p].run = k => issued'[p].chan = c
      BY <1>2, <1>4
    <3>. QED
      BY <1>3, <1>5, <3>1, <3>2 DEF RunsOfChannels
  <2>3. ASSUME NEW q \in Replies, outbox'[q].status # "absent"  PROVE RowNames(q)'
    BY <1>3, <1>6, <1>8, <2>3 DEF LoopInv, NamesInv, RowNames
  <2>. QED
    BY <2>1, <2>2, <2>3 DEF NamesInv, RowNames
<1>10. WindowsInv'
  <2>1. \A d \in Channels : channelState'[d].completed = channelState[d].completed
    BY <1>3
  <2>2. /\ window.start = channelState[c].completed + 1
        /\ window.end \in window.start..channelState'[c].trigger
    <3>1. /\ channelState[c].completed \in Nat /\ channelState[c].trigger \in Nat
          /\ channelState[c].trigger > channelState[c].completed
      BY <1>1 DEF HasPendingMessages, TypeInv, TypeOK, ChannelRecord
    <3>2. /\ window.start = channelState[c].completed + 1
          /\ window.end = Smaller(channelState[c].trigger,
                                  channelState[c].completed + DISCORD_CONTEXT_SIZE)
      BY DEF NextWindow, messageWindow
    <3>. HIDE DEF window
    <3>. QED
      BY <1>3, <3>1, <3>2, WindowAssumption DEF Smaller
  <2>3. ASSUME NEW p \in Claims  PROVE CompletedWindow(p)'
    <3>1. CASE p = k
      BY <1>5, <3>1 DEF CompletedWindow
    <3>2. CASE p # k
      BY <1>6, <2>1, <3>2 DEF LoopInv, WindowsInv, CompletedWindow, NamesInv, RunsOfClaims
    <3>. QED
      BY <3>1, <3>2
  <2>4. ASSUME NEW d \in Channels, channelState'[d].run # None,
               run'[channelState'[d].run].status = "active"
        PROVE  LET s == channelState'[d]
               IN /\ run'[s.run].chan = d
                  /\ run'[s.run].windowStart = s.completed + 1
                  /\ run'[s.run].windowEnd \in run'[s.run].windowStart..s.trigger
    <3>1. CASE d = c
      BY <1>3, <1>5, <2>2, <3>1
    <3>2. CASE d # c
      <4>1. channelState'[d] = channelState[d] /\ channelState[d].run \in Claims \ {k}
        BY <1>2, <1>3, <2>4, <3>2 DEF TypeInv, TypeOK, ChannelRecord
      <4>. QED
        BY <1>6, <2>4, <4>1 DEF LoopInv, WindowsInv, WindowsInOrder
    <3>. QED
      BY <3>1, <3>2
  <2>5. ASSUME NEW r1 \in Claims, NEW r2 \in Claims, r1 # r2,
               run'[r1].status = "completed", run'[r2].status = "completed",
               run'[r1].chan = run'[r2].chan
        PROVE  \/ run'[r1].windowEnd < run'[r2].windowStart
               \/ run'[r2].windowEnd < run'[r1].windowStart
    <3>1. r1 # k /\ r2 # k
      BY <1>5, <2>5
    <3>. QED
      BY <1>6, <2>5, <3>1 DEF LoopInv, WindowsInv, WindowsInOrder
  <2>6. WindowsInOrder'
    BY <2>4, <2>5 DEF WindowsInOrder
  <2>. QED
    BY <1>3, <2>3, <2>6 DEF WindowsInv
<1>11. CutoffsInv'
  <2>1. \A d \in Channels : channelState'[d].latest = channelState[d].latest
    BY <1>3
  <2>2. \A p \in Claims : run[p].status # "absent" => run[p].chan \in Channels
    BY DEF LoopInv, NamesInv, RunsOfClaims
  <2>3. ASSUME NEW p \in Claims, run'[p].status # "absent"
        PROVE  Clear(p, turn[p].eligibleThrough)'
    <3>1. CASE p = k
      <4>1. turn'[k].eligibleThrough = 0
        BY DEF StartLoop, EndedTurn, TypeInv, TypeOK
      <4>2. /\ channelState[c].latest \in Nat
            /\ mentions[c] \subseteq Nat
            /\ run'[k].windowEnd \in Nat
            /\ run'[k].chan = c
        BY <1>5 DEF TypeInv, TypeOK, ChannelRecord, RunRecord
      <4>. QED
        BY <1>3, <3>1, <4>1, <4>2 DEF Clear
    <3>2. CASE p # k
      <4>1. turn'[p].eligibleThrough = turn[p].eligibleThrough
        BY <3>2 DEF StartLoop, EndedTurn, TypeInv, TypeOK, TurnRecord
      <4>2. Clear(p, turn[p].eligibleThrough) /\ run[p].chan \in Channels
        BY <1>6, <2>2, <2>3, <3>2 DEF LoopInv, CutoffsInv
      <4>. QED
        BY <1>3, <1>6, <2>1, <3>2, <4>1, <4>2 DEF Clear
    <3>. QED
      BY <3>1, <3>2
  <2>4. ASSUME NEW q \in Replies, outbox'[q].status # "absent"
        PROVE  Clear(outbox[q].run, outbox[q].consumes)'
    <3>1. Clear(outbox[q].run, outbox[q].consumes) /\ run[outbox[q].run].chan \in Channels
      BY <1>8, <2>2, <2>4 DEF LoopInv, CutoffsInv, NamesInv, RowNames
    <3>. QED
      BY <1>3, <1>6, <1>8, <2>1, <2>4, <3>1 DEF Clear
  <2>. QED
    BY <2>3, <2>4 DEF CutoffsInv
<1>12. RepliesInv'
  <2>1. \A q \in Replies : outbox'[q].status \in Unsettled \cup Sendable
            => outbox'[q].status # "absent"
    BY DEF Unsettled, Sendable
  <2>2. ASSUME NEW q \in Replies  PROVE CurrentRow(outbox[q])'
    BY <1>3, <1>8, <2>1 DEF CurrentRow
  <2>3. ASSUME NEW q \in Replies, outbox'[q].status \in Sendable
        PROVE  run'[outbox'[q].run].status = "active"
    <3>1. /\ outbox'[q].run = outbox[q].run
          /\ outbox[q].run \in Claims \ {k}
          /\ outbox[q].status \in Sendable
          /\ outbox[q].run \notin old
      BY <1>7, <1>8, <2>1, <2>3 DEF RowKept
    <3>2. run[outbox[q].run].status = "active"
      BY <3>1 DEF LoopInv, RepliesInv, ActiveRunsSpeakOnce, Sendable
    <3>. QED
      BY <1>6, <3>1, <3>2
  <2>4. ASSUME NEW p \in Finals, NEW q \in Finals, p # q,
               outbox'[p].run = outbox'[q].run,
               outbox'[p].status \in Unsettled, outbox'[q].status \in Unsettled
        PROVE  FALSE
    <3>1. /\ outbox[p].status \in Unsettled /\ outbox[q].status \in Unsettled
          /\ outbox[p].run = outbox[q].run
      BY <1>7, <1>8, <2>1, <2>4 DEF RowKept, Replies
    <3>. QED
      BY <2>4, <3>1 DEF LoopInv, RepliesInv, ActiveRunsSpeakOnce
  <2>. QED
    BY <2>2, <2>3, <2>4 DEF RepliesInv, ActiveRunsSpeakOnce, Sendable
<1>. QED
  BY <1>9, <1>10, <1>11, <1>12 DEF LoopInv

(* A new reply carries the fence it was enqueued under; a second final of the
   run would carry the same generation and be refused. *)
LEMMA EnqueueReplyInv ==
    ASSUME TypeInv, TypeInv', LoopInv, NEW k \in Claims, NEW q \in Replies,
           enqueueReply(k, q)
    PROVE  LoopInv'
<1>. DEFINE r == issued[k].run
            c == issued[k].chan
<1>1. /\ Fence(k)
      /\ outbox[q].status = "absent"
      /\ q \in Finals => ~FinalAlreadyEnqueued(r, issued[k].generation)
      /\ conversation' = ReserveOrdinal(conversation)
      /\ UNCHANGED <<channelState, mentions, run, issued>>
      /\ turn' = Reopened(r)
  BY DEF enqueueReply, LiveFence
<1>2. PICK through \in ValidCutoffs(k) :
            outbox' = [outbox EXCEPT ![q] = NewReply(k, q, through)]
  BY DEF enqueueReply
<1>. DEFINE o == NewReply(k, q, through)
<1>3. /\ r \in Claims /\ r # None
      /\ c \in Channels
      /\ conversation.run = r
      /\ channelState[c].run = r
      /\ channelState[c].generation = issued[k].generation
      /\ run[r].chan = c
      /\ run[r].status = "active"
      /\ conversation.token = k
  BY <1>1, FencedRun DEF Fence, ConversationFence
<1>4. DocumentsKept
  <2>1. \A p \in Claims : turn'[p].eligibleThrough = turn[p].eligibleThrough
    BY <1>1, <1>3, ReopenedTurn DEF TypeInv
  <2>. QED
    BY <1>1, <2>1, UnchangedChannels, SameRuns, ConversationsKept
       DEF DocumentsKept, TypeInv, TypeOK
<1>5. /\ outbox'[q] = o
      /\ \A p \in Replies \ {q} : outbox'[p] = outbox[p]
  BY <1>2 DEF TypeInv, TypeOK
<1>6. \A p \in Replies \ {q} : RowKept(outbox[p], outbox'[p])
  BY <1>5 DEF RowKept
<1>7. /\ o.status = "pending" /\ o.run = r /\ o.chan = c
      /\ o.finalizesLoop = (q \in Finals)
      /\ o.generation = issued[k].generation
      /\ o.epoch = conversation.epoch
      /\ o.conversationGeneration = conversation.generation
      /\ o.routing = conversation.routing
      /\ o.token = k
      /\ o.consumes = IF q \in Finals THEN through ELSE 0
  BY DEF NewReply
<1>. HIDE DEF o
<1>8. /\ conversation'.run = conversation.run
      /\ conversation'.epoch = conversation.epoch
      /\ conversation'.generation = conversation.generation
      /\ conversation'.routing = conversation.routing
      /\ conversation'.token = conversation.token
  BY <1>1 DEF ReserveOrdinal, TypeInv, TypeOK, ConversationRecord
<1>9. NamesInv'
  <2>1. RowNames(q)'
    BY <1>1, <1>3, <1>5, <1>7, <1>8 DEF RowNames
  <2>. QED
    BY <1>4, <1>6, <2>1, NamesKept DEF NamesInv
<1>10. WindowsInv'
  BY <1>4, WindowsKept
<1>11. CutoffsInv'
  <2>1. /\ channelState[c].latest \in Nat
        /\ mentions[c] \subseteq Nat
        /\ run[r].windowEnd \in Nat
        /\ turn[r].eligibleThrough \in Nat
    BY <1>3 DEF TypeInv, TypeOK, ChannelRecord, RunRecord, TurnRecord
  <2>2. /\ through \in {run[r].windowEnd, turn[r].eligibleThrough}
        /\ through >= run[r].windowEnd
        /\ through <= channelState[c].latest
    BY DEF ValidCutoffs
  <2>3. Clear(r, turn[r].eligibleThrough)
    BY <1>3 DEF LoopInv, CutoffsInv
  <2>4. /\ o.consumes <= channelState[c].latest
        /\ \A m \in mentions[c] : m <= run[r].windowEnd \/ o.consumes < m
    <3>1. CASE q \in Finals
      BY <1>3, <1>7, <2>1, <2>2, <2>3, <3>1 DEF Clear
    <3>2. CASE q \notin Finals
      BY <1>7, <2>1, <3>2
    <3>. QED
      BY <3>1, <3>2
  <2>5. Clear(outbox[q].run, outbox[q].consumes)'
    BY <1>1, <1>3, <1>5, <1>7, <2>4 DEF Clear
  <2>. QED
    BY <1>4, <1>6, <2>5, CutoffsKept DEF CutoffsInv
<1>12. RepliesInv'
  <2>1. CurrentRow(outbox[q])'
    BY <1>1, <1>3, <1>5, <1>7, <1>8
       DEF CurrentRow, ReplyFence, ReplyChannelFence, isCurrentDiscordGeneration
  <2>2. \A p \in Replies : CurrentRow(outbox[p])'
    BY <1>4, <1>6, <2>1, CurrentRowsKept
  <2>3. \A p \in Replies : outbox'[p].status \in Sendable
            => run'[outbox'[p].run].status = "active"
    BY <1>1, <1>3, <1>5, <1>7
       DEF LoopInv, RepliesInv, ActiveRunsSpeakOnce, Sendable
  <2>4. ASSUME NEW p \in Finals \ {q}, q \in Finals,
               outbox[p].run = r, outbox[p].status \in Unsettled
        PROVE  FALSE
    <3>1. p \in Replies /\ outbox[p].status # "absent"
      BY <2>4 DEF Unsettled, Replies
    <3>2. outbox[p].chan = c /\ outbox[p].finalizesLoop
      BY <1>3, <2>4, <3>1 DEF LoopInv, NamesInv, RowNames
    <3>3. ReplyFence(outbox[p])
      BY <1>3, <2>4, <3>1, <3>2 DEF LoopInv, RepliesInv, CurrentRow
    <3>4. OfRun(outbox[p], r, issued[k].generation)
      BY <1>3, <2>4, <3>1, <3>2, <3>3
         DEF OfRun, ReplyFence, ReplyChannelFence, isCurrentDiscordGeneration
    <3>. QED
      BY <1>1, <2>4, <3>2, <3>4 DEF FinalAlreadyEnqueued
  <2>5. ASSUME NEW p1 \in Finals, NEW p2 \in Finals, p1 # p2,
               outbox'[p1].run = outbox'[p2].run,
               outbox'[p1].status \in Unsettled, outbox'[p2].status \in Unsettled
        PROVE  FALSE
    <3>1. CASE p1 = q
      BY <1>5, <1>7, <2>4, <2>5, <3>1 DEF Replies
    <3>2. CASE p2 = q
      BY <1>5, <1>7, <2>4, <2>5, <3>2 DEF Replies
    <3>3. CASE p1 # q /\ p2 # q
      BY <1>5, <2>5, <3>3 DEF Replies, LoopInv, RepliesInv, ActiveRunsSpeakOnce
    <3>. QED
      BY <3>1, <3>2, <3>3
  <2>. QED
    BY <2>2, <2>3, <2>5 DEF RepliesInv, ActiveRunsSpeakOnce, Sendable
<1>. QED
  BY <1>9, <1>10, <1>11, <1>12 DEF LoopInv

LEMMA PrivacyDeletionInv ==
    ASSUME TypeInv, LoopInv, deleteGuildConversationPrivacyData
    PROVE  LoopInv'
<1>1. /\ \A d \in Channels : channelState'[d] = EmptyChannel /\ mentions'[d] = {}
      /\ \A p \in Claims : run'[p].status = "absent" /\ issued'[p] = issued[p]
      /\ \A q \in Replies : outbox'[q].status = "absent"
  BY DEF deleteGuildConversationPrivacyData, NoRun, NoReply
<1>2. conversation'.run = None
  BY DEF deleteGuildConversationPrivacyData, NewEpoch, ClearedConversation,
         TypeInv, TypeOK, ConversationRecord
<1>3. NamesInv'
  <2>1. RunsOfClaims'
    BY <1>1 DEF LoopInv, NamesInv, RunsOfClaims, TypeInv, TypeOK, FenceRecord
  <2>2. RunsOfChannels'
    BY <1>1, <1>2 DEF RunsOfChannels, EmptyChannel
  <2>. QED
    BY <1>1, <2>1, <2>2 DEF NamesInv, RowNames
<1>4. WindowsInv'
  BY <1>1 DEF WindowsInv, CursorsInOrder, CompletedWindow, WindowsInOrder, EmptyChannel
<1>5. CutoffsInv'
  BY <1>1 DEF CutoffsInv
<1>6. RepliesInv'
  BY <1>1 DEF RepliesInv, CurrentRow, ActiveRunsSpeakOnce, Unsettled, Replies
<1>. QED
  BY <1>3, <1>4, <1>5, <1>6 DEF LoopInv

LEMMA InitLoopInv == Init => LoopInv
<1>. SUFFICES ASSUME Init PROVE LoopInv
  OBVIOUS
<1>1. /\ \A d \in Channels : channelState[d] = EmptyChannel /\ mentions[d] = {}
      /\ \A p \in Claims : run[p].status = "absent" /\ issued[p].run = None
      /\ \A q \in Replies : outbox[q].status = "absent"
      /\ conversation.run = None
  BY DEF Init, NoRun, NoReply, NoFence
<1>2. NamesInv
  BY <1>1 DEF NamesInv, RunsOfClaims, RunsOfChannels, RowNames, EmptyChannel
<1>3. WindowsInv
  BY <1>1 DEF WindowsInv, CursorsInOrder, CompletedWindow, WindowsInOrder, EmptyChannel
<1>4. CutoffsInv
  BY <1>1 DEF CutoffsInv
<1>5. RepliesInv
  BY <1>1 DEF RepliesInv, CurrentRow, ActiveRunsSpeakOnce, Unsettled, Replies
<1>. QED
  BY <1>2, <1>3, <1>4, <1>5 DEF LoopInv

(* The steps but a claim, an enqueued reply and a deletion. *)
LEMMA StepsKept ==
    ASSUME TypeInv, LoopInv, [Next]_loopVars,
           ~ \E c \in Channels, k \in Claims : claimLoop(c, k),
           ~ \E k \in Claims, q \in Replies : enqueueReply(k, q),
           ~deleteGuildConversationPrivacyData
    PROVE  LoopKept
<1>1. CASE UNCHANGED loopVars
  BY <1>1, UnchangedRuns, UnchangedRows, UnchangedChannels
     DEF loopVars, LoopKept, DocumentsKept, ConversationKept
<1>2. ASSUME NEW k \in Claims, completeLoop(k)
      PROVE  LoopKept
  BY <1>2, FailLoopKept, FinishLoopKept DEF completeLoop
<1>3. CASE Controls
  BY <1>3, SetChannelRolesKept, SetGuildRoutingKept, ResetKept DEF Controls
<1>. QED
  BY <1>1, <1>2, <1>3, IngestHumanKept, IngestOtherBotKept, DeliveryKept,
     LeaseExpiresKept, NewestContextKept, RecordedStageKept DEF Next

LEMMA LoopInvHolds == Spec => []LoopInv
<1>1. TypeInv /\ TypeInv' /\ LoopInv /\ [Next]_loopVars => LoopInv'
  <2>. SUFFICES ASSUME TypeInv, TypeInv', LoopInv, [Next]_loopVars PROVE LoopInv'
    OBVIOUS
  <2>1. ASSUME NEW c \in Channels, NEW k \in Claims, claimLoop(c, k)  PROVE LoopInv'
    BY <2>1, RecoverLoopInv, StartLoopInv DEF claimLoop
  <2>. QED
    BY <2>1, EnqueueReplyInv, PrivacyDeletionInv, StepsKept, LoopInvKept
<1>. QED
  BY <1>1, InitLoopInv, TypesHold, PTL DEF Spec

(* A channel's triggers are worked off in consecutive windows, whatever is
   ingested, recovered, rerouted or reset meanwhile: none is skipped by the run
   at work, and none is in the windows of two completed runs. *)
THEOREM WindowsInOrderHolds == Spec => []WindowsInOrder
<1>1. LoopInv => WindowsInOrder
  BY DEF LoopInv, WindowsInv
<1>. QED
  BY LoopInvHolds, <1>1, PTL

(* Whatever ends a run takes back what it had yet to say, and a run never has
   two finals that could both still reach Discord. *)
THEOREM ActiveRunsSpeakOnceHolds == Spec => []ActiveRunsSpeakOnce
<1>1. LoopInv => ActiveRunsSpeakOnce
  BY DEF LoopInv, RepliesInv
<1>. QED
  BY LoopInvHolds, <1>1, PTL

(* A recovery leaves no pending reply behind under a fence no worker holds. *)
THEOREM PendingRepliesDeliverableHolds == Spec => []PendingRepliesDeliverable
<1>1. LoopInv => PendingRepliesDeliverable
  BY DEF LoopInv, RepliesInv, CurrentRow, PendingRepliesDeliverable, Unsettled
<1>. QED
  BY LoopInvHolds, <1>1, PTL

(* A cursor passes an explicit trigger only with the run whose window holds it:
   no cutoff a caller was given, and none a confirmed final carries, reaches
   the next one. *)
THEOREM ExplicitTriggersGetTurnsHolds == Spec => ExplicitTriggersGetTurns
<1>. DEFINE Passed(c, m) == \E r \in Claims :
                                /\ run[r].status = "active" /\ run'[r].status = "completed"
                                /\ run[r].chan = c
                                /\ m \in run[r].windowStart..run[r].windowEnd
            Passes == \A c \in Channels : \A m \in mentions[c] :
                        /\ channelState[c].completed < m
                        /\ m <= channelState'[c].completed
                        /\ channelState'[c].generation = channelState[c].generation
                        => Passed(c, m)
<1>1. TypeInv /\ TypeInv' /\ LoopInv /\ [Next]_loopVars => [Passes]_loopVars
  <2>. SUFFICES ASSUME TypeInv, TypeInv', LoopInv, [Next]_loopVars,
                       NEW c \in Channels, NEW m \in mentions[c],
                       channelState[c].completed < m,
                       m <= channelState'[c].completed,
                       channelState'[c].generation = channelState[c].generation
                PROVE  Passed(c, m)
    OBVIOUS
  <2>1. /\ channelState[c] \in ChannelRecord
        /\ channelState'[c] \in ChannelRecord
        /\ m \in Nat
    BY DEF TypeInv, TypeOK
  <2>2. channelState'[c].completed # channelState[c].completed
        /\ channelState'[c].completed # 0
    BY <2>1 DEF ChannelRecord
  <2>3. ~ \E d \in Channels, k \in Claims : claimLoop(d, k)
    <3>1. ASSUME NEW d \in Channels, NEW k \in Claims, claimLoop(d, k)
          PROVE  channelState'[c].completed = channelState[c].completed
      <4>1. \E r \in Claims : AcquireLeases(d, k, r)
        BY <3>1 DEF claimLoop, RecoverLoop, StartLoop, RecoverableExpiredTurn,
                    TypeInv, TypeOK, ChannelRecord
      <4>. QED
        BY <4>1, AcquiredDocuments
    <3>. QED
      BY <2>2, <3>1
  <2>4. ~ \E k \in Claims, q \in Replies : enqueueReply(k, q)
    BY <2>2 DEF enqueueReply
  <2>5. ~deleteGuildConversationPrivacyData
    BY <2>2 DEF deleteGuildConversationPrivacyData, EmptyChannel
  <2>6. CursorKept(c)
    BY <2>3, <2>4, <2>5, StepsKept DEF LoopKept, DocumentsKept, ChannelsKept
  <2>7. PICK r \in Claims : /\ run[r].status = "active" /\ run'[r].status = "completed"
                            /\ channelState[c].run = r
                            /\ Clear(r, channelState'[c].completed)
    BY <2>2, <2>6 DEF CursorKept
  <2>8. /\ run[r].chan = c
        /\ run[r].windowStart = channelState[c].completed + 1
        /\ r # None
    BY <2>7, NoneAssumption DEF LoopInv, WindowsInv, WindowsInOrder
  <2>9. m <= run[r].windowEnd
    BY <2>1, <2>7, <2>8 DEF Clear, ChannelRecord
  <2>10. m \in run[r].windowStart..run[r].windowEnd
    BY <2>1, <2>8, <2>9 DEF ChannelRecord, TypeInv, TypeOK, RunRecord
  <2>. QED
    BY <2>7, <2>8, <2>10
<1>2. [][TypeInv /\ TypeInv' /\ LoopInv /\ [Next]_loopVars]_loopVars
        => ExplicitTriggersGetTurns
  BY <1>1, PTL DEF ExplicitTriggersGetTurns
<1>. QED
  BY <1>2, TypesHold, LoopInvHolds, PTL DEF Spec

=============================================================================
