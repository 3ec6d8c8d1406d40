------------------------------- MODULE Checkpoints -------------------------------
(***************************************************************************)
(* Compaction of a guild's conversation: discordCompactionCheckpoints and  *)
(* the two pointers the conversation keeps into them (discord.ts), the     *)
(* gateway's coordinator that asks Pi for a summary (portable-             *)
(* checkpoints.ts), and the claims that read the result.                   *)
(*                                                                         *)
(* An event is known by its ordinal.  A summary is known by the events it  *)
(* was made from, directly or through the summary before it, and a native  *)
(* artifact by the events it has seen as such; a context hash by the       *)
(* events hashed.  "Generation" stands for generation and                  *)
(* routingGeneration, which are only ever compared together here.          *)
(*                                                                         *)
(* A claim, its turn and its deliveries appear by what they do to the      *)
(* events; DiscordLoop has them in full.                                   *)
(***************************************************************************)
EXTENDS Integers, Sequences, FiniteSets, FiniteSetsExt

CONSTANTS
    None,
    Gateways,                  \* gateway processes that run a coordinator
    NativeGateways,            \* those that speak the native-v2 protocol
    TAIL_TOKEN_BUDGET,         \* DISCORD_RECENT_TAIL_TOKEN_BUDGET
    THRESHOLD_TOKENS,          \* DISCORD_COMPACTION_THRESHOLD_TOKENS
    MAX_SOURCE_EVENTS,         \* DISCORD_PORTABLE_CHECKPOINT_MAX_SOURCE_EVENT_COUNT
    BatchEvents,               \* events that the byte limits of a batch admit
    EventTokens,               \* sizes of an event
    MaxEvents, MaxEpoch, MaxGeneration, MaxAged   \* bounds of an instance

ASSUME CheckpointAssumption ==
    /\ NativeGateways \subseteq Gateways
    /\ TAIL_TOKEN_BUDGET \in Nat \ {0}
    /\ THRESHOLD_TOKENS \in Nat \ {0}
    /\ MAX_SOURCE_EVENTS \in Nat \ {0}
    /\ BatchEvents \in 1 .. MAX_SOURCE_EVENTS
    /\ EventTokens \subseteq 1 .. TAIL_TOKEN_BUDGET
    /\ {MaxEvents, MaxAged} \subseteq Nat
    /\ {MaxEpoch, MaxGeneration} \subseteq Nat \ {0}

VARIABLES
    conversation, \* epoch, revision, generation, activeTurnId, the two pointers
    events,       \* the epoch's events, by ordinal
    unresolved,   \* ordinals of unresolved deliveries, 0: of an earlier epoch
    checkpoints,  \* documents by checkpointId
    aged,         \* ids of checkpoints past their expiresAt
    context,      \* what the claim of the open turn was given to read
    job           \* the request each gateway's coordinator is at

checkpointVars == <<conversation, events, unresolved, checkpoints, aged, context, job>>

SummaryTokens == 1     \* estimated size of a summary, or of a native artifact

EmptyDoc == [n \in {} |-> None]

NoContext == [id |-> None, native |-> FALSE, required |-> {}, recent |-> {}]
NoJob == [stage |-> "idle"]

(* An epoch before the first of these may have left a delivery unresolved. *)
Init ==
    /\ conversation = [epoch |-> 1, revision |-> 0, generation |-> 1, turn |-> FALSE,
                       active |-> None, candidate |-> None]
    /\ events = << >>
    /\ unresolved \in {{}, {0}}
    /\ checkpoints = EmptyDoc
    /\ aged = {}
    /\ context = NoContext
    /\ job = [g \in Gateways |-> NoJob]

-----------------------------------------------------------------------------
(* What the events hold. *)

Committed == {o \in DOMAIN events : events[o].status = "committed"}

(* The set that canonicalCheckpointSlice hashes. *)
Slice(through) == {o \in Committed : o <= through}

Visible == {o \in Committed : events[o].kind # "internal"}
VisibleAfter(through) == {o \in Visible : o > through}

Tokens(S) == MapThenSumSet(LAMBDA o : events[o].tokens, S)

(* The newest events that fit, without a gap. *)
selectDiscordCheckpointTail(S) ==
    LET tooFar == {q \in S : Tokens({p \in S : p >= q}) > TAIL_TOKEN_BUDGET}
    IN {o \in S : \A q \in tooFar : q < o}

(* The required events, and then each other one, newest first, that still fits:
   left[o] is what o and those before it may still use. *)
selectDiscordCanonicalTail(S, required, budget) ==
    LET others == S \ required
        fits(o, room) == o \in others /\ events[o].tokens <= room
        left[o \in 0 .. Len(events)] ==
          IF o = Len(events) THEN budget - Tokens(required)
          ELSE left[o + 1] - IF fits(o + 1, left[o + 1]) THEN events[o + 1].tokens ELSE 0
    IN required \cup {o \in others : fits(o, left[o])}

(* The longest prefix of the events to compact that one request may carry. *)
selectDiscordCheckpointSourceBatch(S, previousTokens) ==
    LET tooFar == {q \in S : LET upTo == {p \in S : p <= q}
                             IN \/ Cardinality(upTo) > BatchEvents
                                \/ Tokens(upTo) > THRESHOLD_TOKENS - previousTokens}
    IN {o \in S : \A q \in tooFar : o < q}

-----------------------------------------------------------------------------
(* Restoring the active and the staged checkpoint. *)

(* mutant: the hash is not compared *)
Matches_anyEvents(id) == Slice(checkpoints[id].through) # {}

Matches(id) == Slice(checkpoints[id].through) = checkpoints[id].slice

portableCheckpointRestorable(id, status) ==
    /\ id \in DOMAIN checkpoints
    /\ checkpoints[id].status = status
    /\ id \notin aged
    /\ checkpoints[id].epoch = conversation.epoch
    /\ checkpoints[id].revision <= conversation.revision

Through(id) == IF id = None THEN 0 ELSE checkpoints[id].through

(* The active checkpoint, if it can be used. *)
Restored ==
    IF portableCheckpointRestorable(conversation.active, "active")
       /\ Matches(conversation.active)
    THEN conversation.active ELSE None

(* The candidate, if nothing has changed since it was stored. *)
Staged ==
    LET id == conversation.candidate
    IN IF /\ portableCheckpointRestorable(id, "candidate")
          /\ checkpoints[id].revision = conversation.revision
          /\ checkpoints[id].generation = conversation.generation
          /\ checkpoints[id].through <= Len(events)
          /\ Matches(id)
       THEN id ELSE None

Closed(id) == [checkpoints[id] EXCEPT
                 !.status = IF id \in aged THEN "expired" ELSE "invalid",
                 !.native = {}]

(* What durableConversationContext and stagedCheckpointContext write. *)
AfterLoad(docs) ==
    LET id == conversation.active
    IN IF id = Restored \/ docs[id].status # "active" THEN docs
       ELSE [docs EXCEPT ![id] = Closed(id)]

AfterStaged(docs) ==
    IF conversation.candidate = Staged THEN docs
    ELSE [docs EXCEPT ![conversation.candidate] = Closed(conversation.candidate)]

-----------------------------------------------------------------------------
(* The conversation. *)

Append1(kind, status) ==
    /\ Len(events) < MaxEvents
    /\ \E t \in EventTokens :
         events' = Append(events, [kind |-> kind, status |-> status, tokens |-> t])

(* A message of a member, at any time. *)
ingestMessage ==
    /\ Append1("human", "committed")
    /\ conversation' = [conversation EXCEPT !.revision = @ + 1]
    /\ UNCHANGED <<unresolved, checkpoints, aged, context, job>>

GaveUp == [o \in DOMAIN events |->
             IF events[o].status = "pending" /\ o \notin unresolved
             THEN [events[o] EXCEPT !.status = "failed"] ELSE events[o]]

(* A turn is claimed, or taken over with or without its replies.  The claim
   reads the conversation: the required events are the human messages of its
   window, the ones from some ordinal on.  A delivery of this epoch whose
   outcome is unknown bars it. *)
claimLoop ==
    /\ conversation.generation < MaxGeneration
    /\ unresolved \subseteq {0}
    /\ \E from \in {o \in DOMAIN events : events[o].kind = "human"} :
         LET visible == VisibleAfter(Through(Restored))
             required == {o \in visible : o >= from /\ events[o].kind = "human"}
         IN context' =
              [id |-> Restored,
               native |-> Restored # None /\ checkpoints[Restored].native # {},
               required |-> required,
               recent |-> selectDiscordCanonicalTail(visible, required,
                            IF Restored = None THEN THRESHOLD_TOKENS
                            ELSE TAIL_TOKEN_BUDGET)]
    /\ checkpoints' = AfterLoad(checkpoints)
    /\ conversation' = [conversation EXCEPT !.generation = @ + 1, !.turn = TRUE,
                                            !.active = Restored]
    /\ events' \in {events, GaveUp}
    /\ UNCHANGED <<unresolved, aged, job>>

enqueueReply ==
    /\ conversation.turn
    /\ Append1("assistant", "pending")
    /\ UNCHANGED <<conversation, unresolved, checkpoints, aged, context, job>>

appendInternalConversationEvent ==
    /\ conversation.turn
    /\ Append1("internal", "committed")
    /\ conversation' = [conversation EXCEPT !.revision = @ + 1]
    /\ UNCHANGED <<unresolved, checkpoints, aged, context, job>>

beginReplyDelivery(o) ==
    /\ conversation.turn
    /\ events[o].status = "pending"
    /\ unresolved' = unresolved \cup {o}
    /\ UNCHANGED <<conversation, events, checkpoints, aged, context, job>>

(* Confirmed by the dispatcher, or by the message's echo, which confirms a row
   that was given up too. *)
commitCanonicalAssistantDelivery(o) ==
    /\ events[o].status \in {"pending", "failed"}
    /\ events' = [events EXCEPT ![o].status = "committed"]
    /\ conversation' = [conversation EXCEPT !.revision = @ + 1]
    /\ unresolved' = unresolved \ {o}
    /\ UNCHANGED <<checkpoints, aged, context, job>>

acknowledgeReply_failed(o) ==
    /\ conversation.turn
    /\ events[o].status = "pending"
    /\ unresolved' = unresolved \ {o}
    /\ \/ UNCHANGED events
       \/ events' = [events EXCEPT ![o].status = "failed"]
    /\ UNCHANGED <<conversation, checkpoints, aged, context, job>>

(* A delivery of an earlier epoch is confirmed. *)
OldDeliveryResolved ==
    /\ 0 \in unresolved
    /\ unresolved' = unresolved \ {0}
    /\ UNCHANGED <<conversation, events, checkpoints, aged, context, job>>

(* The turn ends.  It completes only when nothing is pending; a failure gives
   up what was not begun. *)
completeLoop ==
    /\ conversation.turn
    /\ events' = GaveUp
    /\ conversation' = [conversation EXCEPT !.turn = FALSE]
    /\ context' = NoContext
    /\ UNCHANGED <<unresolved, checkpoints, aged, job>>

(* The owner moves the conversation to another channel, which is an event, or
   only its research log. *)
setGuildRouting ==
    /\ conversation.generation < MaxGeneration
    /\ \E surfaceChanged \in BOOLEAN :
         /\ IF surfaceChanged THEN Append1("internal", "committed") ELSE UNCHANGED events
         /\ conversation' = [conversation EXCEPT
              !.generation = @ + 1, !.turn = FALSE,
              !.revision = IF surfaceChanged THEN @ + 1 ELSE @]
    /\ context' = NoContext
    /\ UNCHANGED <<unresolved, checkpoints, aged, job>>

NewEpoch ==
    /\ conversation.epoch < MaxEpoch
    /\ conversation.generation < MaxGeneration
    /\ conversation' = [conversation EXCEPT !.epoch = @ + 1, !.revision = 0,
                          !.generation = @ + 1, !.turn = FALSE,
                          !.active = None, !.candidate = None]
    /\ events' = << >>
    /\ context' = NoContext
    /\ UNCHANGED job

resetAssistantConversation ==
    /\ NewEpoch
    /\ checkpoints' = [id \in DOMAIN checkpoints |->
         [checkpoints[id] EXCEPT
            !.native = {},
            !.status = IF @ \in {"active", "candidate"} THEN "superseded" ELSE @]]
    /\ unresolved' = IF unresolved = {} THEN {} ELSE {0}
    /\ UNCHANGED aged

(* The same, and then the guild's rows are deleted; no delivery may be
   unresolved. *)
deleteGuildConversationPrivacyData ==
    /\ unresolved = {}
    /\ NewEpoch
    /\ checkpoints' = EmptyDoc
    /\ aged' = {}
    /\ UNCHANGED unresolved

-----------------------------------------------------------------------------
(* A coordinator asks for a checkpoint. *)

(* The request made of the checkpoint "base", which is staged or active. *)
Request(g, base, staged) ==
    LET visible == VisibleAfter(Through(base))
        tail == selectDiscordCheckpointTail(visible)
        older == visible \ tail
        previousTokens == IF base = None THEN 0 ELSE SummaryTokens
        source == IF g \in NativeGateways
                  THEN selectDiscordCheckpointSourceBatch(older, previousTokens)
                  ELSE IF Cardinality(older) <= MAX_SOURCE_EVENTS THEN older ELSE {}
    IN IF \/ ~staged /\ previousTokens + Tokens(visible) < THRESHOLD_TOKENS
          \/ older = {} \/ tail = {} \/ source = {}
       THEN NoJob
       ELSE [stage |-> "sent",
             epoch |-> conversation.epoch,
             revision |-> conversation.revision,
             generation |-> conversation.generation,
             through |-> Max(source),
             slice |-> Slice(Max(source)),
             covers |-> source \cup (IF base = None THEN {} ELSE checkpoints[base].covers),
             retained |-> tail,
             source |-> source,
             native |-> {},
             previousNative |-> IF staged \/ base = None \/ g \notin NativeGateways
                                THEN {} ELSE checkpoints[base].native,
             since |-> DOMAIN checkpoints]

nextPortableCheckpoint(g) ==
    /\ job[g] = NoJob
    /\ ~conversation.turn
    /\ unresolved = {}
    /\ LET staged == IF g \in NativeGateways THEN Staged ELSE None
           base == IF staged = None THEN Restored ELSE staged
       IN /\ job' = [job EXCEPT ![g] = Request(g, base, staged # None)]
          /\ checkpoints' = IF g \in NativeGateways
                            THEN AfterStaged(AfterLoad(checkpoints))
                            ELSE AfterLoad(checkpoints)
          /\ conversation' = [conversation EXCEPT
               !.active = Restored,
               !.candidate = IF g \in NativeGateways THEN staged ELSE @]
          /\ <<job', checkpoints', conversation'>> # <<job, checkpoints, conversation>>
    /\ UNCHANGED <<events, unresolved, aged, context>>

(* Pi answers with a summary and, when native compaction is on and works, an
   artifact made of the previous one and the events of the request. *)
portableCheckpoint(g) ==
    /\ job[g].stage = "sent"
    /\ \E artifact \in {{}} \cup (IF g \in NativeGateways
                                  THEN {job[g].previousNative \cup job[g].source}
                                  ELSE {}) :
         job' = [job EXCEPT ![g] = [@ EXCEPT !.stage = "answered", !.native = artifact]]
    /\ UNCHANGED <<conversation, events, unresolved, checkpoints, aged, context>>

(* Pi fails, the process ends, or the call is over. *)
CoordinatorEnds(g) ==
    /\ job[g] # NoJob
    /\ job' = [job EXCEPT ![g] = NoJob]
    /\ UNCHANGED <<conversation, events, unresolved, checkpoints, aged, context>>

-----------------------------------------------------------------------------
(* The answer is stored. *)

Fenced(r) ==
    /\ conversation.epoch = r.epoch
    /\ conversation.revision = r.revision
    /\ conversation.generation = r.generation

Stable == ~conversation.turn /\ unresolved = {}

ValidSource(r) ==
    /\ r.through <= Len(events)
    /\ Slice(r.through) # {}
    /\ Slice(r.through) = r.slice
    /\ r.covers \subseteq r.slice

CheckpointId(r) == <<r.epoch, r.revision, r.slice>>

RetainedTail(r) == selectDiscordCheckpointTail(VisibleAfter(r.through))

(* mutant: a stage is activated with the middle unread *)
Complete_anyTail(r) == RetainedTail(r) # {}

Complete(r) == RetainedTail(r) = VisibleAfter(r.through)

(* mutant: an active predecessor without an artifact is no obstacle *)
UnsupportedLineage_stagesOnly(complete) == ~complete \/ conversation.candidate # None

(* A native artifact is kept only with an active checkpoint that continues a
   native one, or none. *)
UnsupportedLineage(complete) ==
    \/ ~complete
    \/ conversation.candidate # None
    \/ /\ conversation.active # None
       /\ Restored = None \/ checkpoints[Restored].native = {}

(* That check reads the active checkpoint as a claim does, if it gets so far. *)
Loaded(r, complete) ==
    IF r.native # {} /\ complete /\ conversation.candidate = None
    THEN AfterLoad(checkpoints) ELSE checkpoints

Supersede(docs, id, status) ==
    IF id # None /\ docs[id].status = status
    THEN [docs EXCEPT ![id].status = "superseded",
                      ![id].native = IF status = "candidate" THEN {} ELSE @]
    ELSE docs

Stored(r, docs, complete) ==
    LET activeClosed == IF complete THEN Supersede(docs, conversation.active, "active")
                                    ELSE docs
        old == Supersede(activeClosed, conversation.candidate, "candidate")
        new == [status |-> IF complete THEN "active" ELSE "candidate",
                epoch |-> r.epoch, revision |-> r.revision,
                generation |-> r.generation, through |-> r.through,
                slice |-> r.slice, covers |-> r.covers,
                native |-> IF UnsupportedLineage(complete) THEN {} ELSE r.native]
    IN [id \in DOMAIN old \cup {CheckpointId(r)} |->
          IF id = CheckpointId(r) THEN new ELSE old[id]]

storePortableCheckpoint(g) ==
    LET r == job[g]
        complete == Complete(r)
        docs == Loaded(r, complete)
    IN /\ r.stage = "answered"
       /\ Fenced(r) /\ Stable /\ ValidSource(r)
       /\ r.retained = RetainedTail(r)
       /\ g \in NativeGateways \/ complete
       /\ IF CheckpointId(r) \in DOMAIN checkpoints
          THEN /\ docs # checkpoints
               /\ checkpoints' = docs
               /\ conversation' = [conversation EXCEPT !.active = Restored]
          ELSE /\ checkpoints' = Stored(r, docs, complete)
               /\ conversation' = IF complete
                    THEN [conversation EXCEPT !.active = CheckpointId(r),
                                              !.candidate = None]
                    ELSE [conversation EXCEPT !.candidate = CheckpointId(r)]
       /\ UNCHANGED <<events, unresolved, aged, context, job>>

-----------------------------------------------------------------------------
(* Checkpoints end. *)

(* Thirty days have passed since a checkpoint was stored, and since any that was
   stored before it.  No request is under way for as long as that. *)
RetentionEnds(id) ==
    /\ Cardinality(aged) < MaxAged
    /\ id \in DOMAIN checkpoints \ aged
    /\ \A other \in DOMAIN checkpoints \ aged :
         other[1] > id[1] \/ (other[1] = id[1] /\ other[2] >= id[2])
    /\ aged' = aged \cup {id}
    /\ job' = [g \in Gateways |->
                 IF job[g] # NoJob /\ id \notin job[g].since THEN NoJob ELSE job[g]]
    /\ UNCHANGED <<conversation, events, unresolved, checkpoints, context>>

expirePortableCheckpoints ==
    LET due == {id \in aged : checkpoints[id].status # "expired"}
    IN /\ due # {}
       /\ checkpoints' = [id \in DOMAIN checkpoints |->
            IF id \in due THEN [checkpoints[id] EXCEPT !.status = "expired", !.native = {}]
                          ELSE checkpoints[id]]
       /\ conversation' = [conversation EXCEPT
            !.active = IF @ \in due THEN None ELSE @,
            !.candidate = IF @ \in due THEN None ELSE @]
       /\ UNCHANGED <<events, unresolved, aged, context, job>>

(* The provider turned the artifact of the turn's checkpoint down; the call that
   says so is not repeated if it fails. *)
invalidateNativeCheckpoint ==
    LET id == context.id
    IN /\ conversation.turn /\ context.native
       /\ context' = [context EXCEPT !.native = FALSE]
       /\ \/ /\ id = conversation.active /\ checkpoints[id].status = "active"
             /\ checkpoints' = [checkpoints EXCEPT ![id].native = {}]
          \/ UNCHANGED checkpoints
       /\ UNCHANGED <<conversation, events, unresolved, aged, job>>

-----------------------------------------------------------------------------
CoordinatorStep(g) ==
    nextPortableCheckpoint(g) \/ portableCheckpoint(g) \/ storePortableCheckpoint(g)

TurnStep ==
    \/ claimLoop \/ enqueueReply \/ appendInternalConversationEvent \/ completeLoop
    \/ invalidateNativeCheckpoint
    \/ \E o \in DOMAIN events :
         \/ beginReplyDelivery(o)
         \/ commitCanonicalAssistantDelivery(o)
         \/ acknowledgeReply_failed(o)

OwnerStep ==
    setGuildRouting \/ resetAssistantConversation \/ deleteGuildConversationPrivacyData

Next ==
    \/ ingestMessage
    \/ TurnStep
    \/ OwnerStep
    \/ OldDeliveryResolved
    \/ expirePortableCheckpoints
    \/ \E id \in DOMAIN checkpoints : RetentionEnds(id)
    \/ \E g \in Gateways : CoordinatorStep(g) \/ CoordinatorEnds(g)

Spec == Init /\ [][Next]_checkpointVars

-----------------------------------------------------------------------------
Ordinals == 1 .. MaxEvents
Ids == (1 .. MaxEpoch) \X Nat \X SUBSET Ordinals

ASSUME NoneAssumption == None \notin Ids

ConversationType ==
    [epoch : 1 .. MaxEpoch, revision : Nat, generation : 1 .. MaxGeneration,
     turn : BOOLEAN, active : Ids \cup {None}, candidate : Ids \cup {None}]

Event ==
    [kind : {"human", "assistant", "internal"},
     status : {"pending", "committed", "failed"}, tokens : EventTokens]

Document ==
    [status : {"active", "candidate", "superseded", "invalid", "expired"},
     epoch : 1 .. MaxEpoch, revision : Nat, generation : 1 .. MaxGeneration,
     through : Ordinals, slice : SUBSET Ordinals, covers : SUBSET Ordinals,
     native : SUBSET Ordinals]

ContextType ==
    [id : Ids \cup {None}, native : BOOLEAN,
     required : SUBSET Ordinals, recent : SUBSET Ordinals]

RequestType ==
    [stage : {"sent", "answered"},
     epoch : 1 .. MaxEpoch, revision : Nat, generation : 1 .. MaxGeneration,
     through : Ordinals, slice : SUBSET Ordinals, covers : SUBSET Ordinals,
     retained : SUBSET Ordinals, source : SUBSET Ordinals, native : SUBSET Ordinals,
     previousNative : SUBSET Ordinals, since : SUBSET Ids]

(* The form of every document and message; both pointers are to documents that
   exist. *)
TypeOK ==
    /\ conversation \in ConversationType
    /\ {conversation.active, conversation.candidate} \subseteq DOMAIN checkpoints \cup {None}
    /\ events \in Seq(Event) /\ Len(events) <= MaxEvents
    /\ unresolved \subseteq {0} \cup DOMAIN events
    /\ DOMAIN checkpoints \subseteq Ids
    /\ checkpoints \in [DOMAIN checkpoints -> Document]
    /\ \A id \in DOMAIN checkpoints : id[1] = checkpoints[id].epoch
    /\ aged \subseteq DOMAIN checkpoints
    /\ context \in ContextType
    /\ job \in [Gateways -> RequestType \cup {NoJob}]

(* Whoever is given a checkpoint is told of every visible message up to where it
   ends, those included whose delivery was confirmed after it was made: then it
   is given up (discord.ts, canonicalCheckpointSlice). *)
CheckpointsAreComplete ==
    \A id \in {Restored, Staged} \ {None} :
      checkpoints[id].covers = {o \in Visible : o <= checkpoints[id].through}

(* When a checkpoint becomes the active one, its summary and the tail that is
   kept raw are the whole conversation: stages with a middle not yet read stay
   candidates (discord.ts, storePortableCheckpoint). *)
ActivationLosesNothing ==
    [][LET id == conversation'.active
       IN id \notin {None, conversation.active} =>
            checkpoints'[id].covers
              \cup selectDiscordCheckpointTail(VisibleAfter(checkpoints'[id].through))
              = Visible]_checkpointVars

(* While no checkpoint has reached its retention, an artifact of the active one has
   seen everything before it ends: one that extends a staged or a portable-only
   predecessor is discarded (discord.ts, storePortableCheckpoint). *)
NativeLineageIsWhole ==
    aged = {} /\ Restored # None =>
      LET native == checkpoints[Restored].native
      IN native = {} \/ {o \in Visible : o <= Through(Restored)} \subseteq native
=============================================================================
