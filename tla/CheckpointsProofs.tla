--------------------------- MODULE CheckpointsProofs ---------------------------
(***************************************************************************)
(* Proofs about Checkpoints for any gateways, budgets, limits and bounds:  *)
(* types, that a checkpoint which is restored tells of every visible       *)
(* message up to its end, that activating one loses none, and that its     *)
(* native artifact, until something expires, has seen them all.            *)
(*                                                                         *)
(* The argument: what a summary covers is the visible part of the slice    *)
(* its hash stands for.  That is so when it is asked for, because tail and *)
(* batch are cut without gaps, and it stays so, because an event never     *)
(* changes its kind; so whoever finds the hash to match finds every        *)
(* visible message of today.                                               *)
(***************************************************************************)
EXTENDS Checkpoints, FiniteSetTheorems, SequenceTheorems, WellFoundedInduction, TLAPS

Told(S) == {o \in S : events[o].kind # "internal"}

(* A document or request of this epoch covers the visible part of its slice. *)
Faithful(d) ==
    /\ d.epoch <= conversation.epoch
    /\ d.epoch = conversation.epoch =>
         d.slice \subseteq DOMAIN events /\ d.covers = Told(d.slice)

(* The same after a step. *)
FaithfulNext(d) ==
    /\ d.epoch <= conversation'.epoch
    /\ d.epoch = conversation'.epoch =>
         /\ d.slice \subseteq DOMAIN events'
         /\ d.covers = {o \in d.slice : events'[o].kind # "internal"}

SameTold(d, e) == d.epoch = e.epoch /\ d.slice = e.slice /\ d.covers = e.covers

IInv ==
    /\ TypeOK
    /\ \A id \in DOMAIN checkpoints : Faithful(checkpoints[id])
    /\ \A g \in Gateways : job[g] # NoJob => Faithful(job[g])

-----------------------------------------------------------------------------
(* What a step does to events, documents and requests. *)

History ==
    \/ conversation'.epoch = conversation.epoch + 1
    \/ /\ conversation'.epoch = conversation.epoch
       /\ DOMAIN events \subseteq DOMAIN events'
       /\ \A o \in DOMAIN events : events'[o].kind = events[o].kind

DocsKept ==
    \A id \in DOMAIN checkpoints' :
      \/ id \in DOMAIN checkpoints /\ SameTold(checkpoints'[id], checkpoints[id])
      \/ \E g \in Gateways : job[g] # NoJob /\ SameTold(checkpoints'[id], job[g])

JobsKept ==
    \A g \in Gateways :
      \/ job'[g] = NoJob
      \/ job[g] # NoJob /\ SameTold(job'[g], job[g])
      \/ FaithfulNext(job'[g])

(* What was faithful stays so. *)
LEMMA FaithfulStays ==
    ASSUME TypeOK, History, NEW d, NEW e, d.epoch \in Int, Faithful(d), SameTold(e, d)
    PROVE  FaithfulNext(e)
<1>1. conversation.epoch \in Int
  BY DEF TypeOK, ConversationType
<1>2. CASE conversation'.epoch = conversation.epoch + 1
  BY <1>1, <1>2 DEF Faithful, FaithfulNext, SameTold
<1>3. CASE /\ conversation'.epoch = conversation.epoch
           /\ DOMAIN events \subseteq DOMAIN events'
           /\ \A o \in DOMAIN events : events'[o].kind = events[o].kind
  BY <1>1, <1>3 DEF Faithful, FaithfulNext, SameTold, Told
<1> QED  BY <1>2, <1>3 DEF History

LEMMA RequestsTyped ==
    ASSUME TypeOK, NEW g \in Gateways, job[g] # NoJob
    PROVE  job[g] \in RequestType
BY DEF TypeOK

LEMMA IInvStays ==
    ASSUME IInv, TypeOK', History, DocsKept, JobsKept
    PROVE  IInv'
<1>1. TypeOK
  BY DEF IInv
<1>2. ASSUME NEW id \in DOMAIN checkpoints'  PROVE FaithfulNext(checkpoints'[id])
  <2>1. CASE id \in DOMAIN checkpoints /\ SameTold(checkpoints'[id], checkpoints[id])
    <3>1. checkpoints[id].epoch \in Int
      BY <1>1, <2>1 DEF TypeOK, Document
    <3>2. Faithful(checkpoints[id])
      BY <2>1 DEF IInv
    <3> QED  BY <1>1, <2>1, <3>1, <3>2, FaithfulStays
  <2>2. ASSUME NEW g \in Gateways, job[g] # NoJob, SameTold(checkpoints'[id], job[g])
        PROVE  FaithfulNext(checkpoints'[id])
    <3>1. job[g].epoch \in Int
      BY <1>1, <2>2, RequestsTyped DEF RequestType
    <3>2. Faithful(job[g])
      BY <2>2 DEF IInv
    <3> QED  BY <1>1, <2>2, <3>1, <3>2, FaithfulStays
  <2> QED  BY <2>1, <2>2 DEF DocsKept
<1>3. ASSUME NEW g \in Gateways, job'[g] # NoJob  PROVE FaithfulNext(job'[g])
  <2>1. CASE job[g] # NoJob /\ SameTold(job'[g], job[g])
    <3>1. job[g].epoch \in Int
      BY <1>1, <2>1, RequestsTyped DEF RequestType
    <3>2. Faithful(job[g])
      BY <2>1 DEF IInv
    <3> QED  BY <1>1, <2>1, <3>1, <3>2, FaithfulStays
  <2> QED  BY <1>3, <2>1 DEF JobsKept
<1>4. \A id \in DOMAIN checkpoints' : Faithful(checkpoints[id])'
  BY <1>2 DEF Faithful, FaithfulNext, Told
<1>5. \A g \in Gateways : (job[g] # NoJob => Faithful(job[g]))'
  BY <1>3 DEF Faithful, FaithfulNext, Told, NoJob
<1> QED  BY <1>4, <1>5 DEF IInv

-----------------------------------------------------------------------------
(* The greatest of some ordinals is one of them. *)
LEMMA MaxOfOrdinals ==
    ASSUME NEW n \in Nat, NEW S \in SUBSET (1 .. n), S # {}
    PROVE  Max(S) \in S /\ \A o \in S : o <= Max(S)
<1> DEFINE above(o) == {p \in S : p > o}
           Above == {above(o) : o \in S}
<1>1. FiniteSubsetsOf(S) = SUBSET S
  <2>1. IsFiniteSet(1 .. n)
    BY FS_Interval
  <2>2. IsFiniteSet(S)
    BY <2>1, FS_Subset
  <2> QED  BY <2>2, FS_FiniteSubsetsOfFinite
<1>2. IsWellFoundedOn(StrictSubsetOrdering(S), SUBSET S)
  BY <1>1, FS_StrictSubsetOrderingWellFounded
<1>3. Above \subseteq SUBSET S /\ Above # {}
  OBVIOUS
<1>4. PICK A \in Above : \A B \in Above : <<B, A>> \notin StrictSubsetOrdering(S)
  <2> HIDE DEF Above
  <2> QED  BY <1>2, <1>3, WFMin
<1>5. PICK m \in S : A = above(m)
  BY <1>4
<1>6. ASSUME NEW o \in S, o > m  PROVE FALSE
  <2>0. m \in Int /\ o \in Int /\ \A p \in S : p \in Int
    OBVIOUS
  <2>3. \A p \in S : p > o => p > m
    BY <1>6, <2>0
  <2>4. ~ (o > o)
    BY <2>0
  <2>1. o \in above(m) /\ o \notin above(o) /\ above(o) \subseteq above(m)
    BY <1>6, <2>3, <2>4
  <2>2. <<above(o), above(m)>> \in StrictSubsetOrdering(S)
    BY <2>1 DEF StrictSubsetOrdering
  <2> QED  BY <2>2, <1>4, <1>5
<1>7. m \in S /\ \A o \in S : m >= o
  BY <1>5, <1>6
<1> QED  BY <1>7 DEF Max

-----------------------------------------------------------------------------
(* Events. *)

LEMMA EventsTyped ==
    ASSUME TypeOK
    PROVE  /\ DOMAIN events = 1 .. Len(events) /\ Len(events) \in 0 .. MaxEvents
           /\ DOMAIN events \subseteq Ordinals
           /\ \A o \in DOMAIN events : events[o] \in Event /\ o \in Nat
<1>1. events \in Seq(Event) /\ Len(events) <= MaxEvents
  BY DEF TypeOK
<1>2. Len(events) \in Nat /\ DOMAIN events = 1 .. Len(events)
      /\ \A o \in 1 .. Len(events) : events[o] \in Event
  BY <1>1, LenProperties, ElementOfSeq
<1>3. MaxEvents \in Nat
  BY CheckpointAssumption
<1> QED  BY <1>1, <1>2, <1>3 DEF Ordinals

LEMMA EventsAppended ==
    ASSUME TypeOK, NEW kind \in {"human", "assistant", "internal"},
           NEW status \in {"pending", "committed", "failed"}, Append1(kind, status)
    PROVE  /\ events' \in Seq(Event) /\ Len(events') <= MaxEvents
           /\ DOMAIN events \subseteq DOMAIN events'
           /\ \A o \in DOMAIN events : events'[o].kind = events[o].kind
<1>1. PICK t \in EventTokens :
        events' = Append(events, [kind |-> kind, status |-> status, tokens |-> t])
  BY DEF Append1
<1> DEFINE e == [kind |-> kind, status |-> status, tokens |-> t]
<1>2. e \in Event
  BY DEF Event
<1>3. events \in Seq(Event) /\ Len(events) \in Nat /\ Len(events) < MaxEvents
  BY EventsTyped DEF TypeOK, Append1
<1>4. /\ Append(events, e) \in Seq(Event) /\ Len(Append(events, e)) = Len(events) + 1
      /\ \A i \in 1 .. Len(events) : Append(events, e)[i] = events[i]
  <2> HIDE DEF e
  <2> QED  BY <1>2, <1>3, AppendProperties
<1>5. DOMAIN events = 1 .. Len(events) /\ DOMAIN events' = 1 .. Len(events) + 1
  BY <1>1, <1>3, <1>4, LenProperties
<1>6. MaxEvents \in Nat
  BY CheckpointAssumption
<1> QED  BY <1>1, <1>3, <1>4, <1>5, <1>6

LEMMA EventsPatched ==
    ASSUME TypeOK, NEW new \in [DOMAIN events -> Event]
    PROVE  new \in Seq(Event) /\ Len(new) = Len(events)
<1>1. DOMAIN events = 1 .. Len(events) /\ Len(events) \in Nat
  BY EventsTyped
<1>2. new \in Seq(Event)
  BY <1>1, SeqDef
<1> QED  BY <1>1, <1>2, LenProperties

LEMMA GaveUpTyped ==
    ASSUME TypeOK
    PROVE  /\ GaveUp \in [DOMAIN events -> Event]
           /\ \A o \in DOMAIN events : GaveUp[o].kind = events[o].kind
BY EventsTyped DEF GaveUp, Event

LEMMA SliceTyped ==
    ASSUME TypeOK, NEW through
    PROVE  /\ Slice(through) \subseteq DOMAIN events
           /\ Visible \subseteq DOMAIN events
           /\ VisibleAfter(through) \subseteq Visible
BY DEF Slice, Committed, Visible, VisibleAfter

-----------------------------------------------------------------------------
(* Restored and staged checkpoints. *)

Live(id) ==
    /\ id \in DOMAIN checkpoints
    /\ checkpoints[id].epoch = conversation.epoch
    /\ Matches(id)

LEMMA RestoredLive ==
    /\ Restored # None => Restored = conversation.active /\ Live(Restored)
    /\ Staged # None => Staged = conversation.candidate /\ Live(Staged)
BY DEF Restored, Staged, Live, portableCheckpointRestorable

(* A live checkpoint tells of every visible message up to its end. *)
LEMMA LiveIsComplete ==
    ASSUME IInv, NEW id, Live(id)
    PROVE  checkpoints[id].covers = {o \in Visible : o <= checkpoints[id].through}
<1>1. /\ checkpoints[id].covers = Told(checkpoints[id].slice)
      /\ checkpoints[id].slice = Slice(checkpoints[id].through)
  BY DEF IInv, Live, Faithful, Matches
<1> QED  BY <1>1 DEF Told, Slice, Visible

(* The documents stay, with what they tell of. *)
Keeps(new) ==
    /\ new \in [DOMAIN checkpoints -> Document]
    /\ \A id \in DOMAIN checkpoints : SameTold(new[id], checkpoints[id])

LEMMA ClosedTyped ==
    ASSUME TypeOK, NEW id \in DOMAIN checkpoints
    PROVE  Closed(id) \in Document /\ SameTold(Closed(id), checkpoints[id])
<1>1. checkpoints[id] \in Document
  BY DEF TypeOK
<1> DEFINE status == IF id \in aged THEN "expired" ELSE "invalid"
<1>2. [checkpoints[id] EXCEPT !.status = status, !.native = {}] \in Document
  BY <1>1 DEF Document
<1>3. SameTold([checkpoints[id] EXCEPT !.status = status, !.native = {}], checkpoints[id])
  BY <1>1 DEF Document, SameTold
<1> QED  BY <1>2, <1>3 DEF Closed

LEMMA KeepsChanged ==
    ASSUME TypeOK, NEW docs, Keeps(docs), NEW id, NEW d,
           id \in DOMAIN checkpoints => d \in Document /\ SameTold(d, checkpoints[id])
    PROVE  Keeps([docs EXCEPT ![id] = d])
BY DEF Keeps, SameTold

LEMMA KeepsLoad ==
    ASSUME TypeOK, NEW docs, Keeps(docs)
    PROVE  Keeps(AfterLoad(docs)) /\ Keeps(AfterStaged(docs))
<1>1. ASSUME NEW id \in {conversation.active, conversation.candidate}
      PROVE  Keeps([docs EXCEPT ![id] = Closed(id)])
  BY ClosedTyped, KeepsChanged
<1> QED  BY <1>1 DEF AfterLoad, AfterStaged

LEMMA KeepsSupersede ==
    ASSUME TypeOK, NEW docs, Keeps(docs), NEW id, NEW status
    PROVE  Keeps(Supersede(docs, id, status))
<1> DEFINE d == [docs[id] EXCEPT !.status = "superseded",
                   !.native = IF status = "candidate" THEN {} ELSE docs[id].native]
<1>1. ASSUME id \in DOMAIN checkpoints
      PROVE  d \in Document /\ SameTold(d, checkpoints[id])
  BY <1>1 DEF Keeps, Document, SameTold
<1>2. Keeps([docs EXCEPT ![id] = d])
  <2> HIDE DEF d
  <2> QED  BY <1>1, KeepsChanged
<1>3. [docs EXCEPT ![id].status = "superseded",
                   ![id].native = IF status = "candidate" THEN {} ELSE @]
      = [docs EXCEPT ![id] = d]
  BY DEF Keeps, Document
<1> QED  BY <1>2, <1>3 DEF Supersede

LEMMA KeepsNow ==
    ASSUME TypeOK
    PROVE  Keeps(checkpoints)
BY DEF TypeOK, Keeps, SameTold

-----------------------------------------------------------------------------
(* Tail and batch are cut without gaps. *)

LEMMA TailIsSuffix ==
    ASSUME NEW S, S \subseteq Nat
    PROVE  /\ selectDiscordCheckpointTail(S) \subseteq S
           /\ \A o \in selectDiscordCheckpointTail(S) : \A p \in S :
                p >= o => p \in selectDiscordCheckpointTail(S)
<1> DEFINE tooFar == {q \in S : Tokens({p \in S : p >= q}) > TAIL_TOKEN_BUDGET}
<1>1. selectDiscordCheckpointTail(S) = {o \in S : \A q \in tooFar : q < o}
  BY DEF selectDiscordCheckpointTail
<1>2. tooFar \subseteq Nat
  OBVIOUS
<1> HIDE DEF tooFar
<1>3. ASSUME NEW o \in S, \A q \in tooFar : q < o, NEW p \in S, p >= o, NEW q \in tooFar
      PROVE  q < p
  <2>1. o \in Nat /\ p \in Nat /\ q \in Nat /\ q < o
    BY <1>2, <1>3
  <2> QED  BY <1>3, <2>1
<1> QED  BY <1>1, <1>3

LEMMA BatchIsPrefix ==
    ASSUME NEW S, S \subseteq Nat, NEW n
    PROVE  /\ selectDiscordCheckpointSourceBatch(S, n) \subseteq S
           /\ \A o \in selectDiscordCheckpointSourceBatch(S, n) : \A p \in S :
                p <= o => p \in selectDiscordCheckpointSourceBatch(S, n)
<1> DEFINE tooFar == {q \in S : LET upTo == {p \in S : p <= q}
                                IN \/ Cardinality(upTo) > BatchEvents
                                   \/ Tokens(upTo) > THRESHOLD_TOKENS - n}
<1>1. selectDiscordCheckpointSourceBatch(S, n) = {o \in S : \A q \in tooFar : o < q}
  BY DEF selectDiscordCheckpointSourceBatch
<1>2. tooFar \subseteq Nat
  OBVIOUS
<1> HIDE DEF tooFar
<1>3. ASSUME NEW o \in S, \A q \in tooFar : o < q, NEW p \in S, p <= o, NEW q \in tooFar
      PROVE  p < q
  <2>1. o \in Nat /\ p \in Nat /\ q \in Nat /\ o < q
    BY <1>2, <1>3
  <2> QED  BY <1>3, <2>1
<1> QED  BY <1>1, <1>3

(* A request is well formed, and what it asks to be summarised is the visible part
   of the slice it names. *)
LEMMA RequestFaithful ==
    ASSUME IInv, NEW g \in Gateways, NEW base, NEW staged \in BOOLEAN,
           base = None \/ Live(base), Request(g, base, staged) # NoJob
    PROVE  LET r == Request(g, base, staged)
           IN /\ r \in RequestType
              /\ r.epoch = conversation.epoch
              /\ r.slice \subseteq DOMAIN events /\ r.covers = Told(r.slice)
<1> DEFINE visible == VisibleAfter(Through(base))
           tail == selectDiscordCheckpointTail(visible)
           older == visible \ tail
           previousTokens == IF base = None THEN 0 ELSE SummaryTokens
           source == IF g \in NativeGateways
                     THEN selectDiscordCheckpointSourceBatch(older, previousTokens)
                     ELSE IF Cardinality(older) <= MAX_SOURCE_EVENTS THEN older ELSE {}
           before == IF base = None THEN {} ELSE checkpoints[base].covers
           native == IF staged \/ base = None \/ g \notin NativeGateways
                     THEN {} ELSE checkpoints[base].native
           r == [stage |-> "sent", epoch |-> conversation.epoch,
                 revision |-> conversation.revision,
                 generation |-> conversation.generation,
                 through |-> Max(source), slice |-> Slice(Max(source)),
                 covers |-> source \cup before, retained |-> tail, source |-> source,
                 native |-> {}, previousNative |-> native, since |-> DOMAIN checkpoints]
<1>1. Request(g, base, staged) = r /\ source # {}
  BY DEF Request
<1>2. TypeOK
  BY DEF IInv
<1>3. /\ DOMAIN events = 1 .. Len(events) /\ Len(events) \in Nat
      /\ DOMAIN events \subseteq Ordinals /\ Visible \subseteq DOMAIN events
  BY <1>2, EventsTyped, SliceTyped
<1>4. Through(base) \in Nat
  BY <1>2 DEF Through, Live, TypeOK, Document, Ordinals
<1>5. visible = {o \in Visible : o > Through(base)}
  BY DEF VisibleAfter
<1>6. /\ tail \subseteq visible
      /\ \A o \in tail : \A p \in visible : p >= o => p \in tail
  <2>1. visible \subseteq Nat
    BY <1>3, <1>5
  <2> HIDE DEF visible
  <2> QED  BY <2>1, TailIsSuffix
<1>7. /\ source \subseteq older
      /\ \A o \in source : \A p \in older : p <= o => p \in source
  <2>1. older \subseteq Nat
    BY <1>3, <1>5
  <2> HIDE DEF older, previousTokens
  <2> QED  BY <2>1, BatchIsPrefix
<1>8. Max(source) \in source /\ \A o \in source : o <= Max(source)
  <2>1. source \in SUBSET (1 .. Len(events))
    BY <1>3, <1>5, <1>7
  <2> HIDE DEF source
  <2> QED  BY <1>1, <1>3, <2>1, MaxOfOrdinals
<1>9. before = {o \in Visible : o <= Through(base)}
  <2>1. CASE base = None
    BY <1>3, <2>1 DEF Through
  <2>2. CASE base # None
    BY <2>2, LiveIsComplete DEF Through
  <2> QED  BY <2>1, <2>2
<1> DEFINE m == Max(source)
<1>10. source \cup before = {o \in Visible : o <= m}
  <2> HIDE DEF source, tail, before
  <2>1. m \in Visible /\ m > Through(base)
    BY <1>5, <1>7, <1>8
  <2>2. \A o \in Visible : o \in Nat
    BY <1>3
  <2>3. \A o \in source : o \in Visible /\ o <= m
    BY <1>5, <1>7, <1>8
  <2>4. \A o \in before : o \in Visible /\ o <= m
    BY <1>4, <1>9, <2>1, <2>2
  <2>5. ASSUME NEW o \in Visible, o <= m, o \notin before  PROVE o \in source
    <3>1. o \in visible /\ m \in older
      BY <1>4, <1>5, <1>7, <1>8, <1>9, <2>2, <2>5
    <3>2. o \in older
      BY <1>6, <2>1, <2>2, <2>5, <3>1
    <3> QED  BY <1>7, <1>8, <2>5, <3>2
  <2> QED  BY <2>3, <2>4, <2>5
<1>11. Told(Slice(m)) = {o \in Visible : o <= m}
  BY DEF Told, Slice, Visible
<1>12. Slice(m) \subseteq DOMAIN events
  BY <1>2, SliceTyped
<1>13. native \in SUBSET Ordinals
  BY <1>2 DEF Live, TypeOK, Document
<1>14. r \in RequestType
  <2>1. /\ m \in Ordinals /\ source \subseteq Ordinals /\ tail \subseteq Ordinals
        /\ source \cup before \subseteq Ordinals /\ Slice(m) \subseteq Ordinals
    BY <1>3, <1>5, <1>6, <1>7, <1>8, <1>10, <1>12
  <2>2. /\ conversation.epoch \in 1 .. MaxEpoch /\ conversation.revision \in Nat
        /\ conversation.generation \in 1 .. MaxGeneration /\ DOMAIN checkpoints \subseteq Ids
    BY <1>2 DEF TypeOK, ConversationType
  <2> HIDE DEF source, tail, before, native
  <2> QED  BY <1>13, <2>1, <2>2 DEF RequestType
<1>15. /\ r.epoch = conversation.epoch /\ r.slice = Slice(m)
       /\ r.covers = source \cup before
  OBVIOUS
<1> HIDE DEF r, source, before
<1> QED  BY <1>1, <1>10, <1>11, <1>12, <1>14, <1>15

-----------------------------------------------------------------------------
(* Steps of the conversation. *)

Pointers == {conversation.active, conversation.candidate} \ {None}

LEMMA ConversationStep ==
    ASSUME IInv, UNCHANGED <<checkpoints, aged, job>>,
           conversation' \in ConversationType, conversation'.epoch = conversation.epoch,
           Pointers' \subseteq Pointers,
           events' \in Seq(Event), Len(events') <= MaxEvents,
           DOMAIN events \subseteq DOMAIN events',
           \A o \in DOMAIN events : events'[o].kind = events[o].kind,
           unresolved' \subseteq {0} \cup DOMAIN events',
           context' \in ContextType
    PROVE  IInv'
<1>1. TypeOK
  BY DEF IInv
<1>2. {conversation'.active, conversation'.candidate} \subseteq DOMAIN checkpoints \cup {None}
  BY <1>1 DEF TypeOK, Pointers
<1>3. TypeOK'
  BY <1>1, <1>2 DEF TypeOK
<1>4. History
  BY DEF History
<1>5. DocsKept /\ JobsKept
  BY DEF DocsKept, JobsKept, SameTold
<1> QED  BY <1>3, <1>4, <1>5, IInvStays

LEMMA CheckpointStep ==
    ASSUME IInv, UNCHANGED <<events, unresolved>>, Keeps(checkpoints'),
           conversation' \in ConversationType, conversation'.epoch = conversation.epoch,
           Pointers' \subseteq Pointers, aged' \subseteq DOMAIN checkpoints,
           context' \in ContextType, job' \in [Gateways -> RequestType \cup {NoJob}], JobsKept
    PROVE  IInv'
<1>1. TypeOK
  BY DEF IInv
<1>2. DOMAIN checkpoints' = DOMAIN checkpoints
  BY DEF Keeps
<1>3. {conversation'.active, conversation'.candidate} \subseteq DOMAIN checkpoints \cup {None}
  BY <1>1 DEF TypeOK, Pointers
<1>4. \A id \in DOMAIN checkpoints : id[1] = checkpoints'[id].epoch
  BY <1>1 DEF TypeOK, Keeps, SameTold
<1>5. TypeOK'
  BY <1>1, <1>2, <1>3, <1>4 DEF TypeOK, Keeps
<1>6. History
  BY DEF History
<1>7. DocsKept
  BY <1>2 DEF DocsKept, Keeps
<1> QED  BY <1>5, <1>6, <1>7, IInvStays

LEMMA ConversationFields ==
    ASSUME TypeOK
    PROVE  /\ conversation \in ConversationType /\ context \in ContextType
           /\ NoContext \in ContextType
           /\ conversation.revision + 1 \in Nat
           /\ conversation.generation < MaxGeneration =>
                conversation.generation + 1 \in 1 .. MaxGeneration
           /\ conversation.epoch < MaxEpoch => conversation.epoch + 1 \in 1 .. MaxEpoch
<1>1. MaxEpoch \in Nat /\ MaxGeneration \in Nat
  BY CheckpointAssumption
<1> QED  BY <1>1 DEF TypeOK, ConversationType, ContextType, NoContext

LEMMA AppendSteps ==
    ASSUME IInv, ingestMessage \/ enqueueReply \/ appendInternalConversationEvent
    PROVE  IInv'
<1>1. TypeOK
  BY DEF IInv
<1>2. \E kind \in {"human", "assistant", "internal"}, status \in {"pending", "committed"} :
        Append1(kind, status)
  BY DEF ingestMessage, enqueueReply, appendInternalConversationEvent
<1>3. /\ events' \in Seq(Event) /\ Len(events') <= MaxEvents
      /\ DOMAIN events \subseteq DOMAIN events'
      /\ \A o \in DOMAIN events : events'[o].kind = events[o].kind
  BY <1>1, <1>2, EventsAppended
<1>4. /\ conversation' \in ConversationType /\ conversation'.epoch = conversation.epoch
      /\ Pointers' \subseteq Pointers
  BY <1>1, ConversationFields
     DEF ingestMessage, enqueueReply, appendInternalConversationEvent, ConversationType, Pointers
<1>5. UNCHANGED <<checkpoints, aged, job, unresolved, context>>
  BY DEF ingestMessage, enqueueReply, appendInternalConversationEvent
<1>6. unresolved' \subseteq {0} \cup DOMAIN events' /\ context' \in ContextType
  BY <1>1, <1>3, <1>5 DEF TypeOK
<1> QED  BY <1>3, <1>4, <1>5, <1>6, ConversationStep

LEMMA DeliverySteps ==
    ASSUME IInv, NEW o \in DOMAIN events,
           \/ beginReplyDelivery(o) \/ commitCanonicalAssistantDelivery(o)
           \/ acknowledgeReply_failed(o)
    PROVE  IInv'
<1>1. TypeOK
  BY DEF IInv
<1>2. \A e \in Event, status \in {"committed", "failed"} :
        [e EXCEPT !.status = status] \in Event /\ [e EXCEPT !.status = status].kind = e.kind
  BY DEF Event
<1>3. /\ events' \in [DOMAIN events -> Event]
      /\ \A p \in DOMAIN events : events'[p].kind = events[p].kind
  <2>1. events \in [DOMAIN events -> Event]
    BY <1>1, EventsTyped DEF TypeOK
  <2>2. \/ UNCHANGED events
        \/ \E status \in {"committed", "failed"} :
             events' = [events EXCEPT ![o] = [events[o] EXCEPT !.status = status]]
    BY DEF beginReplyDelivery, commitCanonicalAssistantDelivery, acknowledgeReply_failed
  <2>3. ASSUME NEW status \in {"committed", "failed"},
               events' = [events EXCEPT ![o] = [events[o] EXCEPT !.status = status]]
        PROVE  <1>3!:
    <3> DEFINE e == [events[o] EXCEPT !.status = status]
    <3>1. e \in Event /\ e.kind = events[o].kind
      BY <1>2, <2>1
    <3>2. events' = [events EXCEPT ![o] = e]
      BY <2>3
    <3> HIDE DEF e
    <3> QED  BY <2>1, <3>1, <3>2
  <2>4. CASE UNCHANGED events
    BY <2>1, <2>4
  <2> QED  BY <2>2, <2>3, <2>4
<1>4. events' \in Seq(Event) /\ Len(events') <= MaxEvents /\ DOMAIN events' = DOMAIN events
  BY <1>1, <1>3, EventsPatched DEF TypeOK
<1>5. /\ conversation' \in ConversationType /\ conversation'.epoch = conversation.epoch
      /\ Pointers' \subseteq Pointers
  BY <1>1, ConversationFields
     DEF beginReplyDelivery, commitCanonicalAssistantDelivery, acknowledgeReply_failed,
         ConversationType, Pointers
<1>6. UNCHANGED <<checkpoints, aged, job, context>> /\ unresolved' \subseteq unresolved \cup {o}
  BY DEF beginReplyDelivery, commitCanonicalAssistantDelivery, acknowledgeReply_failed
<1>7. unresolved' \subseteq {0} \cup DOMAIN events' /\ context' \in ContextType
  BY <1>1, <1>4, <1>6 DEF TypeOK
<1> QED  BY <1>3, <1>4, <1>5, <1>6, <1>7, ConversationStep

LEMMA OldDeliveryStep ==
    ASSUME IInv, OldDeliveryResolved
    PROVE  IInv'
BY ConversationStep DEF OldDeliveryResolved, IInv, TypeOK, Pointers

LEMMA CompleteStep ==
    ASSUME IInv, completeLoop
    PROVE  IInv'
<1>1. TypeOK
  BY DEF IInv
<1>2. /\ events' \in [DOMAIN events -> Event] /\ DOMAIN events' = DOMAIN events
      /\ \A o \in DOMAIN events : events'[o].kind = events[o].kind
  BY <1>1, GaveUpTyped DEF completeLoop
<1>3. events' \in Seq(Event) /\ Len(events') <= MaxEvents
  BY <1>1, <1>2, EventsPatched DEF TypeOK
<1>4. /\ conversation' \in ConversationType /\ conversation'.epoch = conversation.epoch
      /\ Pointers' \subseteq Pointers /\ context' \in ContextType
  BY <1>1, ConversationFields DEF completeLoop, ConversationType, Pointers
<1>5. UNCHANGED <<checkpoints, aged, job, unresolved>>
  BY DEF completeLoop
<1>6. unresolved' \subseteq {0} \cup DOMAIN events'
  BY <1>1, <1>2, <1>5 DEF TypeOK
<1> QED  BY <1>2, <1>3, <1>4, <1>5, <1>6, ConversationStep

LEMMA RoutingStep ==
    ASSUME IInv, setGuildRouting
    PROVE  IInv'
<1>1. TypeOK
  BY DEF IInv
<1>2. Append1("internal", "committed") \/ UNCHANGED events
  BY DEF setGuildRouting
<1>3. /\ events' \in Seq(Event) /\ Len(events') <= MaxEvents
      /\ DOMAIN events \subseteq DOMAIN events'
      /\ \A o \in DOMAIN events : events'[o].kind = events[o].kind
  <2>1. CASE Append1("internal", "committed")
    BY <1>1, <2>1, EventsAppended
  <2>2. CASE UNCHANGED events
    BY <1>1, <2>2 DEF TypeOK
  <2> QED  BY <1>2, <2>1, <2>2
<1>4. /\ conversation' \in ConversationType /\ conversation'.epoch = conversation.epoch
      /\ Pointers' \subseteq Pointers /\ context' \in ContextType
  BY <1>1, ConversationFields DEF setGuildRouting, ConversationType, Pointers
<1>5. UNCHANGED <<checkpoints, aged, job, unresolved>>
  BY DEF setGuildRouting
<1>6. unresolved' \subseteq {0} \cup DOMAIN events'
  BY <1>1, <1>3, <1>5 DEF TypeOK
<1> QED  BY <1>3, <1>4, <1>5, <1>6, ConversationStep

(* What a claim or a request leaves in the active pointer. *)
LEMMA RestoredPointer ==
    ASSUME TypeOK
    PROVE  /\ Restored \in {conversation.active, None}
           /\ Staged \in {conversation.candidate, None}
           /\ {Restored, Staged} \subseteq Ids \cup {None}
BY DEF Restored, Staged, TypeOK, ConversationType

LEMMA CanonicalTailTyped ==
    ASSUME NEW S, NEW required \in SUBSET S, NEW budget
    PROVE  selectDiscordCanonicalTail(S, required, budget) \subseteq S
BY DEF selectDiscordCanonicalTail

LEMMA ClaimStep ==
    ASSUME IInv, claimLoop
    PROVE  IInv'
<1>1. TypeOK
  BY DEF IInv
<1>2. Keeps(checkpoints')
  BY <1>1, KeepsNow, KeepsLoad DEF claimLoop
<1>3. /\ events' \in [DOMAIN events -> Event]
      /\ \A o \in DOMAIN events : events'[o].kind = events[o].kind
  <2>1. events \in [DOMAIN events -> Event]
    BY <1>1, EventsTyped DEF TypeOK
  <2> QED  BY <1>1, <2>1, GaveUpTyped DEF claimLoop
<1>4. events' \in Seq(Event) /\ Len(events') <= MaxEvents /\ DOMAIN events' = DOMAIN events
  BY <1>1, <1>3, EventsPatched DEF TypeOK
<1>5. /\ conversation' \in ConversationType /\ conversation'.epoch = conversation.epoch
      /\ conversation'.active \in {conversation.active, None}
      /\ conversation'.candidate = conversation.candidate
  BY <1>1, ConversationFields, RestoredPointer DEF claimLoop, ConversationType
<1>6. context' \in ContextType
  <2>1. PICK from : LET visible == VisibleAfter(Through(Restored))
                        required == {o \in visible : o >= from /\ events[o].kind = "human"}
                    IN context' =
                         [id |-> Restored,
                          native |-> Restored # None /\ checkpoints[Restored].native # {},
                          required |-> required,
                          recent |-> selectDiscordCanonicalTail(visible, required,
                                       IF Restored = None THEN THRESHOLD_TOKENS
                                       ELSE TAIL_TOKEN_BUDGET)]
    BY DEF claimLoop
  <2> DEFINE visible == VisibleAfter(Through(Restored))
             required == {o \in visible : o >= from /\ events[o].kind = "human"}
             recent == selectDiscordCanonicalTail(visible, required,
                         IF Restored = None THEN THRESHOLD_TOKENS ELSE TAIL_TOKEN_BUDGET)
  <2>2. visible \subseteq Ordinals
    BY <1>1, EventsTyped, SliceTyped
  <2>3. required \subseteq visible
    OBVIOUS
  <2>4. recent \subseteq visible
    <3> HIDE DEF visible, required
    <3> QED  BY <2>3, CanonicalTailTyped
  <2>5. context' = [id |-> Restored,
                    native |-> Restored # None /\ checkpoints[Restored].native # {},
                    required |-> required, recent |-> recent]
    BY <2>1
  <2> HIDE DEF visible, required, recent
  <2> QED  BY <1>1, <2>2, <2>3, <2>4, <2>5, RestoredPointer DEF ContextType
<1>7. UNCHANGED <<unresolved, aged, job>>
  BY DEF claimLoop
<1>8. TypeOK'
  <2>1. DOMAIN checkpoints' = DOMAIN checkpoints
    BY <1>2 DEF Keeps
  <2>2. \A id \in DOMAIN checkpoints : id[1] = checkpoints'[id].epoch
    BY <1>1, <1>2 DEF TypeOK, Keeps, SameTold
  <2> QED  BY <1>1, <1>2, <1>4, <1>5, <1>6, <1>7, <2>1, <2>2 DEF TypeOK, Keeps
<1>9. History /\ JobsKept
  BY <1>3, <1>4, <1>5, <1>7 DEF History, JobsKept, SameTold
<1>10. DocsKept
  BY <1>2 DEF DocsKept, Keeps
<1> QED  BY <1>8, <1>9, <1>10, IInvStays


LEMMA ResetStep ==
    ASSUME IInv, resetAssistantConversation
    PROVE  IInv'
<1>1. TypeOK
  BY DEF IInv
<1>2. /\ conversation' \in ConversationType
      /\ conversation'.epoch = conversation.epoch + 1
      /\ conversation'.active = None /\ conversation'.candidate = None
  BY <1>1, ConversationFields DEF resetAssistantConversation, NewEpoch, ConversationType
<1>3. Keeps(checkpoints')
  <2> DEFINE new(d) == [d EXCEPT !.native = {},
                          !.status = IF d.status \in {"active", "candidate"}
                                     THEN "superseded" ELSE d.status]
  <2>1. checkpoints' = [id \in DOMAIN checkpoints |-> new(checkpoints[id])]
    BY DEF resetAssistantConversation
  <2>2. \A d \in Document : new(d) \in Document /\ SameTold(new(d), d)
    BY DEF Document, SameTold
  <2> HIDE DEF new
  <2> QED  BY <1>1, <2>1, <2>2 DEF Keeps, TypeOK
<1>4. /\ events' = << >> /\ unresolved' \subseteq {0} /\ context' = NoContext
      /\ UNCHANGED <<aged, job>>
  BY DEF resetAssistantConversation, NewEpoch
<1>5. << >> \in Seq(Event) /\ Len(<< >>) = 0 /\ MaxEvents \in Nat
  BY CheckpointAssumption
<1>6. TypeOK'
  <2>1. DOMAIN checkpoints' = DOMAIN checkpoints
    BY <1>3 DEF Keeps
  <2>2. \A id \in DOMAIN checkpoints : id[1] = checkpoints'[id].epoch
    BY <1>1, <1>3 DEF TypeOK, Keeps, SameTold
  <2> QED  BY <1>1, <1>2, <1>3, <1>4, <1>5, <2>1, <2>2, ConversationFields DEF TypeOK, Keeps
<1>7. History /\ DocsKept /\ JobsKept
  BY <1>2, <1>3, <1>4 DEF History, DocsKept, JobsKept, Keeps, SameTold
<1> QED  BY <1>6, <1>7, IInvStays

LEMMA DeletionStep ==
    ASSUME IInv, deleteGuildConversationPrivacyData
    PROVE  IInv'
<1>1. TypeOK
  BY DEF IInv
<1>2. /\ conversation' \in ConversationType
      /\ conversation'.epoch = conversation.epoch + 1
      /\ conversation'.active = None /\ conversation'.candidate = None
  BY <1>1, ConversationFields
     DEF deleteGuildConversationPrivacyData, NewEpoch, ConversationType
<1>3. /\ events' = << >> /\ unresolved' = {} /\ context' = NoContext /\ aged' = {}
      /\ DOMAIN checkpoints' = {} /\ checkpoints' \in [{} -> Document] /\ UNCHANGED job
  BY DEF deleteGuildConversationPrivacyData, NewEpoch, EmptyDoc
<1>4. << >> \in Seq(Event) /\ Len(<< >>) = 0 /\ MaxEvents \in Nat
  BY CheckpointAssumption
<1>5. TypeOK'
  BY <1>1, <1>2, <1>3, <1>4, ConversationFields DEF TypeOK
<1>6. History /\ DocsKept /\ JobsKept
  BY <1>2, <1>3 DEF History, DocsKept, JobsKept, SameTold
<1> QED  BY <1>5, <1>6, IInvStays

-----------------------------------------------------------------------------
(* Steps of the coordinators. *)

LEMMA NextCheckpointStep ==
    ASSUME IInv, NEW g \in Gateways, nextPortableCheckpoint(g)
    PROVE  IInv'
<1> DEFINE staged == IF g \in NativeGateways THEN Staged ELSE None
           base == IF staged = None THEN Restored ELSE staged
           r == Request(g, base, staged # None)
<1>1. TypeOK
  BY DEF IInv
<1>2. job' = [job EXCEPT ![g] = r]
  BY DEF nextPortableCheckpoint
<1>3. r # NoJob => r \in RequestType /\ FaithfulNext(r)
  <2>1. base = None \/ Live(base)
    BY RestoredLive
  <2>2. SUFFICES ASSUME r # NoJob  PROVE r \in RequestType /\ FaithfulNext(r)
    OBVIOUS
  <2>3. /\ r \in RequestType /\ r.epoch = conversation.epoch
        /\ r.slice \subseteq DOMAIN events /\ r.covers = Told(r.slice)
    <3>1. (staged # None) \in BOOLEAN
      OBVIOUS
    <3> HIDE DEF base, staged
    <3> QED  BY <2>1, <2>2, <3>1, RequestFaithful
  <2>4. events' = events /\ conversation'.epoch = conversation.epoch
    BY <1>1 DEF nextPortableCheckpoint, TypeOK, ConversationType
  <2>5. conversation.epoch \in Int
    BY <1>1 DEF TypeOK, ConversationType
  <2> HIDE DEF r
  <2> QED  BY <2>3, <2>4, <2>5 DEF FaithfulNext, Told
<1>4. job' \in [Gateways -> RequestType \cup {NoJob}] /\ JobsKept
  <2>1. job \in [Gateways -> RequestType \cup {NoJob}]
    BY <1>1 DEF TypeOK
  <2> HIDE DEF r
  <2> QED  BY <1>2, <1>3, <2>1 DEF JobsKept, SameTold
<1>5. Keeps(checkpoints')
  BY <1>1, KeepsNow, KeepsLoad DEF nextPortableCheckpoint
<1>6. /\ conversation' \in ConversationType /\ conversation'.epoch = conversation.epoch
      /\ conversation'.active \in {conversation.active, None}
      /\ conversation'.candidate \in {conversation.candidate, None}
  <2>1. conversation' = [conversation EXCEPT
           !.active = Restored,
           !.candidate = IF g \in NativeGateways THEN staged ELSE conversation.candidate]
    BY DEF nextPortableCheckpoint
  <2> QED  BY <1>1, <2>1, RestoredPointer DEF TypeOK, ConversationType
<1>7. /\ UNCHANGED <<events, unresolved, aged, context>>
  BY DEF nextPortableCheckpoint
<1>8. Pointers' \subseteq Pointers
  BY <1>6 DEF Pointers
<1>9. aged' \subseteq DOMAIN checkpoints /\ context' \in ContextType
  BY <1>1, <1>7 DEF TypeOK
<1> HIDE DEF r
<1> QED  BY <1>4, <1>5, <1>6, <1>7, <1>8, <1>9, CheckpointStep

LEMMA AnswerStep ==
    ASSUME IInv, NEW g \in Gateways, portableCheckpoint(g) \/ CoordinatorEnds(g)
    PROVE  IInv'
<1>1. TypeOK
  BY DEF IInv
<1>2. UNCHANGED <<conversation, events, unresolved, checkpoints, aged, context>>
  BY DEF portableCheckpoint, CoordinatorEnds
<1>3. /\ job[g] # NoJob
      /\ \/ job' = [job EXCEPT ![g] = NoJob]
         \/ \E artifact \in {{}, job[g].previousNative \cup job[g].source} :
              job' = [job EXCEPT ![g] = [job[g] EXCEPT !.stage = "answered",
                                                       !.native = artifact]]
  <2>1. CASE CoordinatorEnds(g)
    <3>1. job[g] # NoJob /\ job' = [job EXCEPT ![g] = NoJob]
      BY <2>1 DEF CoordinatorEnds
    <3> QED  BY <3>1, Zenon
  <2>2. CASE portableCheckpoint(g)
    <3>1. job[g] # NoJob
      <4>1. job[g].stage = "sent"
        BY <2>2 DEF portableCheckpoint
      <4> QED  BY ONLY <4>1 DEF NoJob
    <3>2. PICK artifact \in {{}, job[g].previousNative \cup job[g].source} :
            job' = [job EXCEPT ![g] = [job[g] EXCEPT !.stage = "answered",
                                                     !.native = artifact]]
      BY <2>2 DEF portableCheckpoint
    <3> QED  BY <3>1, <3>2
  <2> QED  BY <2>1, <2>2
<1>4. job[g] \in RequestType
  BY <1>1, <1>3, RequestsTyped
<1>5. \A artifact \in {{}, job[g].previousNative \cup job[g].source} :
        LET new == [job[g] EXCEPT !.stage = "answered", !.native = artifact]
        IN new \in RequestType /\ SameTold(new, job[g])
  BY <1>4 DEF RequestType, SameTold
<1>6. job' \in [Gateways -> RequestType \cup {NoJob}] /\ JobsKept
  <2>1. job \in [Gateways -> RequestType \cup {NoJob}]
    BY <1>1 DEF TypeOK
  <2>2. CASE job' = [job EXCEPT ![g] = NoJob]
    BY <2>1, <2>2 DEF JobsKept, SameTold
  <2>3. ASSUME NEW new, new \in RequestType, SameTold(new, job[g]),
               job' = [job EXCEPT ![g] = new]
        PROVE  job' \in [Gateways -> RequestType \cup {NoJob}] /\ JobsKept
    BY <1>3, <2>1, <2>3 DEF JobsKept, SameTold
  <2> QED  BY <1>3, <1>5, <2>2, <2>3
<1>7. Keeps(checkpoints') /\ Pointers' \subseteq Pointers
  BY <1>1, <1>2, KeepsNow DEF Pointers, Keeps
<1>8. /\ conversation' \in ConversationType /\ conversation'.epoch = conversation.epoch
      /\ aged' \subseteq DOMAIN checkpoints /\ context' \in ContextType
  BY <1>1, <1>2 DEF TypeOK
<1> QED  BY <1>2, <1>6, <1>7, <1>8, CheckpointStep

-----------------------------------------------------------------------------
(* Steps that end checkpoints. *)

LEMMA RetentionStep ==
    ASSUME IInv, NEW id \in DOMAIN checkpoints, RetentionEnds(id)
    PROVE  IInv'
<1>1. TypeOK
  BY DEF IInv
<1>2. /\ UNCHANGED <<conversation, events, unresolved, checkpoints, context>>
      /\ aged' = aged \cup {id}
      /\ job' = [g \in Gateways |->
                   IF job[g] # NoJob /\ id \notin job[g].since THEN NoJob ELSE job[g]]
  BY DEF RetentionEnds
<1>3. job' \in [Gateways -> RequestType \cup {NoJob}] /\ JobsKept
  BY <1>1, <1>2 DEF TypeOK, JobsKept, SameTold
<1>4. Keeps(checkpoints') /\ Pointers' \subseteq Pointers
  BY <1>1, <1>2, KeepsNow DEF Pointers, Keeps
<1>5. /\ conversation' \in ConversationType /\ conversation'.epoch = conversation.epoch
      /\ aged' \subseteq DOMAIN checkpoints /\ context' \in ContextType
  BY <1>1, <1>2 DEF TypeOK
<1> QED  BY <1>2, <1>3, <1>4, <1>5, CheckpointStep

LEMMA ExpirationStep ==
    ASSUME IInv, expirePortableCheckpoints
    PROVE  IInv'
<1> DEFINE due == {id \in aged : checkpoints[id].status # "expired"}
           new(d) == [d EXCEPT !.status = "expired", !.native = {}]
<1>1. TypeOK
  BY DEF IInv
<1>2. /\ checkpoints' = [id \in DOMAIN checkpoints |->
            IF id \in due THEN new(checkpoints[id]) ELSE checkpoints[id]]
      /\ conversation' = [conversation EXCEPT
            !.active = IF conversation.active \in due THEN None ELSE conversation.active,
            !.candidate = IF conversation.candidate \in due THEN None
                          ELSE conversation.candidate]
      /\ UNCHANGED <<events, unresolved, aged, context, job>>
  BY DEF expirePortableCheckpoints
<1>3. Keeps(checkpoints')
  <2>1. \A d \in Document : new(d) \in Document /\ SameTold(new(d), d)
    BY DEF Document, SameTold
  <2> HIDE DEF new, due
  <2> QED  BY <1>1, <1>2, <2>1 DEF Keeps, TypeOK, SameTold
<1>4. /\ conversation' \in ConversationType /\ conversation'.epoch = conversation.epoch
      /\ conversation'.active \in {conversation.active, None}
      /\ conversation'.candidate \in {conversation.candidate, None}
  <2> HIDE DEF due
  <2> QED  BY <1>1, <1>2 DEF TypeOK, ConversationType
<1>5. /\ Pointers' \subseteq Pointers /\ aged' \subseteq DOMAIN checkpoints
      /\ context' \in ContextType /\ job' \in [Gateways -> RequestType \cup {NoJob}]
      /\ JobsKept
  BY <1>1, <1>2, <1>4 DEF TypeOK, Pointers, JobsKept, SameTold
<1> HIDE DEF due, new
<1> QED  BY <1>2, <1>3, <1>4, <1>5, CheckpointStep

LEMMA InvalidationStep ==
    ASSUME IInv, invalidateNativeCheckpoint
    PROVE  IInv'
<1>1. TypeOK
  BY DEF IInv
<1>2. Keeps(checkpoints')
  <2> DEFINE new(id) == [checkpoints[id] EXCEPT !.native = {}]
  <2>1. ASSUME NEW id \in DOMAIN checkpoints
        PROVE  new(id) \in Document /\ SameTold(new(id), checkpoints[id])
    BY <1>1, <2>1 DEF TypeOK, Document, SameTold
  <2>2. \A id : Keeps([checkpoints EXCEPT ![id] = new(id)])
    <3> HIDE DEF new
    <3> QED  BY <1>1, <2>1, KeepsNow, KeepsChanged
  <2>3. \/ UNCHANGED checkpoints
        \/ checkpoints' = [checkpoints EXCEPT ![context.id] = new(context.id)]
    BY DEF invalidateNativeCheckpoint
  <2> HIDE DEF new
  <2> QED  BY <1>1, <2>2, <2>3, KeepsNow
<1>3. UNCHANGED <<conversation, events, unresolved, aged, job>>
  BY DEF invalidateNativeCheckpoint
<1>4. context' \in ContextType
  BY <1>1 DEF invalidateNativeCheckpoint, TypeOK, ContextType
<1>5. /\ Pointers' \subseteq Pointers /\ aged' \subseteq DOMAIN checkpoints
      /\ conversation' \in ConversationType /\ conversation'.epoch = conversation.epoch
      /\ job' \in [Gateways -> RequestType \cup {NoJob}] /\ JobsKept
  BY <1>1, <1>3 DEF TypeOK, Pointers, JobsKept, SameTold
<1> QED  BY <1>2, <1>3, <1>4, <1>5, CheckpointStep


(* An answer that is stored tells of what its slice has, and is stored for it. *)
LEMMA StoreStep ==
    ASSUME IInv, NEW g \in Gateways, storePortableCheckpoint(g)
    PROVE  /\ IInv'
           /\ \/ conversation'.active \in {conversation.active, None}
              \/ /\ Complete(job[g])
                 /\ conversation'.active \in DOMAIN checkpoints'
                 /\ SameTold(checkpoints'[conversation'.active], job[g])
                 /\ checkpoints'[conversation'.active].through = job[g].through
<1> DEFINE r == job[g]
           complete == Complete(r)
           docs == Loaded(r, complete)
           id == CheckpointId(r)
<1>1. TypeOK
  BY DEF IInv
<1>2. /\ r.stage = "answered" /\ Fenced(r) /\ ValidSource(r)
      /\ UNCHANGED <<events, unresolved, aged, context, job>>
  BY DEF storePortableCheckpoint
<1>3. r # NoJob /\ r \in RequestType
  <2>1. r # NoJob
    BY <1>2 DEF NoJob
  <2> QED  BY <1>1, <2>1, RequestsTyped
<1>4. Keeps(docs)
  BY <1>1, KeepsNow, KeepsLoad DEF Loaded
<1>5. JobsKept /\ job' \in [Gateways -> RequestType \cup {NoJob}]
      /\ aged' \subseteq DOMAIN checkpoints /\ context' \in ContextType
  BY <1>1, <1>2 DEF TypeOK, JobsKept, SameTold
<1>6. CASE id \in DOMAIN checkpoints
  <2>1. /\ checkpoints' = docs
        /\ conversation' = [conversation EXCEPT !.active = Restored]
    BY <1>6 DEF storePortableCheckpoint
  <2>2. /\ conversation' \in ConversationType /\ conversation'.epoch = conversation.epoch
        /\ conversation'.active \in {conversation.active, None}
        /\ conversation'.candidate = conversation.candidate
    BY <1>1, <2>1, RestoredPointer DEF TypeOK, ConversationType
  <2>3. Pointers' \subseteq Pointers
    BY <2>2 DEF Pointers
  <2>4. IInv'
    <3> HIDE DEF docs
    <3> QED  BY <1>2, <1>4, <1>5, <2>1, <2>2, <2>3, CheckpointStep
  <2> QED  BY <2>2, <2>4
<1>7. CASE id \notin DOMAIN checkpoints
  <2> DEFINE closed == IF complete THEN Supersede(docs, conversation.active, "active")
                                   ELSE docs
             old == Supersede(closed, conversation.candidate, "candidate")
             new == [status |-> IF complete THEN "active" ELSE "candidate",
                     epoch |-> r.epoch, revision |-> r.revision,
                     generation |-> r.generation, through |-> r.through,
                     slice |-> r.slice, covers |-> r.covers,
                     native |-> IF UnsupportedLineage(complete) THEN {} ELSE r.native]
  <2>1. /\ checkpoints' = [i \in DOMAIN old \cup {id} |-> IF i = id THEN new ELSE old[i]]
        /\ conversation' = IF complete
             THEN [conversation EXCEPT !.active = id, !.candidate = None]
             ELSE [conversation EXCEPT !.candidate = id]
    BY <1>7 DEF storePortableCheckpoint, Stored
  <2>2. Keeps(old)
    BY <1>1, <1>4, KeepsSupersede
  <2>3. new \in Document /\ SameTold(new, r) /\ new.through = r.through
        /\ new.epoch = id[1] /\ id \in Ids
    BY <1>3 DEF RequestType, Document, SameTold, CheckpointId, Ids
  <2>4. /\ conversation' \in ConversationType /\ conversation'.epoch = conversation.epoch
        /\ conversation'.active = IF complete THEN id ELSE conversation.active
        /\ conversation'.candidate = IF complete THEN None ELSE id
    <3> HIDE DEF complete, id
    <3> QED  BY <1>1, <2>1, <2>3 DEF TypeOK, ConversationType
  <2>5. /\ DOMAIN checkpoints' = DOMAIN checkpoints \cup {id}
        /\ checkpoints'[id] = new
        /\ \A i \in DOMAIN checkpoints :
             /\ checkpoints'[i] \in Document
             /\ SameTold(checkpoints'[i], checkpoints[i])
    <3> HIDE DEF old, new, id
    <3> QED  BY <1>7, <2>1, <2>2 DEF Keeps
  <2> HIDE DEF old, new, id, complete
  <2>6. checkpoints' \in [DOMAIN checkpoints' -> Document]
    BY <2>1, <2>3, <2>5
  <2>7. \A i \in DOMAIN checkpoints' : i[1] = checkpoints'[i].epoch
    BY <1>1, <2>3, <2>5 DEF TypeOK, SameTold
  <2>8. TypeOK'
    BY <1>1, <1>2, <1>5, <2>3, <2>4, <2>5, <2>6, <2>7 DEF TypeOK
  <2>9. DocsKept /\ History
    BY <1>2, <1>3, <2>3, <2>4, <2>5 DEF DocsKept, History
  <2>10. IInv'
    BY <1>5, <2>8, <2>9, IInvStays
  <2> QED  BY <2>3, <2>4, <2>5, <2>10 DEF complete
<1> QED  BY <1>6, <1>7

-----------------------------------------------------------------------------
(* The theorems. *)

LEMMA InitInv == Init => IInv
<1> SUFFICES ASSUME Init  PROVE IInv
  OBVIOUS
<1>1. MaxEpoch \in Nat \ {0} /\ MaxGeneration \in Nat \ {0} /\ MaxEvents \in Nat
  BY CheckpointAssumption
<1>2. conversation \in ConversationType
      /\ conversation.active = None /\ conversation.candidate = None
  BY <1>1 DEF Init, ConversationType
<1>3. events \in Seq(Event) /\ Len(events) <= MaxEvents
  BY <1>1 DEF Init
<1>4. /\ DOMAIN checkpoints = {} /\ checkpoints \in [{} -> Document]
      /\ aged = {} /\ unresolved \subseteq {0}
  BY DEF Init, EmptyDoc
<1>5. context \in ContextType
  BY DEF Init, NoContext, ContextType
<1>6. job \in [Gateways -> RequestType \cup {NoJob}] /\ \A g \in Gateways : job[g] = NoJob
  BY DEF Init
<1> QED  BY <1>2, <1>3, <1>4, <1>5, <1>6 DEF IInv, TypeOK

LEMMA StepInv == IInv /\ [Next]_checkpointVars => IInv'
<1> SUFFICES ASSUME IInv, [Next]_checkpointVars  PROVE IInv'
  OBVIOUS
<1>1. CASE ingestMessage
  BY <1>1, AppendSteps
<1>2. CASE TurnStep
  BY <1>2, ClaimStep, AppendSteps, CompleteStep, InvalidationStep, DeliverySteps DEF TurnStep
<1>3. CASE OwnerStep
  BY <1>3, RoutingStep, ResetStep, DeletionStep DEF OwnerStep
<1>4. CASE OldDeliveryResolved
  BY <1>4, OldDeliveryStep
<1>5. CASE expirePortableCheckpoints
  BY <1>5, ExpirationStep
<1>6. CASE \E id \in DOMAIN checkpoints : RetentionEnds(id)
  BY <1>6, RetentionStep
<1>7. ASSUME NEW g \in Gateways, CoordinatorStep(g) \/ CoordinatorEnds(g)
      PROVE  IInv'
  BY <1>7, NextCheckpointStep, AnswerStep, StoreStep DEF CoordinatorStep
<1>8. CASE UNCHANGED checkpointVars
  BY <1>8 DEF IInv, TypeOK, Faithful, Told, checkpointVars
<1> QED  BY <1>1, <1>2, <1>3, <1>4, <1>5, <1>6, <1>7, <1>8 DEF Next

LEMMA InvHolds == Spec => []IInv
BY InitInv, StepInv, PTL DEF Spec

(* The documents, messages and pointers of compaction (discord.ts, schema.ts) keep
   their form. *)
THEOREM TypeCorrect == Spec => []TypeOK
<1>1. IInv => TypeOK
  BY DEF IInv
<1> QED  BY <1>1, InvHolds, PTL

(* Whatever was appended, confirmed late, expired or raced while Pi worked: a
   checkpoint that canonicalCheckpointSlice lets through tells of every visible
   message up to its end. *)
THEOREM CheckpointsAreCompleteHolds == Spec => []CheckpointsAreComplete
<1>1. IInv => CheckpointsAreComplete
  BY RestoredLive, LiveIsComplete DEF CheckpointsAreComplete
<1> QED  BY <1>1, InvHolds, PTL

(* Only storing an answer makes another checkpoint the active one. *)
LEMMA PointerElsewhere ==
    ASSUME IInv, [Next]_checkpointVars, ~ \E g \in Gateways : storePortableCheckpoint(g)
    PROVE  conversation'.active \in {None, conversation.active}
<1>1. conversation \in ConversationType /\ Restored \in {conversation.active, None}
  BY RestoredPointer DEF IInv, TypeOK
<1>2. CASE ingestMessage \/ UNCHANGED checkpointVars \/ expirePortableCheckpoints
  BY <1>1, <1>2 DEF ingestMessage, checkpointVars, expirePortableCheckpoints, ConversationType
<1>3. CASE TurnStep
  <2>1. CASE claimLoop
    BY <1>1, <2>1 DEF claimLoop, ConversationType
  <2>2. CASE \E o \in DOMAIN events : \/ beginReplyDelivery(o) \/ acknowledgeReply_failed(o)
                                     \/ commitCanonicalAssistantDelivery(o)
    BY <1>1, <2>2 DEF beginReplyDelivery, acknowledgeReply_failed,
                      commitCanonicalAssistantDelivery, ConversationType
  <2>3. CASE \/ enqueueReply \/ appendInternalConversationEvent \/ completeLoop
             \/ invalidateNativeCheckpoint
    BY <1>1, <2>3 DEF enqueueReply, appendInternalConversationEvent, completeLoop,
                      invalidateNativeCheckpoint, ConversationType
  <2> QED  BY <1>3, <2>1, <2>2, <2>3 DEF TurnStep
<1>4. CASE OwnerStep
  BY <1>1, <1>4 DEF OwnerStep, setGuildRouting, resetAssistantConversation,
                    deleteGuildConversationPrivacyData, NewEpoch, ConversationType
<1>5. CASE OldDeliveryResolved \/ \E id \in DOMAIN checkpoints : RetentionEnds(id)
  BY <1>5 DEF OldDeliveryResolved, RetentionEnds
<1>6. ASSUME NEW g \in Gateways, nextPortableCheckpoint(g)
      PROVE  conversation'.active \in {None, conversation.active}
  BY <1>1, <1>6 DEF nextPortableCheckpoint, ConversationType
<1>7. ASSUME NEW g \in Gateways, portableCheckpoint(g) \/ CoordinatorEnds(g)
      PROVE  conversation'.active \in {None, conversation.active}
  BY <1>7 DEF portableCheckpoint, CoordinatorEnds
<1> QED  BY <1>2, <1>3, <1>4, <1>5, <1>6, <1>7 DEF Next, CoordinatorStep

(* Activating a checkpoint (storePortableCheckpoint) takes no message from what
   the next claims are given. *)
THEOREM ActivationLosesNothingHolds == Spec => ActivationLosesNothing
<1> DEFINE Lossless ==
      LET id == conversation'.active
      IN id \notin {None, conversation.active} =>
           checkpoints'[id].covers
             \cup selectDiscordCheckpointTail(VisibleAfter(checkpoints'[id].through))
             = Visible
<1>1. IInv /\ [Next]_checkpointVars => [Lossless]_checkpointVars
  <2> SUFFICES ASSUME IInv, [Next]_checkpointVars,
                      conversation'.active \notin {None, conversation.active}
               PROVE  Lossless
    OBVIOUS
  <2>1. PICK g \in Gateways : storePortableCheckpoint(g)
    BY PointerElsewhere
  <2> DEFINE r == job[g]
             id == conversation'.active
  <2>2. /\ Complete(r) /\ SameTold(checkpoints'[id], r)
        /\ checkpoints'[id].through = r.through
    BY <2>1, StoreStep
  <2>3. r.stage = "answered" /\ Fenced(r) /\ ValidSource(r)
    BY <2>1 DEF storePortableCheckpoint
  <2>4. r.covers = Told(Slice(r.through))
    BY <2>3 DEF IInv, Faithful, Fenced, ValidSource, NoJob
  <2>5. selectDiscordCheckpointTail(VisibleAfter(r.through)) = VisibleAfter(r.through)
    BY <2>2 DEF Complete, RetainedTail
  <2>6. r.covers = {o \in Visible : o <= r.through}
    BY <2>4 DEF Told, Slice, Visible
  <2>7. r.covers \cup VisibleAfter(r.through) = Visible
    <3>1. r.through \in Int
      <4>1. TypeOK /\ r # NoJob
        BY <2>3 DEF IInv, NoJob
      <4> QED  BY <4>1, RequestsTyped DEF RequestType, Ordinals
    <3>2. \A o \in Visible : o \in Int
      BY EventsTyped, SliceTyped DEF IInv
    <3> HIDE DEF r
    <3> QED  BY <2>6, <3>1, <3>2 DEF VisibleAfter
  <2>8. checkpoints'[id].covers = r.covers
    BY <2>2 DEF SameTold
  <2> QED  BY <2>2, <2>5, <2>7, <2>8
<1> QED  BY <1>1, InvHolds, PTL DEF Spec, ActivationLosesNothing

-----------------------------------------------------------------------------
(* The lineage of native artifacts, while no checkpoint has reached its retention.
   An answer that extends a checkpoint without an artifact, or a staged one, leaves
   out what that one tells of.  It is discarded, because as long as its fence holds
   something is in the way of an artifact: a stage, or an active checkpoint that can
   be used and has none. *)

(* An artifact has seen all that the summary beside it tells of, as far as the
   document, or the request with what it passed on, can say. *)
Whole(d) == d.native = {} \/ d.covers \subseteq d.native
Lineal(r) == r.covers \subseteq r.source \cup r.previousNative

(* An artifact that is stored now is not kept. *)
Blocked ==
    \/ Staged # None
    \/ Restored # None /\ checkpoints[Restored].native = {}

(* A request is not of a version of the conversation that is yet to come. *)
Past(r) ==
    /\ r.epoch <= conversation.epoch
    /\ r.epoch = conversation.epoch => r.revision <= conversation.revision
    /\ r.generation <= conversation.generation

RequestKnown(g) ==
    /\ Past(job[g])
    /\ job[g].native \in {{}, job[g].previousNative \cup job[g].source}
    /\ g \notin NativeGateways => job[g].native = {}

LineageKnown(g) == Fenced(job[g]) => Lineal(job[g]) \/ Blocked

PointersApart == conversation.candidate # None => conversation.candidate # conversation.active
RequestsKnown == \A g \in Gateways : job[g] # NoJob => RequestKnown(g)
DocsWhole == aged = {} => \A id \in DOMAIN checkpoints : Whole(checkpoints[id])
LineagesKnown ==
    aged = {} => \A g \in NativeGateways : job[g] # NoJob => LineageKnown(g)

LInv == IInv /\ PointersApart /\ RequestsKnown /\ DocsWhole /\ LineagesKnown

-----------------------------------------------------------------------------
(* What a step does to the version of the conversation, its pointers and the
   requests. *)

SameVersion ==
    /\ conversation'.epoch = conversation.epoch
    /\ conversation'.revision = conversation.revision
    /\ conversation'.generation = conversation.generation

NewVersion ==
    \/ /\ conversation'.epoch = conversation.epoch
       /\ \/ /\ conversation'.revision = conversation.revision + 1
             /\ conversation'.generation \in {conversation.generation, conversation.generation + 1}
          \/ /\ conversation'.revision = conversation.revision
             /\ conversation'.generation = conversation.generation + 1
    \/ /\ conversation'.epoch = conversation.epoch + 1
       /\ conversation'.generation = conversation.generation + 1

PointersKept ==
    /\ conversation'.active \in {conversation.active, None}
    /\ conversation'.candidate \in {conversation.candidate, None}

LEMMA VersionSteps ==
    ASSUME TypeOK, \/ ingestMessage \/ claimLoop \/ appendInternalConversationEvent \/ OwnerStep
                   \/ \E o \in DOMAIN events : commitCanonicalAssistantDelivery(o)
    PROVE  /\ NewVersion /\ PointersKept /\ UNCHANGED job
           /\ aged' = {} => aged = {} \/ DOMAIN checkpoints' = {}
<1>1. conversation \in ConversationType
  BY DEF TypeOK
<1>2. Restored \in {conversation.active, None}
  BY RestoredPointer
<1>3. CASE ingestMessage \/ appendInternalConversationEvent
  BY <1>1, <1>3 DEF ingestMessage, appendInternalConversationEvent, ConversationType,
                    NewVersion, PointersKept
<1>4. CASE claimLoop
  BY <1>1, <1>2, <1>4 DEF claimLoop, ConversationType, NewVersion, PointersKept
<1>5. CASE \E o \in DOMAIN events : commitCanonicalAssistantDelivery(o)
  BY <1>1, <1>5 DEF commitCanonicalAssistantDelivery, ConversationType, NewVersion, PointersKept
<1>6. CASE setGuildRouting
  <2>1. PICK surfaceChanged \in BOOLEAN :
          conversation' = [conversation EXCEPT
              !.generation = @ + 1, !.turn = FALSE,
              !.revision = IF surfaceChanged THEN @ + 1 ELSE @]
    BY <1>6 DEF setGuildRouting
  <2>2. UNCHANGED <<checkpoints, aged, job>>
    BY <1>6 DEF setGuildRouting
  <2> QED  BY <1>1, <2>1, <2>2 DEF ConversationType, NewVersion, PointersKept
<1>7. CASE resetAssistantConversation \/ deleteGuildConversationPrivacyData
  BY <1>1, <1>7 DEF resetAssistantConversation, deleteGuildConversationPrivacyData, NewEpoch,
                    EmptyDoc, ConversationType, NewVersion, PointersKept
<1> QED  BY <1>3, <1>4, <1>5, <1>6, <1>7 DEF OwnerStep

(* A step that changes no version, and neither documents nor pointers. *)
LEMMA QuietSteps ==
    ASSUME TypeOK,
           \/ enqueueReply \/ completeLoop \/ OldDeliveryResolved \/ UNCHANGED checkpointVars
           \/ \E o \in DOMAIN events : beginReplyDelivery(o) \/ acknowledgeReply_failed(o)
           \/ \E g \in Gateways : portableCheckpoint(g) \/ CoordinatorEnds(g)
           \/ \E id \in DOMAIN checkpoints : RetentionEnds(id)
    PROVE  /\ SameVersion /\ UNCHANGED checkpoints
           /\ conversation'.active = conversation.active
           /\ conversation'.candidate = conversation.candidate
           /\ aged \subseteq aged'
           /\ Committed' = Committed /\ Len(events) <= Len(events')
<1>1. conversation \in ConversationType /\ events \in Seq(Event)
  BY DEF TypeOK
<1>2. DOMAIN events = 1 .. Len(events) /\ Len(events) \in Nat
  BY EventsTyped
<1>3. CASE enqueueReply
  <2>1. PICK t \in EventTokens :
          events' = Append(events, [kind |-> "assistant", status |-> "pending", tokens |-> t])
    BY <1>3 DEF enqueueReply, Append1
  <2> DEFINE e == [kind |-> "assistant", status |-> "pending", tokens |-> t]
  <2>2. e \in Event /\ e.status # "committed"
    BY DEF Event
  <2>3. /\ Len(events') = Len(events) + 1 /\ events' \in Seq(Event)
        /\ \A i \in 1 .. Len(events) : events'[i] = events[i]
        /\ events'[Len(events) + 1] = e
    <3> HIDE DEF e
    <3>1. events' = Append(events, e)
      BY <2>1 DEF e
    <3> QED  BY <1>1, <2>2, <3>1, AppendProperties
  <2>4. DOMAIN events' = 1 .. (Len(events) + 1)
    BY <2>3, LenProperties
  <2>5. Committed' = Committed
    <3> HIDE DEF e
    <3>1. \A o \in DOMAIN events' : o \in DOMAIN events \/ o = Len(events) + 1
      BY <1>2, <2>4
    <3>2. DOMAIN events \subseteq DOMAIN events'
      BY <1>2, <2>4
    <3> QED  BY <1>2, <2>2, <2>3, <3>1, <3>2 DEF Committed
  <2> QED  BY <1>2, <1>3, <2>3, <2>5 DEF enqueueReply, SameVersion
<1>4. CASE completeLoop
  <2>1. events' = GaveUp /\ DOMAIN GaveUp = DOMAIN events
    BY <1>4 DEF completeLoop, GaveUp
  <2>2. Committed' = Committed
    BY <2>1, EventsTyped DEF Committed, GaveUp, Event
  <2>3. Len(events') = Len(events)
    BY <2>1, GaveUpTyped, EventsPatched
  <2> QED  BY <1>1, <1>2, <1>4, <2>2, <2>3 DEF completeLoop, SameVersion, ConversationType
<1>5. CASE OldDeliveryResolved \/ UNCHANGED checkpointVars
  BY <1>2, <1>5 DEF OldDeliveryResolved, checkpointVars, SameVersion, Committed
<1>6. CASE \E o \in DOMAIN events : beginReplyDelivery(o) \/ acknowledgeReply_failed(o)
  <2>1. PICK o \in DOMAIN events : beginReplyDelivery(o) \/ acknowledgeReply_failed(o)
    BY <1>6
  <2>2. /\ events[o].status = "pending" /\ UNCHANGED <<conversation, checkpoints, aged>>
        /\ \/ UNCHANGED events
           \/ events' = [events EXCEPT ![o].status = "failed"]
    BY <2>1 DEF beginReplyDelivery, acknowledgeReply_failed
  <2>3. CASE UNCHANGED events
    BY <1>2, <2>2, <2>3 DEF SameVersion, Committed
  <2>4. CASE events' = [events EXCEPT ![o].status = "failed"]
    <3> DEFINE e == [events[o] EXCEPT !.status = "failed"]
    <3>1. e \in Event /\ e.status = "failed"
      BY EventsTyped DEF Event
    <3>2. events' = [events EXCEPT ![o] = e] /\ events \in [DOMAIN events -> Event]
      BY <2>4, EventsTyped DEF TypeOK
    <3> HIDE DEF e
    <3>3. Committed' = Committed
      BY <2>2, <3>1, <3>2 DEF Committed
    <3>4. events' \in [DOMAIN events -> Event]
      BY <3>1, <3>2
    <3>5. Len(events') = Len(events)
      BY <3>4, EventsPatched
    <3> QED  BY <1>2, <2>2, <3>3, <3>5 DEF SameVersion
  <2> QED  BY <2>2, <2>3, <2>4
<1>7. CASE \E g \in Gateways : portableCheckpoint(g) \/ CoordinatorEnds(g)
  <2>1. UNCHANGED <<conversation, events, checkpoints, aged>>
    BY <1>7 DEF portableCheckpoint, CoordinatorEnds
  <2> QED  BY <1>2, <2>1 DEF SameVersion, Committed
<1>8. CASE \E id \in DOMAIN checkpoints : RetentionEnds(id)
  BY <1>2, <1>8 DEF RetentionEnds, SameVersion, Committed
<1> QED  BY <1>3, <1>4, <1>5, <1>6, <1>7, <1>8

-----------------------------------------------------------------------------
(* While the version stands, what bars an artifact keeps barring it. *)

(* The document with this id can be used after the step if it could before. *)
SameUse(id) ==
    /\ id \in DOMAIN checkpoints'
    /\ checkpoints'[id].status = checkpoints[id].status
    /\ checkpoints'[id].epoch = checkpoints[id].epoch
    /\ checkpoints'[id].revision = checkpoints[id].revision
    /\ checkpoints'[id].generation = checkpoints[id].generation
    /\ checkpoints'[id].through = checkpoints[id].through
    /\ checkpoints'[id].slice = checkpoints[id].slice
    /\ checkpoints[id].native = {} => checkpoints'[id].native = {}

LEMMA RestoredNext ==
    ASSUME NEW id, conversation'.active = id, id \in DOMAIN checkpoints',
           checkpoints'[id].status = "active", aged' = {},
           checkpoints'[id].epoch = conversation'.epoch,
           checkpoints'[id].revision <= conversation'.revision,
           checkpoints'[id].slice = {o \in Committed' : o <= checkpoints'[id].through}
    PROVE  Restored' = id
BY DEF Restored, portableCheckpointRestorable, Matches, Slice

LEMMA StagedNext ==
    ASSUME NEW id, conversation'.candidate = id, id \in DOMAIN checkpoints',
           checkpoints'[id].status = "candidate", aged' = {},
           checkpoints'[id].epoch = conversation'.epoch,
           checkpoints'[id].revision <= conversation'.revision,
           checkpoints'[id].revision = conversation'.revision,
           checkpoints'[id].generation = conversation'.generation,
           checkpoints'[id].through <= Len(events'),
           checkpoints'[id].slice = {o \in Committed' : o <= checkpoints'[id].through}
    PROVE  Staged' = id
BY DEF Staged, portableCheckpointRestorable, Matches, Slice

LEMMA BlockedStays ==
    ASSUME TypeOK, Blocked, SameVersion, Committed' = Committed,
           Len(events) <= Len(events'), Len(events') \in Nat, aged' = {},
           Restored # None =>
             conversation'.active = conversation.active /\ SameUse(conversation.active),
           Staged # None =>
             conversation'.candidate = conversation.candidate /\ SameUse(conversation.candidate)
    PROVE  Blocked'
<1>1. CASE Staged # None
  <2> DEFINE id == conversation.candidate
  <2>1. /\ Staged = id /\ id # None /\ id \in DOMAIN checkpoints
        /\ checkpoints[id].status = "candidate"
        /\ checkpoints[id].epoch = conversation.epoch
        /\ checkpoints[id].revision <= conversation.revision
        /\ checkpoints[id].revision = conversation.revision
        /\ checkpoints[id].generation = conversation.generation
        /\ checkpoints[id].through <= Len(events)
        /\ checkpoints[id].slice = {o \in Committed : o <= checkpoints[id].through}
    BY <1>1 DEF Staged, portableCheckpointRestorable, Matches, Slice
  <2>2. checkpoints[id].through \in Nat /\ Len(events) \in Nat
    BY <2>1, EventsTyped DEF TypeOK, Document, Ordinals
  <2>3. checkpoints[id].through <= Len(events')
    BY <2>1, <2>2
  <2>4. conversation'.candidate = id /\ SameUse(id)
    BY <1>1
  <2> HIDE DEF id
  <2>5. Staged' = id
    BY <2>1, <2>3, <2>4, StagedNext DEF SameUse, SameVersion
  <2> QED  BY <2>1, <2>5 DEF Blocked
<1>2. CASE Restored # None /\ checkpoints[Restored].native = {}
  <2> DEFINE id == conversation.active
  <2>1. /\ Restored = id /\ id # None /\ id \in DOMAIN checkpoints
        /\ checkpoints[id].status = "active"
        /\ checkpoints[id].epoch = conversation.epoch
        /\ checkpoints[id].revision <= conversation.revision
        /\ checkpoints[id].slice = {o \in Committed : o <= checkpoints[id].through}
    BY <1>2 DEF Restored, portableCheckpointRestorable, Matches, Slice
  <2>2. conversation'.active = id /\ SameUse(id)
    BY <1>2
  <2> HIDE DEF id
  <2>3. Restored' = id
    BY <2>1, <2>2, RestoredNext DEF SameUse, SameVersion
  <2>4. checkpoints'[id].native = {}
    BY <1>2, <2>1, <2>2 DEF SameUse
  <2> QED  BY <2>1, <2>3, <2>4 DEF Blocked
<1> QED  BY <1>1, <1>2 DEF Blocked

(* Reading the pointers closes what cannot be used, and only that. *)
LEMMA LoadSpares ==
    ASSUME TypeOK, PointersApart
    PROVE  /\ Restored # None =>
                AfterLoad(checkpoints)[conversation.active] = checkpoints[conversation.active]
           /\ Restored # None =>
                AfterStaged(AfterLoad(checkpoints))[conversation.active]
                  = checkpoints[conversation.active]
           /\ Staged # None =>
                AfterLoad(checkpoints)[conversation.candidate] = checkpoints[conversation.candidate]
           /\ Staged # None =>
                AfterStaged(AfterLoad(checkpoints))[conversation.candidate]
                  = checkpoints[conversation.candidate]
           /\ DOMAIN AfterLoad(checkpoints) = DOMAIN checkpoints
           /\ DOMAIN AfterStaged(AfterLoad(checkpoints)) = DOMAIN checkpoints
<1> DEFINE a == conversation.active
           c == conversation.candidate
           docs == AfterLoad(checkpoints)
<1>1. /\ Restored # None => Restored = a /\ docs = checkpoints
      /\ docs = checkpoints \/ docs = [checkpoints EXCEPT ![a] = Closed(a)]
  BY RestoredLive DEF AfterLoad
<1>2. /\ Staged # None => Staged = c /\ c # None /\ AfterStaged(docs) = docs
      /\ AfterStaged(docs) = docs \/ AfterStaged(docs) = [docs EXCEPT ![c] = Closed(c)]
  BY RestoredLive DEF AfterStaged
<1>3. c # None => a # c
  BY DEF PointersApart
<1>4. CASE c # None
  <2>1. /\ Restored # None => a \in DOMAIN checkpoints
        /\ Staged # None => c \in DOMAIN checkpoints
    BY RestoredLive DEF Live
  <2>2. /\ DOMAIN docs = DOMAIN checkpoints
        /\ DOMAIN AfterStaged(docs) = DOMAIN checkpoints
    <3> HIDE DEF a, c, docs
    <3> QED  BY <1>1, <1>2
  <2>3. Staged # None => docs[c] = checkpoints[c] /\ AfterStaged(docs)[c] = checkpoints[c]
    <3> HIDE DEF a, c, docs
    <3> QED  BY <1>1, <1>2, <1>3, <1>4, <2>1
  <2>4. Restored # None => docs[a] = checkpoints[a] /\ AfterStaged(docs)[a] = checkpoints[a]
    <3> HIDE DEF a, c, docs
    <3> QED  BY <1>1, <1>2, <1>3, <1>4, <2>1
  <2> QED  BY <2>2, <2>3, <2>4
<1>5. CASE c = None
  <2>1. Staged = None
    BY <1>2, <1>5
  <2>2. AfterStaged(docs) = docs
    BY <1>5, <2>1 DEF AfterStaged
  <2> QED  BY <1>1, <2>1, <2>2
<1> QED  BY <1>4, <1>5

(* Closing, or turning down, an artifact leaves the others as they are. *)
LEMMA WholeKept ==
    ASSUME TypeOK, PointersApart, aged = {}, DocsWhole
    PROVE  /\ \A id \in DOMAIN checkpoints : Whole(AfterLoad(checkpoints)[id])
           /\ \A id \in DOMAIN checkpoints : Whole(AfterStaged(AfterLoad(checkpoints))[id])
<1>1. \A id \in DOMAIN checkpoints : checkpoints[id] \in Document /\ Whole(checkpoints[id])
  BY DEF TypeOK, DocsWhole
<1>2. \A id \in DOMAIN checkpoints : Whole(Closed(id))
  BY <1>1 DEF Closed, Document, Whole
<1>3. DOMAIN AfterLoad(checkpoints) = DOMAIN checkpoints
  BY LoadSpares
<1>4. \A id \in DOMAIN checkpoints : Whole(AfterLoad(checkpoints)[id])
  BY <1>1, <1>2 DEF AfterLoad
<1>5. ASSUME NEW docs, DOMAIN docs = DOMAIN checkpoints,
             \A id \in DOMAIN checkpoints : Whole(docs[id])
      PROVE  \A id \in DOMAIN checkpoints : Whole(AfterStaged(docs)[id])
  BY <1>2, <1>5 DEF AfterStaged
<1> QED  BY <1>3, <1>4, <1>5

-----------------------------------------------------------------------------
(* Storing an answer. *)

LEMMA WholeSuperseded ==
    ASSUME TypeOK, NEW docs, Keeps(docs), NEW i, NEW status,
           \A id \in DOMAIN checkpoints : Whole(docs[id])
    PROVE  \A id \in DOMAIN checkpoints : Whole(Supersede(docs, i, status)[id])
<1> DEFINE d == [docs[i] EXCEPT !.status = "superseded",
                   !.native = IF status = "candidate" THEN {} ELSE docs[i].native]
<1>1. ASSUME i \in DOMAIN checkpoints  PROVE Whole(d)
  BY <1>1 DEF Keeps, Document, Whole
<1>2. [docs EXCEPT ![i].status = "superseded",
                   ![i].native = IF status = "candidate" THEN {} ELSE @]
      = [docs EXCEPT ![i] = d]
  BY DEF Keeps, Document
<1>3. DOMAIN docs = DOMAIN checkpoints
  BY DEF Keeps
<1>4. \A id \in DOMAIN checkpoints : Whole([docs EXCEPT ![i] = d][id])
  <2> HIDE DEF d
  <2> QED  BY <1>1, <1>3
<1> QED  BY <1>2, <1>4 DEF Supersede

LEMMA StoreLineage ==
    ASSUME LInv, NEW g \in Gateways, storePortableCheckpoint(g)
    PROVE  /\ SameVersion /\ UNCHANGED <<events, aged, job>> /\ PointersApart'
           /\ aged = {} =>
                /\ \A id \in DOMAIN checkpoints' : Whole(checkpoints'[id])
                /\ Blocked => Blocked'
<1> DEFINE r == job[g]
           complete == Complete(r)
           docs == Loaded(r, complete)
           id == CheckpointId(r)
<1>1. TypeOK /\ PointersApart
  BY DEF LInv, IInv
<1>2. /\ r.stage = "answered" /\ Fenced(r) /\ ValidSource(r)
      /\ UNCHANGED <<events, unresolved, aged, context, job>>
  BY DEF storePortableCheckpoint
<1>3. r # NoJob /\ r \in RequestType
  <2>1. r # NoJob
    BY <1>2 DEF NoJob
  <2> QED  BY <1>1, <2>1, RequestsTyped
<1>4. Keeps(docs) /\ (docs = checkpoints \/ docs = AfterLoad(checkpoints))
  BY <1>1, KeepsNow, KeepsLoad DEF Loaded
<1>5. aged = {} => \A i \in DOMAIN checkpoints : Whole(docs[i])
  BY <1>1, <1>4, WholeKept DEF LInv, DocsWhole
<1>6. conversation \in ConversationType /\ Restored \in {conversation.active, None}
  BY <1>1, RestoredPointer DEF TypeOK
<1>7. Committed' = Committed /\ Len(events') = Len(events) /\ Len(events) \in Nat
  BY <1>1, <1>2, EventsTyped DEF Committed
<1>8. CASE id \in DOMAIN checkpoints
  <2>1. /\ checkpoints' = docs
        /\ conversation' = [conversation EXCEPT !.active = Restored]
    BY <1>8 DEF storePortableCheckpoint
  <2>2. /\ conversation'.active = Restored
        /\ conversation'.candidate = conversation.candidate /\ SameVersion
    BY <1>6, <2>1 DEF ConversationType, SameVersion
  <2>3. PointersApart'
    BY <1>1, <1>6, <2>2 DEF PointersApart
  <2>4. DOMAIN checkpoints' = DOMAIN checkpoints
    BY <1>4, <2>1 DEF Keeps
  <2>5. ASSUME aged = {}, Blocked  PROVE Blocked'
    <3>1. Restored # None =>
            conversation'.active = conversation.active /\ SameUse(conversation.active)
      <4>1. Restored # None => Restored = conversation.active /\ Restored \in DOMAIN checkpoints
        BY RestoredLive DEF Live
      <4> HIDE DEF docs
      <4> QED  BY <1>1, <1>4, <2>1, <2>2, <2>4, <4>1, LoadSpares DEF SameUse
    <3>2. Staged # None =>
            conversation'.candidate = conversation.candidate /\ SameUse(conversation.candidate)
      <4>1. Staged # None => Staged = conversation.candidate /\ Staged \in DOMAIN checkpoints
        BY RestoredLive DEF Live
      <4> HIDE DEF docs
      <4> QED  BY <1>1, <1>4, <2>1, <2>2, <2>4, <4>1, LoadSpares DEF SameUse
    <3> QED  BY <1>1, <1>2, <1>7, <2>2, <2>5, <3>1, <3>2, BlockedStays
  <2> HIDE DEF docs
  <2> QED  BY <1>2, <1>5, <2>1, <2>2, <2>3, <2>4, <2>5
<1>9. CASE id \notin DOMAIN checkpoints
  <2> DEFINE closed == IF complete THEN Supersede(docs, conversation.active, "active")
                                   ELSE docs
             old == Supersede(closed, conversation.candidate, "candidate")
             native == IF UnsupportedLineage(complete) THEN {} ELSE r.native
             new == [status |-> IF complete THEN "active" ELSE "candidate",
                     epoch |-> r.epoch, revision |-> r.revision,
                     generation |-> r.generation, through |-> r.through,
                     slice |-> r.slice, covers |-> r.covers, native |-> native]
  <2>1. /\ checkpoints' = [i \in DOMAIN old \cup {id} |-> IF i = id THEN new ELSE old[i]]
        /\ conversation' = IF complete
             THEN [conversation EXCEPT !.active = id, !.candidate = None]
             ELSE [conversation EXCEPT !.candidate = id]
    BY <1>9 DEF storePortableCheckpoint, Stored
  <2>2. Keeps(closed) /\ Keeps(old)
    BY <1>1, <1>4, KeepsSupersede
  <2>3. aged = {} => \A i \in DOMAIN checkpoints : Whole(old[i])
    <3>1. aged = {} => \A i \in DOMAIN checkpoints : Whole(closed[i])
      <4> HIDE DEF docs
      <4> QED  BY <1>1, <1>4, <1>5, WholeSuperseded
    <3> HIDE DEF closed
    <3> QED  BY <1>1, <2>2, <3>1, WholeSuperseded
  <2>4. id \in Ids /\ id # None
    <3>1. id \in Ids
      BY <1>3 DEF RequestType, CheckpointId, Ids
    <3> QED  BY <3>1, NoneAssumption
  <2>5. /\ SameVersion
        /\ conversation'.active = IF complete THEN id ELSE conversation.active
        /\ conversation'.candidate = IF complete THEN None ELSE id
    <3> HIDE DEF complete, id
    <3> QED  BY <1>6, <2>1 DEF ConversationType, SameVersion
  <2>6. PointersApart'
    <3>1. conversation.active \in DOMAIN checkpoints \cup {None}
      BY <1>1 DEF TypeOK
    <3> HIDE DEF complete, id
    <3> QED  BY <1>9, <2>4, <2>5, <3>1 DEF PointersApart
  <2>7. /\ DOMAIN checkpoints' = DOMAIN checkpoints \cup {id}
        /\ checkpoints'[id] = new
        /\ \A i \in DOMAIN checkpoints : checkpoints'[i] = old[i]
    <3> HIDE DEF old, new, id
    <3> QED  BY <1>9, <2>1, <2>2 DEF Keeps
  <2>8. Blocked => UnsupportedLineage(complete)
    BY RestoredLive DEF Blocked, UnsupportedLineage
  <2>9. ASSUME aged = {}  PROVE Whole(new)
    <3>1. CASE native = {}
      BY <3>1 DEF Whole
    <3>2. CASE native # {}
      <4>1. native = r.native /\ ~Blocked
        BY <2>8, <3>2
      <4>2. g \in NativeGateways /\ r.native = r.previousNative \cup r.source
        BY <1>3, <3>2, <4>1 DEF LInv, RequestsKnown, RequestKnown
      <4>3. Lineal(r)
        BY <1>2, <1>3, <2>9, <4>1, <4>2 DEF LInv, LineagesKnown, LineageKnown
      <4>4. r.covers \subseteq native
        BY <4>1, <4>2, <4>3 DEF Lineal
      <4> HIDE DEF native
      <4> QED  BY <4>4 DEF Whole
    <3> QED  BY <3>1, <3>2
  <2>10. ASSUME aged = {}, Blocked  PROVE Blocked'
    <3>1. /\ new.slice = {o \in Committed : o <= new.through}
          /\ new.through <= Len(events) /\ new.epoch = conversation.epoch
          /\ new.revision = conversation.revision /\ new.generation = conversation.generation
      BY <1>2 DEF Fenced, ValidSource, Slice
    <3>2. conversation.revision <= conversation.revision
      BY <1>6 DEF ConversationType
    <3>3. new.native = {}
      BY <2>8, <2>10
    <3>4. new.status = IF complete THEN "active" ELSE "candidate"
      OBVIOUS
    <3> HIDE DEF new, id, complete, old
    <3>5. CASE complete
      <4>1. Restored' = id
        BY <1>2, <1>7, <2>5, <2>7, <2>10, <3>1, <3>2, <3>4, <3>5, RestoredNext DEF SameVersion
      <4> QED  BY <2>4, <2>7, <3>3, <4>1 DEF Blocked
    <3>6. CASE ~complete
      <4>1. Staged' = id
        BY <1>2, <1>7, <2>5, <2>7, <2>10, <3>1, <3>2, <3>4, <3>6, StagedNext DEF SameVersion
      <4> QED  BY <2>4, <4>1 DEF Blocked
    <3> QED  BY <3>5, <3>6
  <2> HIDE DEF old, new, id, complete, docs, native
  <2> QED  BY <1>2, <2>3, <2>5, <2>6, <2>7, <2>9, <2>10
<1> QED  BY <1>8, <1>9

-----------------------------------------------------------------------------
(* Asking for a checkpoint. *)

(* What a request passes on of the checkpoint it extends. *)
LEMMA RequestLineal ==
    ASSUME LInv, aged = {}, NEW g \in NativeGateways, NEW staged, NEW base,
           staged = Staged, base = IF staged = None THEN Restored ELSE staged,
           Request(g, base, staged # None) # NoJob
    PROVE  Lineal(Request(g, base, staged # None)) \/ Blocked
<1> DEFINE r == Request(g, base, staged # None)
<1>1. PICK source :
        /\ r.covers = source \cup (IF base = None THEN {} ELSE checkpoints[base].covers)
        /\ r.source = source
        /\ r.previousNative = IF staged # None \/ base = None \/ g \notin NativeGateways
                              THEN {} ELSE checkpoints[base].native
  BY DEF Request
<1> HIDE DEF r
<1>2. CASE staged # None
  BY <1>2 DEF Blocked
<1>3. CASE staged = None /\ base = None
  BY <1>1, <1>3 DEF Lineal, r
<1>4. CASE staged = None /\ base # None
  <2>1. base = Restored /\ base \in DOMAIN checkpoints
    BY <1>4, RestoredLive DEF Live
  <2>2. CASE checkpoints[base].native = {}
    BY <1>4, <2>1, <2>2 DEF Blocked
  <2>3. CASE checkpoints[base].native # {}
    <3>1. checkpoints[base].covers \subseteq checkpoints[base].native
      BY <2>1, <2>3 DEF LInv, DocsWhole, Whole
    <3> QED  BY <1>1, <1>4, <3>1 DEF Lineal, r
  <2> QED  BY <2>2, <2>3
<1> QED  BY <1>2, <1>3, <1>4

LEMMA RequestNow ==
    ASSUME NEW g, NEW base, NEW staged, Request(g, base, staged) # NoJob
    PROVE  /\ Request(g, base, staged).epoch = conversation.epoch
           /\ Request(g, base, staged).revision = conversation.revision
           /\ Request(g, base, staged).generation = conversation.generation
           /\ Request(g, base, staged).native = {}
BY DEF Request

LEMMA NextLineage ==
    ASSUME LInv, NEW g \in Gateways, nextPortableCheckpoint(g)
    PROVE  /\ SameVersion /\ UNCHANGED <<events, aged>> /\ PointersApart'
           /\ aged = {} =>
                /\ \A id \in DOMAIN checkpoints' : Whole(checkpoints'[id])
                /\ Blocked => Blocked'
           /\ \A h \in Gateways \ {g} : job'[h] = job[h]
           /\ job'[g] # NoJob =>
                /\ Fenced(job'[g]) /\ job'[g].native = {}
                /\ aged = {} /\ g \in NativeGateways => Lineal(job'[g]) \/ Blocked
<1> DEFINE staged == IF g \in NativeGateways THEN Staged ELSE None
           base == IF staged = None THEN Restored ELSE staged
           r == Request(g, base, staged # None)
           docs == IF g \in NativeGateways THEN AfterStaged(AfterLoad(checkpoints))
                                           ELSE AfterLoad(checkpoints)
<1>1. TypeOK /\ PointersApart
  BY DEF LInv, IInv
<1>2. /\ job' = [job EXCEPT ![g] = r] /\ checkpoints' = docs
      /\ conversation' = [conversation EXCEPT
           !.active = Restored,
           !.candidate = IF g \in NativeGateways THEN staged ELSE conversation.candidate]
      /\ UNCHANGED <<events, unresolved, aged, context>>
  BY DEF nextPortableCheckpoint
<1>3. /\ conversation \in ConversationType /\ Restored \in {conversation.active, None}
      /\ Staged \in {conversation.candidate, None}
  BY <1>1, RestoredPointer DEF TypeOK
<1>4. /\ SameVersion /\ conversation'.active = Restored
      /\ conversation'.candidate \in {conversation.candidate, None}
      /\ Staged # None => conversation'.candidate = conversation.candidate
  BY <1>2, <1>3 DEF ConversationType, SameVersion
<1>5. PointersApart'
  BY <1>1, <1>3, <1>4 DEF PointersApart
<1>6. DOMAIN checkpoints' = DOMAIN checkpoints
  BY <1>1, <1>2, LoadSpares
<1>7. aged = {} => \A id \in DOMAIN checkpoints' : Whole(checkpoints'[id])
  <2>1. aged = {} => DocsWhole
    BY DEF LInv
  <2> QED  BY <1>1, <1>2, <1>6, <2>1, WholeKept
<1>8. ASSUME aged = {}, Blocked  PROVE Blocked'
  <2>1. /\ Restored # None => Restored = conversation.active /\ Restored \in DOMAIN checkpoints
        /\ Staged # None => Staged = conversation.candidate /\ Staged \in DOMAIN checkpoints
    BY RestoredLive DEF Live
  <2>2. Restored # None =>
          conversation'.active = conversation.active /\ SameUse(conversation.active)
    BY <1>1, <1>2, <1>4, <1>6, <2>1, LoadSpares DEF SameUse
  <2>3. Staged # None =>
          conversation'.candidate = conversation.candidate /\ SameUse(conversation.candidate)
    BY <1>1, <1>2, <1>4, <1>6, <2>1, LoadSpares DEF SameUse
  <2>4. Committed' = Committed /\ Len(events') = Len(events) /\ Len(events) \in Nat
    BY <1>1, <1>2, EventsTyped DEF Committed
  <2> QED  BY <1>1, <1>2, <1>4, <1>8, <2>2, <2>3, <2>4, BlockedStays
<1>9. job'[g] = r /\ \A h \in Gateways \ {g} : job'[h] = job[h]
  <2>1. job \in [Gateways -> RequestType \cup {NoJob}]
    BY <1>1 DEF TypeOK
  <2> HIDE DEF r
  <2> QED  BY <1>2, <2>1
<1>10. ASSUME r # NoJob
       PROVE  /\ Fenced(r) /\ r.native = {}
              /\ aged = {} /\ g \in NativeGateways => Lineal(r) \/ Blocked
  <2>1. Fenced(r) /\ r.native = {}
    <3> HIDE DEF base, staged
    <3> QED  BY <1>10, RequestNow DEF Fenced
  <2>2. ASSUME aged = {}, g \in NativeGateways  PROVE Lineal(r) \/ Blocked
    <3>1. staged = Staged /\ base = IF staged = None THEN Restored ELSE staged
      BY <2>2
    <3> HIDE DEF base, staged
    <3> QED  BY <1>10, <2>2, <3>1, RequestLineal
  <2> QED  BY <2>1, <2>2
<1> HIDE DEF r, docs
<1> QED  BY <1>2, <1>4, <1>5, <1>7, <1>8, <1>9, <1>10

-----------------------------------------------------------------------------
(* The other steps, seen from documents, pointers and requests. *)

LEMMA MovedDocs ==
    ASSUME LInv, \/ ingestMessage \/ claimLoop \/ appendInternalConversationEvent \/ OwnerStep
                 \/ \E o \in DOMAIN events : commitCanonicalAssistantDelivery(o),
           aged' = {}
    PROVE  \A id \in DOMAIN checkpoints' : Whole(checkpoints'[id])
<1>1. TypeOK /\ PointersApart
  BY DEF LInv, IInv
<1>2. CASE deleteGuildConversationPrivacyData
  BY <1>2 DEF deleteGuildConversationPrivacyData, EmptyDoc
<1>3. CASE ~deleteGuildConversationPrivacyData
  <2>1. aged = {}
    BY <1>1, <1>3, VersionSteps DEF ingestMessage, claimLoop, appendInternalConversationEvent,
       OwnerStep, setGuildRouting, resetAssistantConversation, commitCanonicalAssistantDelivery
  <2>2. DocsWhole
    BY DEF LInv
  <2>3. CASE UNCHANGED checkpoints
    BY <2>1, <2>2, <2>3 DEF DocsWhole
  <2>4. CASE claimLoop
    <3>1. checkpoints' = AfterLoad(checkpoints)
      BY <2>4 DEF claimLoop
    <3> QED  BY <1>1, <2>1, <2>2, <3>1, WholeKept, LoadSpares
  <2>5. CASE resetAssistantConversation
    <3>1. /\ DOMAIN checkpoints' = DOMAIN checkpoints
          /\ \A id \in DOMAIN checkpoints : checkpoints'[id].native = {}
      BY <1>1, <2>5 DEF resetAssistantConversation, TypeOK, Document
    <3> QED  BY <3>1 DEF Whole
  <2> QED  BY <1>3, <2>3, <2>4, <2>5 DEF ingestMessage, appendInternalConversationEvent,
       OwnerStep, setGuildRouting, commitCanonicalAssistantDelivery
<1> QED  BY <1>2, <1>3

LEMMA InvalidationLineage ==
    ASSUME LInv, invalidateNativeCheckpoint
    PROVE  /\ SameVersion /\ UNCHANGED <<events, aged, job>> /\ PointersApart'
           /\ aged = {} =>
                /\ \A id \in DOMAIN checkpoints' : Whole(checkpoints'[id])
                /\ Blocked => Blocked'
<1> DEFINE new(id) == [checkpoints[id] EXCEPT !.native = {}]
<1>1. TypeOK /\ PointersApart
  BY DEF LInv, IInv
<1>2. /\ UNCHANGED <<conversation, events, unresolved, aged, job>>
      /\ \/ UNCHANGED checkpoints
         \/ checkpoints' = [checkpoints EXCEPT ![context.id] = new(context.id)]
  BY DEF invalidateNativeCheckpoint
<1>3. \A id \in DOMAIN checkpoints :
        /\ new(id) \in Document /\ new(id).native = {}
        /\ new(id).status = checkpoints[id].status
        /\ new(id).epoch = checkpoints[id].epoch
        /\ new(id).revision = checkpoints[id].revision
        /\ new(id).generation = checkpoints[id].generation
        /\ new(id).through = checkpoints[id].through
        /\ new(id).slice = checkpoints[id].slice
  BY <1>1 DEF TypeOK, Document
<1> HIDE DEF new
<1>4. \A id \in DOMAIN checkpoints : SameUse(id)
  BY <1>2, <1>3 DEF SameUse
<1>5. SameVersion /\ PointersApart'
  BY <1>1, <1>2 DEF SameVersion, PointersApart
<1>6. aged = {} => \A id \in DOMAIN checkpoints' : Whole(checkpoints'[id])
  BY <1>2, <1>3 DEF LInv, DocsWhole, Whole
<1>7. ASSUME aged = {}, Blocked  PROVE Blocked'
  <2>1. /\ Restored # None => Restored = conversation.active /\ Restored \in DOMAIN checkpoints
        /\ Staged # None => Staged = conversation.candidate /\ Staged \in DOMAIN checkpoints
    BY RestoredLive DEF Live
  <2>2. Committed' = Committed /\ Len(events') = Len(events) /\ Len(events) \in Nat
    BY <1>1, <1>2, EventsTyped DEF Committed
  <2> QED  BY <1>1, <1>2, <1>4, <1>5, <1>7, <2>1, <2>2, BlockedStays
<1> QED  BY <1>2, <1>5, <1>6, <1>7

-----------------------------------------------------------------------------
(* Every step. *)

WholeNext == \A id \in DOMAIN checkpoints' : Whole(checkpoints'[id])

Stood ==
    /\ SameVersion /\ aged \subseteq aged' /\ PointersApart'
    /\ aged' = {} => WholeNext /\ (Blocked => Blocked')

Moved ==
    /\ NewVersion /\ UNCHANGED job /\ PointersApart'
    /\ aged' = {} => WholeNext

(* The request goes on, answered or not. *)
Continues(g) ==
    /\ job[g] # NoJob
    /\ job'[g].epoch = job[g].epoch
    /\ job'[g].revision = job[g].revision
    /\ job'[g].generation = job[g].generation
    /\ job'[g].covers = job[g].covers
    /\ job'[g].source = job[g].source
    /\ job'[g].previousNative = job[g].previousNative
    /\ \/ job'[g].native = job[g].native
       \/ job'[g].native = {}
       \/ /\ g \in NativeGateways
          /\ job'[g].native = job[g].previousNative \cup job[g].source

Asked(g) ==
    /\ SameVersion /\ Fenced(job'[g]) /\ job'[g].native = {}
    /\ aged = {} /\ g \in NativeGateways => Lineal(job'[g]) \/ Blocked

RequestsStep == \A g \in Gateways : job'[g] = NoJob \/ Continues(g) \/ Asked(g)

LEMMA SameRequests ==
    ASSUME UNCHANGED job
    PROVE  RequestsStep
BY DEF RequestsStep, Continues

LEMMA AnswerRequests ==
    ASSUME TypeOK, NEW g \in Gateways, portableCheckpoint(g) \/ CoordinatorEnds(g)
    PROVE  RequestsStep
<1>1. job \in [Gateways -> RequestType \cup {NoJob}]
  BY DEF TypeOK
<1>2. CASE CoordinatorEnds(g)
  <2>1. job' = [job EXCEPT ![g] = NoJob]
    BY <1>2 DEF CoordinatorEnds
  <2>2. job'[g] = NoJob /\ \A h \in Gateways \ {g} : job'[h] = job[h]
    BY <1>1, <2>1
  <2> QED  BY <2>2 DEF RequestsStep, Continues
<1>3. CASE portableCheckpoint(g)
  <2>1. job[g].stage = "sent"
    BY <1>3 DEF portableCheckpoint
  <2>2. job[g] # NoJob
    BY ONLY <2>1 DEF NoJob
  <2>3. job[g] \in RequestType
    BY <1>1, <2>2
  <2>4. PICK artifact \in {{}} \cup (IF g \in NativeGateways
                                     THEN {job[g].previousNative \cup job[g].source}
                                     ELSE {}) :
          job' = [job EXCEPT ![g] = [job[g] EXCEPT !.stage = "answered",
                                                   !.native = artifact]]
    BY <1>3 DEF portableCheckpoint
  <2> DEFINE new == [job[g] EXCEPT !.stage = "answered", !.native = artifact]
  <2>5. /\ new.epoch = job[g].epoch /\ new.revision = job[g].revision
        /\ new.generation = job[g].generation /\ new.covers = job[g].covers
        /\ new.source = job[g].source /\ new.previousNative = job[g].previousNative
        /\ new.native = artifact
    BY <2>3 DEF RequestType
  <2>6. job' = [job EXCEPT ![g] = new]
    BY <2>4
  <2> HIDE DEF new
  <2>7. job'[g] = new /\ \A h \in Gateways \ {g} : job'[h] = job[h]
    BY <1>1, <2>6
  <2>8. Continues(g)
    BY <2>2, <2>4, <2>5, <2>7 DEF Continues
  <2> QED  BY <2>7, <2>8 DEF RequestsStep, Continues
<1> QED  BY <1>2, <1>3

LEMMA LineageStep ==
    ASSUME LInv, [Next]_checkpointVars
    PROVE  (Stood \/ Moved) /\ RequestsStep
<1>1. TypeOK /\ PointersApart /\ DocsWhole
  BY DEF LInv, IInv
<1>2. CASE \/ ingestMessage \/ claimLoop \/ appendInternalConversationEvent \/ OwnerStep
           \/ \E o \in DOMAIN events : commitCanonicalAssistantDelivery(o)
  <2>1. NewVersion /\ PointersKept /\ UNCHANGED job
    BY <1>1, <1>2, VersionSteps
  <2>2. PointersApart'
    BY <1>1, <2>1 DEF PointersApart, PointersKept
  <2>3. aged' = {} => WholeNext
    BY <1>2, MovedDocs DEF WholeNext
  <2> QED  BY <2>1, <2>2, <2>3, SameRequests DEF Moved
<1>3. CASE \/ enqueueReply \/ completeLoop \/ OldDeliveryResolved \/ UNCHANGED checkpointVars
           \/ \E o \in DOMAIN events : beginReplyDelivery(o) \/ acknowledgeReply_failed(o)
           \/ \E g \in Gateways : portableCheckpoint(g) \/ CoordinatorEnds(g)
           \/ \E id \in DOMAIN checkpoints : RetentionEnds(id)
  <2>1. /\ SameVersion /\ UNCHANGED checkpoints
        /\ conversation'.active = conversation.active
        /\ conversation'.candidate = conversation.candidate
        /\ aged \subseteq aged'
        /\ Committed' = Committed /\ Len(events) <= Len(events')
    BY <1>1, <1>3, QuietSteps
  <2>2. PointersApart'
    BY <1>1, <2>1 DEF PointersApart
  <2>3. ASSUME aged' = {}  PROVE WholeNext /\ (Blocked => Blocked')
    <3>1. aged = {}
      BY <2>1, <2>3
    <3>2. WholeNext
      BY <1>1, <2>1, <3>1 DEF DocsWhole, WholeNext
    <3>3. ASSUME Blocked  PROVE Blocked'
      <4>1. \A id \in DOMAIN checkpoints : SameUse(id)
        BY <2>1 DEF SameUse
      <4>2. /\ Restored # None =>
                 Restored = conversation.active /\ Restored \in DOMAIN checkpoints
            /\ Staged # None =>
                 Staged = conversation.candidate /\ Staged \in DOMAIN checkpoints
        BY RestoredLive DEF Live
      <4>3. Len(events') \in Nat
        <5>1. IInv'
          BY StepInv DEF LInv
        <5>2. TypeOK'
          BY <5>1 DEF IInv
        <5>3. events' \in Seq(Event)
          BY <5>2 DEF TypeOK
        <5> QED  BY <5>3, LenProperties
      <4> QED  BY <1>1, <2>1, <2>3, <3>3, <4>1, <4>2, <4>3, BlockedStays
    <3> QED  BY <3>2, <3>3
  <2>4. RequestsStep
    <3>1. CASE \E g \in Gateways : portableCheckpoint(g) \/ CoordinatorEnds(g)
      BY <1>1, <3>1, AnswerRequests
    <3>2. CASE \E id \in DOMAIN checkpoints : RetentionEnds(id)
      <4>1. \A g \in Gateways : job'[g] \in {NoJob, job[g]}
        BY <3>2 DEF RetentionEnds
      <4> QED  BY <4>1 DEF RequestsStep, Continues
    <3>3. CASE UNCHANGED job
      BY <3>3, SameRequests
    <3> QED  BY <1>3, <3>1, <3>2, <3>3
          DEF enqueueReply, completeLoop, OldDeliveryResolved, checkpointVars,
              beginReplyDelivery, acknowledgeReply_failed
  <2> QED  BY <2>1, <2>2, <2>3, <2>4 DEF Stood
<1>4. CASE expirePortableCheckpoints
  <2>1. aged # {} /\ aged' = aged /\ UNCHANGED job
    BY <1>4 DEF expirePortableCheckpoints
  <2>2. PICK due : conversation' = [conversation EXCEPT
                      !.active = IF @ \in due THEN None ELSE @,
                      !.candidate = IF @ \in due THEN None ELSE @]
    BY <1>4 DEF expirePortableCheckpoints
  <2>3. SameVersion /\ PointersKept
    BY <1>1, <2>2 DEF TypeOK, ConversationType, SameVersion, PointersKept
  <2>4. PointersApart'
    BY <1>1, <2>3 DEF PointersApart, PointersKept
  <2> QED  BY <2>1, <2>3, <2>4, SameRequests DEF Stood
<1>5. CASE invalidateNativeCheckpoint
  <2>1. Stood /\ UNCHANGED job
    BY <1>5, InvalidationLineage DEF Stood, WholeNext
  <2> QED  BY <2>1, SameRequests
<1>6. ASSUME NEW g \in Gateways, storePortableCheckpoint(g)
      PROVE  Stood /\ RequestsStep
  <2>1. Stood /\ UNCHANGED job
    BY <1>6, StoreLineage DEF Stood, WholeNext
  <2> QED  BY <2>1, SameRequests
<1>7. ASSUME NEW g \in Gateways, nextPortableCheckpoint(g)
      PROVE  Stood /\ RequestsStep
  <2>1. Stood
    BY <1>7, NextLineage DEF Stood, WholeNext
  <2>2. /\ SameVersion
        /\ \A h \in Gateways \ {g} : job'[h] = job[h]
        /\ job'[g] # NoJob => Asked(g)
    BY <1>7, NextLineage DEF Asked
  <2>3. \A h \in Gateways \ {g} : job'[h] = NoJob \/ Continues(h)
    BY <2>2 DEF Continues
  <2> QED  BY <2>1, <2>2, <2>3 DEF RequestsStep
<1>8. CASE TurnStep
  BY <1>2, <1>3, <1>5, <1>8 DEF TurnStep
<1>9. ASSUME NEW g \in Gateways, CoordinatorStep(g) \/ CoordinatorEnds(g)
      PROVE  (Stood \/ Moved) /\ RequestsStep
  BY <1>3, <1>6, <1>7, <1>9 DEF CoordinatorStep
<1> QED  BY <1>2, <1>3, <1>4, <1>8, <1>9 DEF Next

LEMMA LInvStays == LInv /\ [Next]_checkpointVars => LInv'
<1> SUFFICES ASSUME LInv, [Next]_checkpointVars  PROVE LInv'
  OBVIOUS
<1>1. IInv /\ IInv'
  BY StepInv DEF LInv
<1>2. /\ (Stood \/ Moved) /\ RequestsStep
  BY LineageStep
<1>3. /\ conversation.epoch \in Nat /\ conversation.revision \in Nat
      /\ conversation.generation \in Nat
  BY <1>1 DEF IInv, TypeOK, ConversationType
<1>4. \A g \in Gateways : job[g] # NoJob =>
        job[g].epoch \in Nat /\ job[g].revision \in Nat /\ job[g].generation \in Nat
  BY <1>1, RequestsTyped DEF IInv, RequestType
<1>5. PointersApart' /\ DocsWhole'
  BY <1>2 DEF Stood, Moved, WholeNext, DocsWhole, Whole
<1>6. ASSUME NEW g \in Gateways, Continues(g)
      PROVE  RequestKnown(g)' /\ (Fenced(job[g])' => SameVersion)
  <2>1. job[g] # NoJob /\ RequestKnown(g)
    BY <1>6 DEF Continues, LInv, RequestsKnown
  <2>2. /\ job'[g].epoch = job[g].epoch /\ job'[g].revision = job[g].revision
        /\ job'[g].generation = job[g].generation
    BY <1>6 DEF Continues
  <2>3. Past(job[g])'
    BY <1>2, <1>3, <1>4, <2>1, <2>2 DEF Stood, Moved, SameVersion, NewVersion,
                                         RequestKnown, Past
  <2>4. /\ job'[g].native \in {{}, job'[g].previousNative \cup job'[g].source}
        /\ g \notin NativeGateways => job'[g].native = {}
    BY <1>6, <2>1 DEF Continues, RequestKnown
  <2>5. Fenced(job[g])' => SameVersion
    BY <1>2, <1>3, <1>4, <2>1, <2>2 DEF Stood, Moved, SameVersion, NewVersion,
                                         RequestKnown, Past, Fenced
  <2> QED  BY <2>3, <2>4, <2>5 DEF RequestKnown
<1>7. ASSUME NEW g \in Gateways, Asked(g)
      PROVE  RequestKnown(g)'
  BY <1>3, <1>7 DEF Asked, SameVersion, Fenced, RequestKnown, Past
<1>8. RequestsKnown'
  BY <1>2, <1>6, <1>7 DEF RequestsStep, RequestsKnown
<1>9. ASSUME NEW g \in NativeGateways, aged' = {}, job'[g] # NoJob, Fenced(job[g])'
      PROVE  Lineal(job[g])' \/ Blocked'
  <2>1. g \in Gateways
    BY CheckpointAssumption
  <2>2. SameVersion
    BY <1>2, <1>6, <1>9, <2>1 DEF RequestsStep, Asked
  <2>3. Stood
    BY <1>2, <1>3, <2>2 DEF Moved, NewVersion, SameVersion
  <2>4. aged = {} /\ (Blocked => Blocked')
    BY <1>9, <2>3 DEF Stood
  <2>5. CASE Continues(g)
    <3>1. Fenced(job[g]) /\ job[g] # NoJob
      BY <1>9, <2>2, <2>5 DEF Continues, Fenced, SameVersion
    <3>2. Lineal(job[g]) \/ Blocked
      BY <2>4, <3>1 DEF LInv, LineagesKnown, LineageKnown
    <3>3. Lineal(job[g]) => Lineal(job[g])'
      BY <2>5 DEF Continues, Lineal
    <3> QED  BY <2>4, <3>2, <3>3
  <2>6. CASE Asked(g)
    <3>1. Lineal(job'[g]) \/ Blocked
      BY <2>4, <2>6 DEF Asked
    <3> QED  BY <2>4, <3>1 DEF Lineal
  <2> QED  BY <1>2, <1>9, <2>1, <2>5, <2>6 DEF RequestsStep
<1>10. LineagesKnown'
  BY <1>9 DEF LineagesKnown, LineageKnown
<1> QED  BY <1>1, <1>5, <1>8, <1>10 DEF LInv

LEMMA LInvInit == Init => LInv
<1> SUFFICES ASSUME Init  PROVE LInv
  OBVIOUS
<1>1. IInv
  BY InitInv
<1>2. /\ conversation.candidate = None /\ DOMAIN checkpoints = {}
      /\ \A g \in Gateways : job[g] = NoJob
  BY DEF Init, EmptyDoc
<1>3. NativeGateways \subseteq Gateways
  BY CheckpointAssumption
<1> QED  BY <1>1, <1>2, <1>3 DEF LInv, PointersApart, RequestsKnown, DocsWhole, LineagesKnown

(* Whatever was staged, superseded, turned down or raced while Pi worked: until a
   checkpoint reaches its retention, the artifact of the one that is restored has
   seen every visible message up to its end (discord.ts, storePortableCheckpoint and
   the lineage it checks there). *)
THEOREM NativeLineageIsWholeHolds == Spec => []NativeLineageIsWhole
<1>1. LInv => NativeLineageIsWhole
  <2> SUFFICES ASSUME LInv, aged = {}, Restored # None,
                      checkpoints[Restored].native # {}
               PROVE  {o \in Visible : o <= Through(Restored)}
                        \subseteq checkpoints[Restored].native
    BY DEF NativeLineageIsWhole
  <2>1. Live(Restored)
    BY RestoredLive
  <2>2. Whole(checkpoints[Restored])
    BY <2>1 DEF LInv, DocsWhole, Live
  <2>3. checkpoints[Restored].covers
          = {o \in Visible : o <= checkpoints[Restored].through}
    BY <2>1, LiveIsComplete DEF LInv
  <2> QED  BY <2>2, <2>3 DEF Whole, Through
<1> QED  BY <1>1, LInvInit, LInvStays, PTL DEF Spec

=============================================================================
