------------------------------ MODULE DurableTurn ------------------------------
(***************************************************************************)
(* One assistant turn of Discord from its first message to its answer: the *)
(* gateway's worker (apps/discord/src/orchestrator/channel-loop.ts), the   *)
(* durable stages it records in Convex (apps/convex/convex/discord.ts) and *)
(* the jobs it submits to Pi (apps/pi/src/discord/jobs.ts).  The worker    *)
(* plans, researches up to twice, drafts and queues a reply; after a crash *)
(* or a lost lease another claim continues from what was recorded.         *)
(*                                                                         *)
(* DiscordLoop has the windows, leases and outbox of a whole guild for any *)
(* caller; here one channel and the window of its first message meet the   *)
(* one caller the code has.  A gateway process runs a channel once at a    *)
(* time, so there is one worker.  What the models write is open; a text is *)
(* told apart by its source and by the messages it was written from.       *)
(* Time is abstract: every delay may have passed, and only what the code's *)
(* heartbeats and polls rule out costs one of MaxFaults.                   *)
(***************************************************************************)
EXTENDS DiscordState

CONSTANTS
    MaxSequence,   \* bound: human messages
    MaxFaults      \* bound: lost calls, crashes, restarts and late heartbeats

ASSUME TurnBoundsAssumption ==
    MaxSequence \in Nat \ {0} /\ MaxFaults \in Nat

Passes == 1..2
Stages == {<<"plan", 1>>} \cup ({"sol", "resume"} \X Passes)
FinalKeys == {"reply", "failure-closure"}
Keys == FinalKeys \cup {"ack"}

VARIABLES
    channel,    \* discordChannelStates, with the window of its run
    mentions,   \* messages that mention the bot
    turn,       \* discordAssistantTurns and discordResearchArtifacts of the run
    outbox,     \* discordOutbox: the run's finals, the trigger's acknowledgement
    jobs,       \* Pi's table of the run's jobs
    worker,     \* ChannelLoopOrchestrator.run and what its awaits have answered
    faults      \* faults so far

convex == <<channel, mentions, turn, outbox>>
turnVars == <<channel, mentions, turn, outbox, jobs, worker, faults>>

-----------------------------------------------------------------------------
(* Documents. *)

(* eligibleThroughSequence with nextExplicitTriggerSequence; the revision and
   the context hash are functions of the first. *)
NoContext == [through |-> 0, next |-> 0]
NoText == [source |-> "none", through |-> 0]
NoResume == [pass |-> 0, action |-> "none", text |-> NoText]
NoArtifact == [status |-> "none", input |-> 0]
NoReply == [status |-> "absent", generation |-> 0, text |-> NoText, consumes |-> 0]
NoJob == [status |-> "none", generation |-> 0]

(* stage: "suppressed" between the recorded draft and the end of the loop is
   kept apart, for such a turn is not recovered. *)
NewTurn(explicit) ==
    [stage |-> "open", explicit |-> explicit, plan |-> "none",
     artifact |-> [p \in Passes |-> NoArtifact],
     resume |-> NoResume, attempts |-> 0, eligible |-> NoContext]

(* The parts of durableTurnRecoveryPayload the worker consults after its plan. *)
NoRecovery == [pass |-> 1, research |-> "none", resume |-> NoResume,
               eligible |-> NoContext]

Idle ==
    [pc |-> "idle", stage |-> <<"plan", 1>>, generation |-> 0, explicit |-> FALSE,
     plan |-> "none", pass |-> 1, research |-> "none", resume |-> NoResume,
     newest |-> NoContext, recovered |-> NoRecovery,
     resubmitted |-> FALSE, retryable |-> FALSE]

Init ==
    /\ channel = [generation |-> 0, status |-> "idle", run |-> 0, lease |-> "none",
                  latest |-> 1, trigger |-> 1, completed |-> 0, errors |-> 0,
                  windowEnd |-> 0]
    /\ mentions \in SUBSET {1}
    /\ turn = [NewTurn(FALSE) EXCEPT !.stage = "none"]
    /\ outbox = [q \in Keys |-> NoReply]
    /\ jobs = [s \in Stages |-> NoJob]
    /\ worker = Idle
    /\ faults = 0

Open == channel.completed = 0
Fault == faults < MaxFaults /\ faults' = faults + 1

(* Channel and conversation are claimed, renewed and lost together here. *)
Fence ==
    /\ channel.run # 0
    /\ worker.generation = channel.generation
    /\ channel.lease = "live"

-----------------------------------------------------------------------------
(* Messages and the claim. *)

(* The channel is the monitored one: every human message is work. *)
IngestHuman(mention) ==
    LET n == channel.latest + 1
        running == channel.lease = "live"
    IN /\ Open
       /\ n <= MaxSequence
       /\ channel' = [channel EXCEPT
            !.latest = n, !.trigger = n,
            !.status = IF running THEN @ ELSE "idle",
            !.errors = IF running THEN @ ELSE 0]
       /\ mentions' = IF mention THEN mentions \cup {n} ELSE mentions
       /\ UNCHANGED <<turn, outbox, jobs, worker, faults>>

Claimable_released ==
    /\ worker.pc = "idle"
    /\ Open
    /\ channel.lease = "none"
    /\ channel.status # "error" \/ discordLoopErrorRetryReady(channel)

(* listRunnable offers the channel and schedule finds it not running here. *)
Claimable ==
    /\ worker.pc = "idle"
    /\ Open
    /\ channel.lease # "live"
    /\ channel.status # "error" \/ discordLoopErrorRetryReady(channel)

Recoverable == channel.run # 0 /\ turn.stage = "open"

Results == {"packet", "failed"}

durableTurnRecoveryPayload_firstArtifact(t) ==
    [pass |-> 1, research |-> t.artifact[1].status,
     resume |-> t.resume, eligible |-> t.eligible]

(* Of the artifacts, the one updated last. *)
durableTurnRecoveryPayload(t) ==
    LET pass == IF t.artifact[2].status # "none" THEN 2 ELSE 1
    IN [pass |-> pass, research |-> t.artifact[pass].status,
        resume |-> t.resume, eligible |-> t.eligible]

(* The recovered artifact is used when it has a result. *)
EnterPass(w) ==
    IF w.recovered.research \in Results
    THEN [w EXCEPT !.pc = "newest", !.research = w.recovered.research]
    ELSE [w EXCEPT !.pc = "start"]

Planned(w) ==
    CASE w.plan = "silent" -> [w EXCEPT !.pc = "silent"]
      [] w.plan = "reply" -> [w EXCEPT !.pc = "newest"]
      [] w.plan = "research" /\ w.explicit -> [w EXCEPT !.pc = "acknowledge"]
      [] w.plan = "research" /\ ~w.explicit -> EnterPass(w)

(* A recovered turn starts behind the last stage that was recorded. *)
Started(t) ==
    LET recovered == durableTurnRecoveryPayload(t)
        w == [Idle EXCEPT !.generation = channel.generation + 1,
                          !.explicit = t.explicit, !.plan = t.plan,
                          !.pass = recovered.pass, !.recovered = recovered]
    IN IF t.plan = "none" THEN [w EXCEPT !.pc = "submit"] ELSE Planned(w)

Refenced(o) ==
    IF o.status = "pending" THEN [o EXCEPT !.generation = channel.generation + 1] ELSE o

Invalidated(o) == IF o.status = "pending" THEN [o EXCEPT !.status = "failed"] ELSE o

RecoverLoop ==
    /\ Claimable
    /\ Recoverable
    /\ channel' = [channel EXCEPT !.generation = @ + 1, !.status = "running",
                                  !.lease = "live"]
    /\ outbox' = [q \in Keys |-> Refenced(outbox[q])]
    /\ worker' = Started(turn)
    /\ UNCHANGED <<mentions, turn, jobs, faults>>

(* The keys of finals and the ids of jobs carry the run id, so a new run has
   none; the acknowledgement's key names the trigger and stays. *)
StartLoop ==
    LET window == messageWindow(channel)
        explicit == \E m \in mentions : m >= window.start /\ m <= window.end
    IN /\ Claimable
       /\ ~Recoverable
       /\ channel' = [channel EXCEPT !.generation = @ + 1, !.status = "running",
                                     !.run = channel.generation + 1,
                                     !.lease = "live", !.windowEnd = window.end]
       /\ turn' = NewTurn(explicit)
       /\ outbox' = [q \in Keys |->
                        IF q = "ack" THEN Invalidated(outbox[q]) ELSE NoReply]
       /\ jobs' = [s \in Stages |-> NoJob]
       /\ worker' = Started(NewTurn(explicit))
       /\ UNCHANGED <<mentions, faults>>

claimLoop == RecoverLoop \/ StartLoop

-----------------------------------------------------------------------------
(* Calls to Convex.  A refusal is answered 409, a mutation that throws 400:
   neither may be retried; a request or an answer that is lost may. *)

(* The catch blocks of runDurable and of run; they need the claim only, and what
   fails last decides whether the loop is retried. *)
OnError(retryable) ==
    LET caught == [Idle EXCEPT !.generation = worker.generation,
                               !.explicit = worker.explicit]
    IN CASE worker.pc = "fail" -> Idle
         [] worker.pc \in {"close", "quiet"} ->
               [caught EXCEPT !.pc = "fail", !.retryable = retryable]
         [] OTHER ->
               [caught EXCEPT !.pc = IF worker.explicit THEN "close" ELSE "quiet"]

CallFails(outcomes) ==
    /\ Fault
    /\ worker' \in outcomes
    /\ UNCHANGED <<convex, jobs>>

Call(accepts, effect, next) ==
    \/ accepts /\ effect /\ worker' = next /\ UNCHANGED <<jobs, faults>>
    \/ accepts /\ effect /\ Fault /\ worker' = OnError(TRUE) /\ UNCHANGED jobs
    \/ ~accepts /\ worker' = OnError(FALSE) /\ UNCHANGED <<convex, jobs, faults>>
    \/ CallFails({OnError(retryable) : retryable \in BOOLEAN})

OnlyTurn(t) == turn' = t /\ UNCHANGED <<channel, mentions, outbox>>
OnlyReply(q, o) == outbox' = [outbox EXCEPT ![q] = o] /\ UNCHANGED <<channel, mentions, turn>>

recordFrontmanPlan ==
    /\ worker.pc = "recordPlan"
    /\ Call(Fence /\ turn.plan \in {"none", worker.plan},
            OnlyTurn([turn EXCEPT !.plan = worker.plan]),
            Planned(worker))

(* Delivered for this trigger, or the same row: a duplicate.  A row of an
   earlier run or one that failed is a conflict. *)
enqueueAcknowledgement ==
    LET o == outbox["ack"]
        delivered == o.status = "sent"
        same == o.status = "pending" /\ o.generation = worker.generation
    IN /\ worker.pc = "acknowledge"
       /\ Call(Fence /\ (o.status = "absent" \/ delivered \/ same),
               OnlyReply("ack", IF o.status # "absent" THEN o
                                ELSE [NoReply EXCEPT !.status = "pending",
                                                     !.generation = worker.generation]),
               EnterPass(worker))

ResearchInput ==
    IF worker.newest = NoContext THEN channel.windowEnd ELSE worker.newest.through

recordResearchStarted ==
    LET a == turn.artifact[worker.pass]
    IN /\ worker.pc = "start"
       /\ Call(Fence /\ (a.status = "none" \/ a.input = ResearchInput),
               OnlyTurn([turn EXCEPT !.artifact[worker.pass] =
                            IF a.status = "none"
                            THEN [status |-> "pending", input |-> ResearchInput]
                            ELSE a]),
               [worker EXCEPT !.pc = "submit", !.stage = <<"sol", worker.pass>>,
                              !.resubmitted = FALSE])

recordResearchResult ==
    LET a == turn.artifact[worker.pass]
    IN /\ worker.pc = "recordResearch"
       /\ Call(Fence /\ a.status \in {"pending", worker.research},
               OnlyTurn([turn EXCEPT !.artifact[worker.pass].status = worker.research]),
               [worker EXCEPT !.pc = "newest"])

(* Eligible are the messages before the next explicit trigger. *)
EligibleContext ==
    LET later == {m \in mentions : m > channel.windowEnd}
    IN IF later = {} THEN [through |-> channel.latest, next |-> 0]
       ELSE LET next == CHOOSE m \in later : \A n \in later : m <= n
            IN [through |-> next - 1, next |-> next]

(* What the worker does with a draft, made now or recovered. *)
Decided(w, resume) ==
    CASE resume.action = "recheck" ->
            [w EXCEPT !.pc = "start", !.pass = 2, !.resume = resume]
      [] resume.action = "suppress" ->
            [w EXCEPT !.pc = "suppress", !.resume = resume]
      [] resume.action = "send" ->
            [w EXCEPT !.pc = "queue", !.resume = resume]

(* claim.recovery is compared as it was when the run was claimed. *)
RecoveredResumeIsCurrent(w) ==
    /\ w.recovered.resume.pass = w.pass
    /\ w.recovered.eligible = w.newest

CaughtUp(w) ==
    CASE w.plan = "reply" -> [w EXCEPT !.pc = "queue"]
      [] w.plan = "research" /\ RecoveredResumeIsCurrent(w) ->
            Decided(w, w.recovered.resume)
      [] OTHER ->
            [w EXCEPT !.pc = "submit", !.stage = <<"resume", w.pass>>,
                      !.resubmitted = FALSE]

NotCaughtUp_silently(retryable) ==
    IF worker.plan = "reply" THEN OnError(retryable)
    ELSE [worker EXCEPT !.pc = "abandon"]

(* After research a failure to catch up ends the turn with what was claimed:
   an ambient turn without a word, an explicit one with an apology. *)
NotCaughtUp(retryable) ==
    CASE worker.plan = "reply" -> OnError(retryable)
      [] worker.plan # "reply" /\ worker.explicit ->
            [worker EXCEPT !.pc = "apologise"]
      [] OTHER -> [worker EXCEPT !.pc = "abandon"]

newestContext ==
    /\ worker.pc = "newest"
    /\ \/ /\ Fence
          /\ OnlyTurn([turn EXCEPT !.eligible = EligibleContext])
          /\ \/ /\ worker' = CaughtUp([worker EXCEPT !.newest = EligibleContext])
                /\ UNCHANGED faults
             \/ Fault /\ worker' = NotCaughtUp(TRUE)
          /\ UNCHANGED jobs
       \/ ~Fence /\ worker' = NotCaughtUp(FALSE) /\ UNCHANGED <<convex, jobs, faults>>
       \/ CallFails({NotCaughtUp(retryable) : retryable \in BOOLEAN})

(* Only a recheck may be followed by another draft, and only once. *)
recordFrontmanResume_overwriting ==
    /\ worker.pc = "recordResume"
    /\ Call(Fence,
            OnlyTurn([turn EXCEPT !.resume = worker.resume,
                                  !.attempts = Smaller(@ + 1, 2),
                                  !.eligible = worker.newest]),
            Decided(worker, worker.resume))

recordFrontmanResume ==
    LET duplicate == turn.resume = worker.resume
        first == turn.resume = NoResume
        again == turn.resume.action = "recheck" /\ turn.attempts < 2
    IN /\ worker.pc = "recordResume"
       /\ Call(Fence /\ (duplicate \/ first \/ again),
               OnlyTurn(IF duplicate THEN turn
                        ELSE [turn EXCEPT
                                !.resume = worker.resume,
                                !.attempts = @ + 1,
                                !.eligible = worker.newest,
                                !.stage = IF worker.resume.action = "suppress"
                                          THEN "suppressed" ELSE @]),
               Decided(worker, worker.resume))

(* heartbeat writes the worker's stage over the turn's, "suppressed" too. *)
heartbeat ==
    /\ Fence
    /\ worker.pc # "idle"
    /\ turn.stage = "suppressed"
    /\ turn' = [turn EXCEPT !.stage = "open"]
    /\ UNCHANGED <<channel, mentions, outbox, jobs, worker, faults>>

FinalEnqueued ==
    \E p \in FinalKeys :
        outbox[p].status # "absent" /\ outbox[p].generation = worker.generation

EnqueueFinal(q, text, cut) ==
    LET o == outbox[q]
        new == [status |-> "pending", generation |-> worker.generation,
                text |-> text, consumes |-> cut]
    IN Call(/\ Fence
            /\ IF o.status = "absent" THEN ~FinalEnqueued
               ELSE [o EXCEPT !.status = "pending"] = new,
            OnlyReply(q, IF o.status = "absent" THEN new ELSE o),
            Idle)

(* Under one fence the turn's eligible context is the one the worker was
   answered, so the comparison of their revisions (stale_human_revision)
   refuses nothing the fence does not. *)
enqueueReply ==
    /\ worker.pc = "queue"
    /\ EnqueueFinal("reply",
                    IF worker.plan = "reply"
                    THEN [source |-> "plan", through |-> channel.windowEnd]
                    ELSE worker.resume.text,
                    worker.newest.through)

enqueueApology ==
    /\ worker.pc = "apologise"
    /\ EnqueueFinal("reply", [source |-> "apology", through |-> 0], channel.windowEnd)

enqueueClosure ==
    /\ worker.pc = "close"
    /\ EnqueueFinal("failure-closure", [source |-> "closure", through |-> 0],
                    channel.windowEnd)

-----------------------------------------------------------------------------
(* The end of a loop. *)

ClearedLoop(s) == [s EXCEPT !.run = 0, !.lease = "none"]

Consumed(through) ==
    [ClearedLoop(channel) EXCEPT
        !.status = IF channel.trigger > through THEN "catching_up" ELSE "idle",
        !.completed = Larger(@, through), !.errors = 0]

Ended(stage, through) ==
    /\ channel' = Consumed(through)
    /\ turn' = [turn EXCEPT !.stage = stage]
    /\ outbox' = [q \in Keys |-> Invalidated(outbox[q])]
    /\ UNCHANGED mentions

completeSilent ==
    /\ worker.pc = "silent"
    /\ Call(Fence /\ \A q \in Keys : outbox[q].status # "pending",
            Ended("completed", channel.windowEnd), Idle)

completeSuppressed ==
    /\ worker.pc \in {"suppress", "abandon", "quiet"}
    /\ Call(Fence,
            Ended("suppressed", IF worker.pc = "suppress" THEN worker.newest.through
                                ELSE channel.windowEnd),
            Idle)

completeError ==
    /\ worker.pc = "fail"
    /\ Call(Fence,
            /\ channel' = [ClearedLoop(channel) EXCEPT
                            !.status = "error",
                            !.errors = discordNextLoopErrorCount(@, worker.retryable)]
            /\ turn' = [turn EXCEPT !.stage = "failed"]
            /\ outbox' = [q \in Keys |-> Invalidated(outbox[q])]
            /\ UNCHANGED mentions,
            Idle)

(* OutboxDispatcher sends what the current fence owns and completes the loop
   after a final; what may go wrong in between is DiscordLoop's. *)
Deliver(q) ==
    LET o == outbox[q]
    IN /\ o.status = "pending"
       /\ channel.run # 0
       /\ o.generation = channel.generation
       /\ channel.lease = "live"
       /\ outbox' = [outbox EXCEPT ![q].status = "sent"]
       /\ IF q \in FinalKeys
          THEN /\ channel' = Consumed(Larger(channel.windowEnd, o.consumes))
               /\ turn' = [turn EXCEPT !.stage = "completed"]
          ELSE UNCHANGED <<channel, turn>>
       /\ UNCHANGED <<mentions, jobs, worker, faults>>

-----------------------------------------------------------------------------
(* Jobs of Pi. *)

(* The fingerprint hashes the whole request, which names the generation of the
   conversation, so it is that of the claim.  A job of an earlier claim runs
   on, is being cancelled, or is kept 15 minutes when it ended: it may be gone
   when its request comes again. *)
Conflicting(s) ==
    /\ jobs[s].status # "none"
    /\ jobs[s].generation # worker.generation

Running == [status |-> "running", generation |-> worker.generation]

(* Any error of a research call becomes a failure the draft is told of. *)
PiFailed(retryable) ==
    IF worker.stage[1] = "sol"
    THEN [worker EXCEPT !.pc = "recordResearch", !.research = "failed"]
    ELSE OnError(retryable)

submitJob ==
    LET s == worker.stage
        started == [jobs EXCEPT ![s] = Running]
    IN /\ worker.pc = "submit"
       /\ \/ /\ jobs' = started
             /\ worker' = [worker EXCEPT !.pc = "wait"]
             /\ UNCHANGED faults
          \/ Conflicting(s) /\ worker' = PiFailed(FALSE) /\ UNCHANGED <<jobs, faults>>
          \/ Fault /\ jobs' \in {jobs, started} /\ worker' = PiFailed(TRUE)
       /\ UNCHANGED convex

(* An explicit plan is never silent; a second draft cannot ask again; a failed
   research is not suppressed for who asked explicitly. *)
PlanResults == IF worker.explicit THEN {"reply", "research"}
               ELSE {"silent", "reply", "research"}

ResumeResults ==
    LET draft(action) == [pass |-> worker.pass, action |-> action,
                          text |-> [source |-> "resume",
                                    through |-> worker.newest.through]]
        actions == IF worker.pass = 2 THEN {"send", "suppress"}
                   ELSE {"send", "suppress", "recheck"}
    IN {IF action = "suppress" /\ worker.explicit /\ worker.research = "failed"
        THEN [draft("send") EXCEPT !.text = [source |-> "unverified", through |-> 0]]
        ELSE draft(action) : action \in actions}

JobResult ==
    LET kind == worker.stage[1]
    IN \/ /\ kind = "plan"
          /\ \E plan \in PlanResults :
                worker' = [worker EXCEPT !.pc = "recordPlan", !.plan = plan]
       \/ /\ kind = "sol"
          /\ worker' = [worker EXCEPT !.pc = "recordResearch", !.research = "packet"]
       \/ /\ kind = "resume"
          /\ \E resume \in ResumeResults :
                worker' = [worker EXCEPT !.pc = "recordResume", !.resume = resume]

(* The worker polls until its job has ended; a job that is missing is submitted
   once more, for Pi has restarted.  What becomes of a job nobody waits for is
   decided when its id returns. *)
pollJob ==
    LET s == worker.stage
        ended == [jobs EXCEPT ![s].status = "ended"]
    IN /\ worker.pc = "wait"
       /\ \/ /\ jobs[s].status = "running"
             /\ jobs' = ended
             /\ JobResult \/ \E retryable \in BOOLEAN : worker' = PiFailed(retryable)
             /\ UNCHANGED faults
          \/ /\ jobs[s].status = "none"
             /\ ~worker.resubmitted
             /\ jobs' = [jobs EXCEPT ![s] = Running]
             /\ worker' = [worker EXCEPT !.resubmitted = TRUE]
             /\ UNCHANGED faults
          \/ /\ jobs[s].status = "none"
             /\ worker.resubmitted
             /\ worker' = PiFailed(TRUE)
             /\ UNCHANGED <<jobs, faults>>
          \/ Fault /\ worker' = PiFailed(TRUE) /\ UNCHANGED jobs
       /\ UNCHANGED convex

(* The heartbeat finds the lease gone and aborts the call it runs beside. *)
AbortJob ==
    /\ worker.pc = "wait"
    /\ ~Fence
    /\ worker' = OnError(TRUE)
    /\ UNCHANGED <<convex, jobs, faults>>

PiRestarts ==
    /\ worker.pc = "wait"
    /\ Fault
    /\ jobs' = [s \in Stages |-> NoJob]
    /\ UNCHANGED <<convex, worker>>

-----------------------------------------------------------------------------
(* Faults of the gateway. *)

GatewayCrashes ==
    /\ worker.pc # "idle"
    /\ Fault
    /\ worker' = Idle
    /\ UNCHANGED <<convex, jobs>>

(* Nobody renews a lease the worker has left without a reply to deliver; else
   the heartbeats or the dispatcher's polls must have stopped for 120 s. *)
Attended ==
    \/ worker.pc # "idle" /\ worker.generation = channel.generation
    \/ \E q \in Keys : /\ outbox[q].status = "pending"
                       /\ outbox[q].generation = channel.generation

LeaseExpires ==
    /\ channel.lease = "live"
    /\ IF Attended THEN Fault ELSE UNCHANGED faults
    /\ channel' = [channel EXCEPT !.lease = "expired"]
    /\ UNCHANGED <<mentions, turn, outbox, jobs, worker>>

-----------------------------------------------------------------------------

WorkerStep ==
    \/ recordFrontmanPlan \/ enqueueAcknowledgement \/ recordResearchStarted
    \/ recordResearchResult \/ newestContext \/ recordFrontmanResume
    \/ enqueueReply \/ enqueueApology \/ enqueueClosure
    \/ completeSilent \/ completeSuppressed \/ completeError
    \/ submitJob \/ pollJob \/ AbortJob

GatewayStep == claimLoop \/ WorkerStep \/ \E q \in Keys : Deliver(q)

Next ==
    \/ \E mention \in BOOLEAN : IngestHuman(mention)
    \/ GatewayStep
    \/ heartbeat
    \/ PiRestarts
    \/ GatewayCrashes
    \/ LeaseExpires

(* The gateway goes on while it has something to do: it polls for work and for
   replies, and its worker's awaits are answered (Pi ends every job within nine
   minutes).  A lease nobody renews runs out. *)
Fairness ==
    /\ WF_turnVars(GatewayStep)
    /\ WF_turnVars(LeaseExpires /\ ~Attended)

Spec == Init /\ [][Next]_turnVars /\ Fairness

-----------------------------------------------------------------------------
(* Properties. *)

Sources == {"none", "plan", "resume", "unverified", "apology", "closure"}
Texts == [source : Sources, through : 0..MaxSequence]
Contexts == [through : 0..MaxSequence, next : 0..MaxSequence]
Resumes == [pass : 0..2, action : {"none", "send", "suppress", "recheck"}, text : Texts]
Plans == {"none", "silent", "reply", "research"}
Researches == {"none", "pending", "packet", "failed"}

Channels ==
    [generation : Nat, status : {"idle", "running", "catching_up", "error"},
     run : Nat, lease : {"none", "live", "expired"}, latest : 1..MaxSequence,
     trigger : 1..MaxSequence, completed : 0..MaxSequence, errors : Nat,
     windowEnd : 0..MaxSequence]

Artifacts == [status : Researches, input : 0..MaxSequence]

Turns ==
    [stage : {"none", "open", "suppressed", "completed", "failed"},
     explicit : BOOLEAN, plan : Plans, artifact : [Passes -> Artifacts],
     resume : Resumes, attempts : 0..2, eligible : Contexts]

Replies ==
    [status : {"absent", "pending", "sent", "failed"}, generation : Nat,
     text : Texts, consumes : 0..MaxSequence]

Jobs == [status : {"none", "running", "ended"}, generation : Nat]

Recoveries ==
    [pass : Passes, research : Researches, resume : Resumes, eligible : Contexts]

Workers ==
    [pc : {"idle", "submit", "wait", "recordPlan", "acknowledge", "start",
           "recordResearch", "newest", "recordResume", "queue", "suppress",
           "abandon", "apologise", "silent", "quiet", "close", "fail"},
     stage : Stages, generation : Nat, explicit : BOOLEAN, plan : Plans,
     pass : Passes, research : Researches, resume : Resumes, newest : Contexts,
     recovered : Recoveries, resubmitted : BOOLEAN, retryable : BOOLEAN]

(* The documents have their shapes, a lease belongs to a run, and no window or
   context reaches past the messages of the channel (discordChannelStates,
   discordAssistantTurns, discordOutbox). *)
TypeOK ==
    /\ channel \in Channels
    /\ (channel.run = 0) = (channel.lease = "none")
    /\ channel.windowEnd <= channel.latest
    /\ channel.trigger <= channel.latest
    /\ mentions \subseteq 1..channel.latest
    /\ turn \in Turns
    /\ turn.eligible.through <= channel.latest
    /\ outbox \in [Keys -> Replies]
    /\ jobs \in [Stages -> Jobs]
    /\ worker \in Workers
    /\ worker.newest.through <= channel.latest
    /\ faults \in 0..MaxFaults

(* Completed research is final: no later step of its run changes the result of
   a pass or starts a job for it again, across crashes, recoveries and
   restarts of Pi (durableTurnRecoveryPayload, recordResearchStarted). *)
CompletedResearchIsKept ==
    [][\A p \in Passes :
        turn.artifact[p].status \in Results /\ channel'.run = channel.run =>
            /\ turn'.artifact[p] = turn.artifact[p]
            /\ jobs'[<<"sol", p>>].status = "running"
                  => jobs[<<"sol", p>>].status = "running"]_turnVars

(* A turn speaks once, and a reply that is queued or visible says what its turn
   recorded as decided: the plan's reply or the last draft, or it apologises; a
   draft made after it was queued cannot replace the record (enqueueReply,
   recordFrontmanResume). *)
ReplyIsCommitted ==
    LET Speaks(q) == outbox[q].status \in {"pending", "sent"}
        text == outbox["reply"].text
    IN Speaks("reply") =>
        /\ ~Speaks("failure-closure")
        /\ \/ text.source = "plan" /\ turn.plan = "reply"
           \/ text = turn.resume.text /\ turn.resume.action = "send"
           \/ text.source = "apology"

(* The turn of an explicit trigger that is over has left an answer or a closure,
   or was suppressed by a draft that had its research; and it takes a fault for
   one to fail. *)
ExplicitTurnsAreAnswered ==
    turn.explicit =>
        /\ ~Open => \/ \E q \in FinalKeys : outbox[q].status = "sent"
                    \/ /\ turn.resume.action = "suppress"
                       /\ turn.artifact[turn.resume.pass].status = "packet"
        /\ turn.stage = "failed" => faults > 0

(* The channel is not claimed again before the next human message. *)
Parked ==
    /\ channel.status = "error"
    /\ channel.errors >= DISCORD_MAX_LOOP_ERROR_ATTEMPTS
    /\ worker.pc = "idle"

(* A turn comes to rest, whatever crashes, leases and retries it has seen: its
   message is consumed, or its channel is parked (claimLoop, listRunnable). *)
TurnComesToRest == <>[](~Open \/ Parked)
=============================================================================
