------------------------------ MODULE ThreadService ------------------------------
(***************************************************************************)
(* ThreadRuns closed with the execution service of apps/pi: the run        *)
(* registry, one RunController and ResultPublisher per run, the session    *)
(* coordinator, the executor (createPiExecutor.ts), and the HTTP calls     *)
(* between Pi and Convex.                                                  *)
(*                                                                         *)
(* Pi is one Node process: code between two awaits is one action.  Calls   *)
(* time out, their requests may still arrive later, the process may crash, *)
(* and Convex actions may die; MaxFaults bounds how often that happens.    *)
(* A deadline that passes or a lease that runs out while Pi is at work on  *)
(* the run is a fault too; otherwise time passes freely.                   *)
(***************************************************************************)
EXTENDS ThreadRuns, Sequences

CONSTANTS
    GLOBAL_CONCURRENCY,     \* runs the registry holds at a time
    CONVEX_RETRY_ATTEMPTS,  \* attempts of one request to Convex
    MaxFaults               \* bound: faults of a behaviour

ASSUME ServiceAssumption ==
    /\ GLOBAL_CONCURRENCY \in Nat \ {0}
    /\ CONVEX_RETRY_ATTEMPTS \in Nat \ {0}
    /\ MaxFaults \in Nat

VARIABLES
    pi,         \* the process: up, stopping (SIGTERM) or down
    job,        \* RunRecord and RunController of each run
    pub,        \* ResultPublisher of each run
    session,    \* hot executor session of each thread
    late,       \* batches whose attempt timed out: Convex may still get them
    faults

serviceVars == <<run, command, message, stored, archived, dispatch,
                 pi, job, pub, session, late, faults>>

(* state: gone if the process went down with the request still unanswered
   context: the runs whose messages the executor knew when it started the run
   emitted: output events so far
   executor: executing, or finishing once its terminal event is emitted *)
NoJob == [state |-> "none", closing |-> FALSE, executor |-> "idle",
          emitted |-> 0, context |-> {}]

(* queue: the operation chain, "text", "tool", "flush" or a terminal kind;
   sending: the kind of the batch in flight; flushing: it is buffered text
   that goes before the head of the queue *)
NoPublisher ==
    [seq |-> 1, queue |-> << >>, sending |-> "none", flushing |-> FALSE,
     tries |-> 0, buffered |-> FALSE, broken |-> FALSE, stopped |-> FALSE,
     terminal |-> "none"]

(* ran: the runs executed in the session; knows: those and the history it was
   built from *)
NoSession == [held |-> FALSE, knows |-> {}, ran |-> {}]

ServiceInit ==
    /\ Init
    /\ pi = "up"
    /\ job = [r \in Runs |-> NoJob]
    /\ pub = [r \in Runs |-> NoPublisher]
    /\ session = [t \in Threads |-> NoSession]
    /\ late = {}
    /\ faults = 0

Fault == faults < MaxFaults /\ faults' = faults + 1

piVars == <<pi, job, pub, session, late>>

-----------------------------------------------------------------------------
(* POST /runs: RunRegistry.reserve. *)

HasController(r) == job[r].state \in {"reserved", "running"}
Registered(r) == HasController(r) \/ job[r].state = "terminal"

Reservable(r) ==
    /\ pi = "up"
    /\ job[r].state = "none"
    /\ Cardinality({s \in Runs : HasController(s)}) < GLOBAL_CONCURRENCY
    /\ \A s \in Runs : HasController(s) => run[s].thread # run[r].thread

Reserved(r) == [job EXCEPT ![r] = [NoJob EXCEPT !.state = "reserved"]]

PostRun(r) ==
    /\ dispatch[r] = "calling" /\ job[r].state # "reserved"
    /\ IF Reservable(r)
       THEN job' = Reserved(r) /\ UNCHANGED runVars
       ELSE ExecutionAnswers(r, "refused") /\ UNCHANGED job
    /\ UNCHANGED <<pi, pub, session, late, faults>>

(* The request is lost, or the answer to it. *)
LosePostRun(r) ==
    /\ Fault
    /\ ExecutionAnswers(r, "refused")
    /\ \/ UNCHANGED job
       \/ Reservable(r) /\ job' = Reserved(r)
    /\ UNCHANGED <<pi, pub, session, late>>

(* dispatch.ts, historyBeforePrompt: the messages before the prompt. *)
historyBeforePrompt(r) ==
    {s \in RunsOf(run[r].thread) : run[s].answered < run[r].asked}

(* A session that is still held is used as it is. *)
ContextOf(r) ==
    IF session[run[r].thread].held THEN session[run[r].thread].knows
    ELSE historyBeforePrompt(r)

(* The response to POST /runs is out, and only then do RunRegistry.start and
   RunController.start run.  A lost response may never finish, and then the run
   stays reserved. *)
StartRun(r) ==
    /\ job[r].state = "reserved"
    /\ job' = [job EXCEPT ![r].state = "running", ![r].executor = "executing",
                          ![r].context = ContextOf(r)]
    /\ IF dispatch[r] = "calling" THEN ExecutionAnswers(r, "accepted")
       ELSE UNCHANGED runVars
    /\ UNCHANGED <<pi, pub, session, late, faults>>

-----------------------------------------------------------------------------
(* The executor, behind the emit callback of RunController.run.  It awaits
   each emit, so it has one operation in the chain at a time; what it emits
   once the controller is closing is dropped. *)

ExecutorOps == {"text", "tool", "completed", "error"}

Waiting(r) == \E i \in DOMAIN pub[r].queue : pub[r].queue[i] \in ExecutorOps

Emits(r, event) ==
    /\ job[r].executor = "executing"
    /\ ~job[r].closing /\ ~pub[r].broken
    /\ ~Waiting(r)
    /\ pub' = [pub EXCEPT ![r].queue = Append(pub[r].queue, event)]
    /\ UNCHANGED <<runVars, pi, session, late, faults>>

EmitOutput(r) ==
    /\ job[r].emitted < MaxSequence - 1
    /\ job' = [job EXCEPT ![r].emitted = job[r].emitted + 1]
    /\ \E event \in {"text", "tool"} : Emits(r, event)

EmitTerminal(r) ==
    /\ job' = [job EXCEPT ![r].executor = "finishing"]
    /\ \E event \in {"completed", "error"} : Emits(r, event)

(* An idle chain takes its next operation in the same turn of the event loop. *)
Taking(r) == pub[r].queue # << >> /\ pub[r].sending = "none" /\ ~pub[r].broken

(* Only a session whose run completed undisturbed is kept. *)
KeepsSession(r) == pub[r].terminal = "completed" /\ ~job[r].closing

(* The end of RunController.run: the executor has returned or thrown, after
   its terminal event, because it was aborted, or because a result was
   refused.  It does not wait for an operation of cancel or shutdown that is
   still behind a batch in flight. *)
RunReturns(r) ==
    /\ job[r].state = "running"
    /\ ~Waiting(r) /\ ~Taking(r)
    /\ job[r].executor = "finishing" \/ job[r].closing \/ pub[r].broken
    /\ LET t == run[r].thread
       IN session' = [session EXCEPT ![t] =
              IF KeepsSession(r)
              THEN [held |-> TRUE, knows |-> job[r].context \cup {r},
                    ran |-> session[t].ran \cup {r}]
              ELSE NoSession]
    /\ pub' = [pub EXCEPT ![r].stopped = TRUE]
    /\ job' = [job EXCEPT ![r].state = "terminal", ![r].executor = "idle"]
    /\ UNCHANGED <<runVars, pi, late, faults>>

(* SessionCoordinator: an idle session is disposed after an hour. *)
SessionExpires(t) ==
    /\ session[t].held
    /\ \A r \in Runs : job[r].state = "running" => run[r].thread # t
    /\ session' = [session EXCEPT ![t] = NoSession]
    /\ UNCHANGED <<runVars, pi, job, pub, late, faults>>

-----------------------------------------------------------------------------
(* ResultPublisher: operations are accepted one after another. *)

KindOf(op) ==
    CASE op \in {"text", "tool", "flush"} -> "output"
      [] op \in {"error", "restarting"} -> "failed"
      [] OTHER -> op

FlushTimerFires(r) ==
    /\ pub[r].buffered /\ ~pub[r].stopped /\ pub[r].terminal = "none"
    /\ \A i \in DOMAIN pub[r].queue : pub[r].queue[i] # "flush"
    /\ pub' = [pub EXCEPT ![r].queue = Append(pub[r].queue, "flush")]
    /\ UNCHANGED <<runVars, pi, job, session, late, faults>>

(* What accept(event) can make of the publisher until its first await: a
   stopped one drops the event, one that has sent its terminal event rejects
   it and all that follow, text may be buffered, and buffered text is sent
   before any other event. *)
AcceptOutcomes(p) ==
    LET op == Head(p.queue)
        done == [p EXCEPT !.queue = Tail(p.queue)]
        sendsText == [p EXCEPT !.sending = "output", !.buffered = FALSE]
    IN IF p.stopped THEN {done}
       ELSE IF p.terminal # "none"
            THEN {[p EXCEPT !.queue = << >>, !.broken = TRUE]}
       ELSE IF op = "text" THEN {[done EXCEPT !.buffered = TRUE], sendsText}
       ELSE IF op = "flush" THEN IF p.buffered THEN {sendsText} ELSE {done}
       ELSE IF p.buffered THEN {[sendsText EXCEPT !.flushing = TRUE]}
       ELSE {[p EXCEPT !.sending = KindOf(op)]}

Accept(r) ==
    /\ Taking(r)
    /\ \E next \in AcceptOutcomes(pub[r]) : pub' = [pub EXCEPT ![r] = next]
    /\ UNCHANGED <<runVars, pi, job, session, late, faults>>

(* sendResult resolved: the event itself is sent after the text before it,
   without another look at stopped. *)
Acknowledged(p) ==
    LET sent == [p EXCEPT !.seq = p.seq + 1, !.tries = 0]
    IN IF p.flushing
       THEN [sent EXCEPT !.flushing = FALSE, !.sending = KindOf(Head(p.queue))]
       ELSE [sent EXCEPT !.sending = "none", !.queue = Tail(p.queue),
                         !.terminal = IF p.sending = "output" THEN p.terminal
                                      ELSE p.sending]

Rejected_chainGoesOn(p) ==
    [p EXCEPT !.sending = "none", !.flushing = FALSE, !.tries = 0,
              !.queue = Tail(p.queue)]

(* sendResult rejected: every later operation of the chain is rejected too; a
   failed flush is caught, stops the publisher and closes the controller
   (handleTransportFailure). *)
Rejected(p) ==
    LET over == [p EXCEPT !.sending = "none", !.flushing = FALSE, !.tries = 0]
    IN IF Head(p.queue) = "flush"
       THEN [over EXCEPT !.queue = Tail(p.queue), !.stopped = TRUE]
       ELSE [over EXCEPT !.queue = << >>, !.broken = TRUE]

FlushFails(r) == Head(pub[r].queue) = "flush"

SendFails(r) ==
    /\ pub' = [pub EXCEPT ![r] = Rejected(pub[r])]
    /\ job' = [job EXCEPT ![r].closing = job[r].closing \/ FlushFails(r)]

Receive_unchecked(r, n, kind) ==
    IF Known(r, n) THEN UNCHANGED runVars
    ELSE /\ stored' = [stored EXCEPT ![r] = stored[r] \cup {<<n, kind>>}]
         /\ IF kind = "output" THEN StoreOutput(r, n) ELSE StoreTerminal(r, n, kind)
         /\ UNCHANGED <<archived, dispatch>>

(* acceptBatch on the Convex side, for a request that may be a repetition. *)
Receive(r, n, kind) ==
    IF Expects(r, n) THEN acceptBatch(r, n, kind) ELSE UNCHANGED runVars

WellAcknowledged_endedAnyway(r, n, kind) ==
    BatchAnswer(r, n, kind) \in {"accepted", "terminal"}

(* The client wants an acknowledgement of exactly this batch. *)
WellAcknowledged(r, n, kind) ==
    /\ BatchAnswer(r, n, kind) = "accepted"
    /\ Expects(r, n) \/ run[r].last = n

Deliver(r) ==
    LET n == pub[r].seq
        kind == pub[r].sending
    IN /\ kind # "none"
       /\ Receive(r, n, kind)
       /\ IF WellAcknowledged(r, n, kind)
          THEN pub' = [pub EXCEPT ![r] = Acknowledged(pub[r])] /\ UNCHANGED job
          ELSE SendFails(r)
       /\ UNCHANGED <<pi, session, late, faults>>

(* An attempt times out; its request may still be on the way. *)
TimeOut(r) ==
    /\ pub[r].sending # "none"
    /\ Fault
    /\ late' = late \cup {<<r, pub[r].seq, pub[r].sending>>}
    /\ IF pub[r].tries + 1 < CONVEX_RETRY_ATTEMPTS
       THEN pub' = [pub EXCEPT ![r].tries = pub[r].tries + 1] /\ UNCHANGED job
       ELSE SendFails(r)
    /\ UNCHANGED <<runVars, pi, session>>

DeliverLate(b) ==
    /\ Receive(b[1], b[2], b[3])
    /\ late' = late \ {b}
    /\ UNCHANGED <<pi, job, pub, session, faults>>

(* A terminal status in the answer to a heartbeat loses the lease; a pending
   run is not heard yet (HTTP 400) and the heartbeat is tried again. *)
Live(r) ==
    job[r].state = "running" /\ ~pub[r].stopped /\ pub[r].terminal = "none"

LoseLease(r) ==
    /\ pub' = [pub EXCEPT ![r].stopped = TRUE]
    /\ job' = [job EXCEPT ![r].closing = TRUE]

Heartbeat(r) ==
    /\ Live(r)
    /\ \/ renewHeartbeat(r) /\ UNCHANGED <<job, pub>>
       \/ IsTerminal(r) /\ LoseLease(r) /\ UNCHANGED runVars
    /\ UNCHANGED <<pi, session, late, faults>>

LeaseTimerFires(r) ==
    /\ Live(r)
    /\ Fault
    /\ LoseLease(r)
    /\ UNCHANGED <<runVars, pi, session, late>>

-----------------------------------------------------------------------------
(* Cancellation, shutdown, crash. *)

(* RunController.cancel and shutdown: nothing is done twice, nor after the
   terminal event was acknowledged. *)
Interruptible(r) == HasController(r) /\ ~job[r].closing /\ pub[r].terminal = "none"

Interrupt(S, event) ==
    /\ job' = [r \in Runs |-> IF r \in S THEN [job[r] EXCEPT !.closing = TRUE]
                              ELSE job[r]]
    /\ pub' = [r \in Runs |->
                  IF r \in S /\ ~pub[r].stopped /\ ~pub[r].broken
                  THEN [pub[r] EXCEPT !.queue = Append(pub[r].queue, event)]
                  ELSE pub[r]]

Cancel(r) ==
    Interrupt(IF Interruptible(r) THEN {r} ELSE {}, "canceled")

PostCancel(k) ==
    LET r == command[k].run
    IN /\ dispatch[k] = "calling"
       /\ IF pi = "up" /\ Registered(r)
          THEN ExecutionAnswers(k, "accepted") /\ Cancel(r)
          ELSE ExecutionAnswers(k, "refused") /\ UNCHANGED <<job, pub>>
       /\ UNCHANGED <<pi, session, late, faults>>

LosePostCancel(k) ==
    LET r == command[k].run
    IN /\ Fault
       /\ ExecutionAnswers(k, "refused")
       /\ \/ UNCHANGED <<job, pub>>
          \/ pi = "up" /\ Registered(r) /\ Cancel(r)
       /\ UNCHANGED <<pi, session, late>>

Shutdown ==
    /\ pi = "up"
    /\ pi' = "stopping"
    /\ Interrupt({r \in Runs : Interruptible(r)}, "restarting")
    /\ UNCHANGED <<runVars, session, late, faults>>

(* registry.shutdown waits for the events it sent, waitForIdle for the runs. *)
Quiesced ==
    \A r \in Runs :
        /\ job[r].state # "running"
        /\ \A i \in DOMAIN pub[r].queue : pub[r].queue[i] # "restarting"

InFlight == {<<r, pub[r].seq, pub[r].sending>> :
                r \in {s \in Runs : pub[s].sending # "none"}}

Exit ==
    /\ pi' = "down"
    /\ job' = [r \in Runs |->
                  IF job[r].state \in {"reserved", "gone"} /\ dispatch[r] = "calling"
                  THEN [NoJob EXCEPT !.state = "gone"] ELSE NoJob]
    /\ pub' = [r \in Runs |-> NoPublisher]
    /\ session' = [t \in Threads |-> NoSession]
    /\ late' = late \cup InFlight
    /\ UNCHANGED runVars

ShutdownEnds == pi = "stopping" /\ Quiesced /\ Exit /\ UNCHANGED faults

Crash == pi # "down" /\ Exit /\ Fault

Restart == pi = "down" /\ pi' = "up" /\ UNCHANGED <<runVars, job, pub, session, late, faults>>

-----------------------------------------------------------------------------
(* Pi, or a Convex action, is still at work on the run. *)
AtWork(r) ==
    \/ job[r].state = "running"
    \/ dispatch[r] \in {"scheduled", "read", "calling", "accepted"}

TimePasses(r) ==
    /\ DispatchDeadlinePasses(r) \/ LeaseRunsOut(r)
    /\ IF AtWork(r) THEN Fault ELSE UNCHANGED faults
    /\ UNCHANGED piVars

ConvexStep ==
    /\ \/ Submission
       \/ \E r \in Runs :
            \/ getStartRequest(r) \/ markDispatching(r)
            \/ markDispatchAccepted(r) \/ markDispatchFailure(r)
       \/ \E k \in Stops :
            \/ getStopRequest(k) \/ markStopDispatching(k)
            \/ markStopDispatchFailure(k)
       \/ reconcileExpiredRuns
    /\ UNCHANGED <<piVars, faults>>

ActionLost(k) == ActionDies(k) /\ Fault /\ UNCHANGED piVars

PublisherStep(r) ==
    \/ FlushTimerFires(r)
    \/ Accept(r)
    \/ Deliver(r)
    \/ TimeOut(r)
    \/ Heartbeat(r)
    \/ LeaseTimerFires(r)

ServiceNext ==
    \/ ConvexStep
    \/ \E k \in Commands : ActionLost(k)
    \/ \E r \in Runs : TimePasses(r)
    \/ \E r \in Runs : PostRun(r)
    \/ \E r \in Runs : LosePostRun(r)
    \/ \E r \in Runs : StartRun(r)
    \/ \E r \in Runs : EmitOutput(r)
    \/ \E r \in Runs : EmitTerminal(r)
    \/ \E r \in Runs : RunReturns(r)
    \/ \E r \in Runs : PublisherStep(r)
    \/ \E b \in late : DeliverLate(b)
    \/ \E t \in Threads : SessionExpires(t)
    \/ \E k \in Stops : PostCancel(k)
    \/ \E k \in Stops : LosePostCancel(k)
    \/ Shutdown
    \/ ShutdownEnds
    \/ Crash
    \/ Restart

ServiceSpec == ServiceInit /\ [][ServiceNext]_serviceVars

(* Convex runs what it has scheduled and its cron; Pi answers, an execution
   ends, and its event loop handles what is queued.  Neither a restart of Pi
   nor a start after a lost response is assumed. *)
ServiceFairness ==
    /\ WF_serviceVars(reconcileExpiredRuns /\ UNCHANGED <<piVars, faults>>)
    /\ \A r \in Runs :
        /\ WF_serviceVars(/\ \/ getStartRequest(r) \/ markDispatching(r)
                             \/ markDispatchAccepted(r) \/ markDispatchFailure(r)
                          /\ UNCHANGED <<piVars, faults>>)
        /\ WF_serviceVars(PostRun(r))
        /\ WF_serviceVars(dispatch[r] = "calling" /\ StartRun(r))
        /\ WF_serviceVars(EmitTerminal(r))
        /\ WF_serviceVars(RunReturns(r))
        /\ WF_serviceVars(Accept(r))
        /\ WF_serviceVars(Deliver(r))
        /\ WF_serviceVars(TimePasses(r) /\ UNCHANGED faults)

FairServiceSpec == ServiceSpec /\ ServiceFairness

-----------------------------------------------------------------------------
(* Properties. *)

(* The closed system takes no step that ThreadRuns does not: what is proved or
   checked of the open one holds of it. *)
StaysWithinThreadRuns == Spec

(* One payload per sequence number, across retries, late arrivals, failed
   flushes, cancellation and shutdown: Convex never has to answer
   changed_retry (results.ts). *)
NeverChangedRetry ==
    /\ \A r \in Runs :
        pub[r].sending # "none"
            => BatchAnswer(r, pub[r].seq, pub[r].sending) # "changed_retry"
    /\ \A b \in late : BatchAnswer(b[1], b[2], b[3]) # "changed_retry"

(* What Pi believes of a run is what Convex recorded: an acknowledged terminal
   event is the status of the run, and a session kept hot knows only runs that
   completed in Convex too.  One that failed, was canceled, or was given up for
   lost leaves no session behind (run-controller.ts, run). *)
AcknowledgedOutcome ==
    /\ \A r \in Runs :
        pub[r].terminal # "none" => run[r].status = pub[r].terminal
    /\ \A t \in Threads :
        session[t].held => \A r \in session[t].ran : run[r].status = "completed"

(* Every submitted run ends, whatever is lost, late or restarted. *)
EveryRunEnds == \A r \in Runs : IsActive(r) ~> IsTerminal(r)

=============================================================================
