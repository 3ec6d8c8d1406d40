------------------------------- MODULE ThreadRuns -------------------------------
(***************************************************************************)
(* The canonical state of web-chat runs as apps/convex/convex keeps it:    *)
(* commands.ts (submission), dispatch.ts (the startRun and stopRun actions *)
(* and the mutations they call), results.ts (result batches, heartbeats,   *)
(* failures) and reconciliation.ts.  A mutation is one transaction and one *)
(* action here; startRun and stopRun are Convex actions, so each           *)
(* transaction they run, and the HTTP call between them, is a step.        *)
(*                                                                         *)
(* The execution service is left open: it may accept or refuse a request,  *)
(* and deliver, repeat or reorder batches for any run it was asked to      *)
(* execute.  ThreadService closes the system with it.                      *)
(*                                                                         *)
(* Time is abstract: a dispatch deadline may pass and a lease may run out  *)
(* at any moment.  A batch is its sequence number and the kind of its last *)
(* event; a changed payload is a different kind.                           *)
(***************************************************************************)
EXTENDS Naturals, FiniteSets

CONSTANTS
    Threads,
    Runs,           \* run ids; a run, its prompt or retry command and its
                    \* assistant message share the command id
    Stops,          \* command ids of thread.stop commands
    None,
    RECONCILIATION_BATCH_SIZE,
    CLEANUP_PAGE,   \* batches deleted by one cleanupRunBatches
    MaxSequence     \* bound: batches of a run

ASSUME SizesAssumption ==
    /\ RECONCILIATION_BATCH_SIZE \in Nat \ {0}
    /\ CLEANUP_PAGE \in Nat \ {0}
    /\ MaxSequence \in Nat \ {0}
ASSUME CommandIdsAssumption ==
    /\ IsFiniteSet(Runs)
    /\ Runs \cap Stops = {}
    /\ None \notin Threads \cup Runs \cup Stops

Commands == Runs \cup Stops

VARIABLES
    run,        \* runs
    command,    \* commands that concern a run
    message,    \* status of the assistant message of each run
    stored,     \* runResultBatches: <<sequence, kind>> of each run
    archived,   \* threads with an archivedAt
    dispatch    \* where the startRun or stopRun action of a command stands

runVars == <<run, command, message, stored, archived, dispatch>>

-----------------------------------------------------------------------------
(* Documents. *)

TerminalStatus == {"completed", "failed", "canceled"}
ActiveStatus == {"pending", "running", "cancellation_requested"}
RunStatus == {"absent"} \cup ActiveStatus \cup TerminalStatus
CommandStatus ==
    {"absent", "accepted", "dispatching", "running"} \cup TerminalStatus
MessageStatus == {"absent", "pending", "streaming"} \cup TerminalStatus
(* terminalStatusForEvent of the last event of a batch *)
Kinds == {"output"} \cup TerminalStatus
(* read: the request was read; calling: the HTTP request is out; accepted,
   refused: it was answered; over: the action has ended; dropped: it ended
   before its HTTP request *)
Dispatches ==
    {"none", "scheduled", "read", "calling", "accepted", "refused", "over",
     "dropped"}

RunRecord ==
    [status : RunStatus, thread : Threads \cup {None}, source : Runs \cup {None},
     asked : Nat, answered : Nat, last : Nat,
     deadline : {"none", "ahead", "passed"}, lease : {"none", "live", "expired"},
     stream : {"live", "finalized"}]

CommandRecord == [status : CommandStatus, run : Runs \cup {None}]

NoRun ==
    [status |-> "absent", thread |-> None, source |-> None, asked |-> 0,
     answered |-> 0, last |-> 0, deadline |-> "none", lease |-> "none",
     stream |-> "live"]

NoCommand == [status |-> "absent", run |-> None]

IsActive(r) == run[r].status \in ActiveStatus
IsTerminal(r) == run[r].status \in TerminalStatus

Init ==
    /\ run = [r \in Runs |-> NoRun]
    /\ command = [k \in Commands |-> NoCommand]
    /\ message = [r \in Runs |-> "absent"]
    /\ stored = [r \in Runs |-> {}]
    /\ archived = {}
    /\ dispatch = [k \in Commands |-> "none"]

-----------------------------------------------------------------------------
(* Submission. *)

RunsOf(t) == {r \in Runs : run[r].status # "absent" /\ run[r].thread = t}

(* An ordinal above every message of the thread; only the order of ordinals
   matters, so a run takes two even where a retry adds one message. *)
NextOrdinal(t) == 2 * Cardinality(RunsOf(t))

activeRunForThread_running(t) ==
    {r \in RunsOf(t) : run[r].status \in {"pending", "running"}}

activeRunForThread(t) == {r \in RunsOf(t) : IsActive(r)}

(* A prompt is a message of its own; a retry asks its source's again. *)
createPromptRun(r, t, source) ==
    /\ run[r].status = "absent"
    /\ t \notin archived
    /\ activeRunForThread(t) = {}
    /\ run' = [run EXCEPT ![r] =
                  [NoRun EXCEPT !.status = "pending", !.thread = t,
                                !.source = source, !.deadline = "ahead",
                                !.asked = IF source = None THEN NextOrdinal(t)
                                          ELSE run[source].asked,
                                !.answered = IF source = None
                                             THEN NextOrdinal(t) + 1
                                             ELSE NextOrdinal(t)]]
    /\ command' = [command EXCEPT ![r] = [status |-> "accepted", run |-> r]]
    /\ message' = [message EXCEPT ![r] = "pending"]
    /\ dispatch' = [dispatch EXCEPT ![r] = "scheduled"]
    /\ UNCHANGED <<stored, archived>>

submitPrompt(r, t) == createPromptRun(r, t, None)

retryRun(r, source) ==
    /\ IsTerminal(source)
    /\ createPromptRun(r, run[source].thread, source)

requestStop(k, r) ==
    /\ command[k].status = "absent"
    /\ run[r].status = "running"
    /\ run' = [run EXCEPT ![r].status = "cancellation_requested"]
    /\ command' = [command EXCEPT ![k] = [status |-> "dispatching", run |-> r]]
    /\ dispatch' = [dispatch EXCEPT ![k] = "scheduled"]
    /\ UNCHANGED <<message, stored, archived>>

(* A thread exists from its first prompt on; archiving does not look at runs. *)
archive(t) ==
    /\ RunsOf(t) # {}
    /\ archived' = archived \cup {t}
    /\ UNCHANGED <<run, command, message, stored, dispatch>>

-----------------------------------------------------------------------------
(* The startRun action: getStartRequest, markDispatching, POST /runs,
   markDispatchAccepted or markDispatchFailure.  The scheduler starts it once
   and does not repeat it. *)

getStartRequest(r) ==
    /\ dispatch[r] = "scheduled"
    /\ dispatch' = [dispatch EXCEPT ![r] =
                       IF run[r].status = "pending" THEN "read" ELSE "dropped"]
    /\ UNCHANGED <<run, command, message, stored, archived>>

markDispatching(r) ==
    /\ dispatch[r] = "read"
    /\ dispatch' = [dispatch EXCEPT ![r] = IF IsActive(r) THEN "calling" ELSE "dropped"]
    /\ command' = IF run[r].status = "pending"
                  THEN [command EXCEPT ![r].status = "dispatching"]
                  ELSE command
    /\ UNCHANGED <<run, message, stored, archived>>

(* What a run becomes when the backend is known to have it. *)
Started(r) ==
    [run[r] EXCEPT !.status = "running", !.deadline = "none", !.lease = "live"]

(* A run that its first batch has promoted already is left alone. *)
markDispatchAccepted(r) ==
    /\ dispatch[r] = "accepted"
    /\ dispatch' = [dispatch EXCEPT ![r] = "over"]
    /\ IF run[r].status = "pending"
       THEN /\ run' = [run EXCEPT ![r] = Started(r)]
            /\ command' = [command EXCEPT ![r].status = "running"]
       ELSE UNCHANGED <<run, command>>
    /\ UNCHANGED <<message, stored, archived>>

markDispatchFailure(r) ==
    /\ dispatch[r] = "refused"
    /\ dispatch' = [dispatch EXCEPT ![r] = "over"]
    /\ command' = IF run[r].status = "pending"
                  THEN [command EXCEPT ![r].status = "accepted"]
                  ELSE command
    /\ UNCHANGED <<run, message, stored, archived>>

(* The stopRun action: getStopRequest, markStopDispatching, POST
   /runs/:runId/cancel, and markStopDispatchFailure when that fails. *)

StopRequested(k) == run[command[k].run].status = "cancellation_requested"

getStopRequest(k) ==
    /\ dispatch[k] = "scheduled"
    /\ dispatch' = [dispatch EXCEPT ![k] =
                       IF StopRequested(k) THEN "read" ELSE "dropped"]
    /\ UNCHANGED <<run, command, message, stored, archived>>

markStopDispatching(k) ==
    /\ dispatch[k] = "read"
    /\ dispatch' = [dispatch EXCEPT ![k] =
                       IF StopRequested(k) THEN "calling" ELSE "dropped"]
    /\ command' = IF StopRequested(k)
                  THEN [command EXCEPT ![k].status = "dispatching"]
                  ELSE command
    /\ UNCHANGED <<run, message, stored, archived>>

markStopDispatchFailure(k) ==
    /\ dispatch[k] = "refused"
    /\ dispatch' = [dispatch EXCEPT ![k] = "over"]
    /\ command' = IF StopRequested(k)
                  THEN [command EXCEPT ![k].status = "accepted"]
                  ELSE command
    /\ UNCHANGED <<run, message, stored, archived>>

(* An answered cancellation ends stopRun. *)
ExecutionAnswers(k, answer) ==
    /\ dispatch[k] = "calling"
    /\ dispatch' = [dispatch EXCEPT ![k] =
                       IF k \in Stops /\ answer = "accepted" THEN "over" ELSE answer]
    /\ UNCHANGED <<run, command, message, stored, archived>>

(* A Convex action may be interrupted, and is not retried. *)
ActionDies(k) ==
    /\ dispatch[k] \in {"read", "calling", "accepted", "refused"}
    /\ dispatch' = [dispatch EXCEPT ![k] =
                       IF dispatch[k] = "read" THEN "dropped" ELSE "over"]
    /\ UNCHANGED <<run, command, message, stored, archived>>

-----------------------------------------------------------------------------
(* Results. *)

CommandsSettled_promptOnly(F, status) ==
    [k \in Commands |->
        IF k \in F THEN [command[k] EXCEPT !.status = status] ELSE command[k]]

(* updateCommandsForRun: the prompt or retry, and every stop. *)
CommandsSettled(F, status) ==
    [k \in Commands |->
        IF command[k].status # "absent" /\ command[k].run \in F
        THEN [command[k] EXCEPT !.status = status] ELSE command[k]]

Known(r, n) == \E kind \in Kinds : <<n, kind>> \in stored[r]

(* The run takes batch n now: it is active and n is next; a pending run is
   promoted by its first batch. *)
Expects(r, n) ==
    /\ ~Known(r, n)
    /\ run[r].stream = "live"
    /\ \/ run[r].status \in {"running", "cancellation_requested"}
       \/ run[r].status = "pending" /\ n = 1
    /\ n = run[r].last + 1

(* What acceptBatch answers.  A repeated batch is acknowledged through the
   last batch accepted so far. *)
BatchAnswer(r, n, kind) ==
    IF Known(r, n)
    THEN IF <<n, kind>> \in stored[r] THEN "accepted" ELSE "changed_retry"
    ELSE IF IsTerminal(r) \/ run[r].stream = "finalized" THEN "terminal"
    ELSE IF run[r].status = "pending" /\ n # 1 THEN "not_active"
    ELSE IF Expects(r, n) THEN "accepted" ELSE "sequence_gap"

Streamed_promotedOnly(r, n) ==
    IF run[r].status = "pending" THEN Started(r)
    ELSE [run[r] EXCEPT !.last = n, !.lease = "live"]

(* What a nonterminal batch makes of its run. *)
Streamed(r, n) ==
    IF run[r].status = "pending" THEN [Started(r) EXCEPT !.last = n]
    ELSE [run[r] EXCEPT !.last = n, !.lease = "live"]

Settled(r, n, kind) ==
    [run[r] EXCEPT !.status = kind, !.stream = "finalized", !.last = n,
                   !.lease = "none",
                   !.deadline = IF run[r].status = "pending" THEN "none"
                                ELSE run[r].deadline]

StoreOutput(r, n) ==
    /\ run' = [run EXCEPT ![r] = Streamed(r, n)]
    /\ command' = IF run[r].status = "pending"
                  THEN [command EXCEPT ![r].status = "running"] ELSE command
    /\ message' = IF message[r] = "pending"
                  THEN [message EXCEPT ![r] = "streaming"] ELSE message

StoreTerminal(r, n, kind) ==
    /\ run' = [run EXCEPT ![r] = Settled(r, n, kind)]
    /\ command' = CommandsSettled({r}, kind)
    /\ message' = [message EXCEPT ![r] = kind]

(* The batches acceptBatch refuses, and those it has, change nothing. *)
acceptBatch(r, n, kind) ==
    /\ Expects(r, n)
    /\ stored' = [stored EXCEPT ![r] = stored[r] \cup {<<n, kind>>}]
    /\ IF kind = "output" THEN StoreOutput(r, n) ELSE StoreTerminal(r, n, kind)
    /\ UNCHANGED <<archived, dispatch>>

(* A heartbeat renews a lease that has already run out. *)
renewHeartbeat(r) ==
    /\ run[r].status \in {"running", "cancellation_requested"}
    /\ run' = [run EXCEPT ![r].lease = "live"]
    /\ UNCHANGED <<command, message, stored, archived, dispatch>>

(* RESULT_BATCH_RETENTION_MS after its end, a page of a run's batches at a
   time, oldest first. *)
cleanupRunBatches(r) ==
    /\ IsTerminal(r)
    /\ stored[r] # {}
    /\ stored' = [stored EXCEPT ![r] =
                     {b \in stored[r] :
                         Cardinality({a \in stored[r] : a[1] < b[1]}) >= CLEANUP_PAGE}]
    /\ UNCHANGED <<run, command, message, archived, dispatch>>

-----------------------------------------------------------------------------
(* Time and reconciliation. *)

DispatchDeadlinePasses(r) ==
    /\ run[r].status = "pending" /\ run[r].deadline = "ahead"
    /\ run' = [run EXCEPT ![r].deadline = "passed"]
    /\ UNCHANGED <<command, message, stored, archived, dispatch>>

LeaseRunsOut(r) ==
    /\ IsActive(r) /\ run[r].lease = "live"
    /\ run' = [run EXCEPT ![r].lease = "expired"]
    /\ UNCHANGED <<command, message, stored, archived, dispatch>>

Overdue_byLease(status) ==
    {r \in Runs : run[r].status = status /\ run[r].lease = "expired"}

Overdue_running(status) ==
    {r \in Runs :
        /\ run[r].status = status
        /\ \/ status = "pending" /\ run[r].deadline = "passed"
           \/ status = "running" /\ run[r].lease = "expired"}

Overdue(status) ==
    {r \in Runs :
        /\ run[r].status = status
        /\ IF status = "pending" THEN run[r].deadline = "passed"
           ELSE run[r].lease = "expired"}

(* failPendingRun and failLostRun leave the deadline and the lease. *)
FailedRuns(F) ==
    [r \in Runs |->
        IF r \in F THEN [run[r] EXCEPT !.status = "failed", !.stream = "finalized"]
        ELSE run[r]]

(* take(limit) of an index: the oldest ones, and which those are is not
   modelled. *)
Taken(S, limit) ==
    {T \in SUBSET S :
        Cardinality(T) = IF Cardinality(S) < limit THEN Cardinality(S) ELSE limit}

(* Pending runs first, then running ones, then those to be canceled, until
   the batch is full. *)
reconcileExpiredRuns ==
    \E P \in Taken(Overdue("pending"), RECONCILIATION_BATCH_SIZE) :
    \E R \in Taken(Overdue("running"), RECONCILIATION_BATCH_SIZE - Cardinality(P)) :
    \E C \in Taken(Overdue("cancellation_requested"),
                   RECONCILIATION_BATCH_SIZE - Cardinality(P) - Cardinality(R)) :
        LET F == P \cup R \cup C
        IN /\ F # {}
           /\ run' = FailedRuns(F)
           /\ command' = CommandsSettled(F, "failed")
           /\ message' = [r \in Runs |-> IF r \in F THEN "failed" ELSE message[r]]
           /\ UNCHANGED <<stored, archived, dispatch>>

-----------------------------------------------------------------------------
Submission ==
    \/ \E r \in Runs, t \in Threads : submitPrompt(r, t)
    \/ \E r \in Runs, source \in Runs : retryRun(r, source)
    \/ \E k \in Stops, r \in Runs : requestStop(k, r)
    \/ \E t \in Threads : archive(t)

DispatchStep ==
    \/ \E r \in Runs : getStartRequest(r)
    \/ \E r \in Runs : markDispatching(r)
    \/ \E r \in Runs : markDispatchAccepted(r)
    \/ \E r \in Runs : markDispatchFailure(r)
    \/ \E k \in Stops : getStopRequest(k)
    \/ \E k \in Stops : markStopDispatching(k)
    \/ \E k \in Stops : markStopDispatchFailure(k)
    \/ \E k \in Commands : ActionDies(k)

Time ==
    \/ \E r \in Runs : DispatchDeadlinePasses(r)
    \/ \E r \in Runs : LeaseRunsOut(r)

(* A run the backend has been asked for. *)
Requested(r) == dispatch[r] \in {"calling", "accepted", "refused", "over"}

Execution ==
    \/ \E k \in Commands, answer \in {"accepted", "refused"} :
           ExecutionAnswers(k, answer)
    \/ \E r \in Runs, n \in 1..MaxSequence, kind \in Kinds :
           Requested(r) /\ acceptBatch(r, n, kind)
    \/ \E r \in Runs : Requested(r) /\ renewHeartbeat(r)

Next ==
    \/ Submission
    \/ DispatchStep
    \/ Execution
    \/ Time
    \/ reconcileExpiredRuns
    \/ \E r \in Runs : cleanupRunBatches(r)

Spec == Init /\ [][Next]_runVars

(* The reconciliation cron runs every minute and clocks advance. *)
Fairness ==
    /\ WF_runVars(reconcileExpiredRuns)
    /\ \A r \in Runs : WF_runVars(DispatchDeadlinePasses(r))

FairSpec == Spec /\ Fairness

-----------------------------------------------------------------------------
(* Properties. *)

(* Every document keeps its shape; a run that exists belongs to a thread. *)
TypeOK ==
    /\ run \in [Runs -> RunRecord]
    /\ \A r \in Runs : run[r].status # "absent" => run[r].thread \in Threads
    /\ command \in [Commands -> CommandRecord]
    /\ message \in [Runs -> MessageStatus]
    /\ stored \in [Runs -> SUBSET (Nat \X Kinds)]
    /\ archived \subseteq Threads
    /\ dispatch \in [Commands -> Dispatches]

(* A thread has at most one run that is pending, running or being canceled,
   whatever is submitted, retried or stopped around it (commands.ts,
   activeRunForThread). *)
OneActiveRunPerThread ==
    \A r, s \in Runs :
        IsActive(r) /\ IsActive(s) /\ run[r].thread = run[s].thread => r = s

(* A run, its assistant message and all its commands end together and with
   the same status, whichever of batch, deadline, lease and stop comes first;
   until then its message and its commands are open, and a run the backend
   has started shows a running command (results.ts, updateCommandsForRun). *)
SettledTogether ==
    \A r \in Runs :
        /\ IsTerminal(r) <=> run[r].stream = "finalized"
        /\ IsTerminal(r) => message[r] = run[r].status
        /\ IsActive(r) => message[r] \in {"pending", "streaming"}
        /\ \A k \in Commands :
               command[k].status # "absent" /\ command[k].run = r =>
                   IF IsTerminal(r) THEN command[k].status = run[r].status
                   ELSE command[k].status \notin TerminalStatus
        /\ run[r].status \in {"running", "cancellation_requested"}
               => command[r].status = "running"

(* A run that has ended keeps its status, its message and its last sequence:
   no late batch, heartbeat, dispatch answer or reconciliation touches it.
   Its batches are only deleted. *)
TerminalRunsNeverChange ==
    [][\A r \in Runs :
        IsTerminal(r) => /\ run'[r] = run[r]
                         /\ message'[r] = message[r]
                         /\ stored'[r] \subseteq stored[r]]_runVars

(* The stored stream has no hole, no repetition, and nothing after a terminal
   batch; a terminal batch is there only if it decided the status of the run
   (results.ts, acceptBatch). *)
StreamIsContiguous ==
    \A r \in Runs :
        /\ IsActive(r) => /\ {b[1] : b \in stored[r]} = 1..run[r].last
                          /\ Cardinality(stored[r]) = run[r].last
        /\ \A b \in stored[r] :
               b[2] # "output" => b[1] = run[r].last /\ run[r].status = b[2]

(* At most one run of a thread at a time, each ended once. *)
Ledger == INSTANCE ThreadLedger WITH
    open <- {<<run[r].thread, r>> : r \in {s \in Runs : IsActive(s)}},
    outcome <- [r \in Runs |->
                   IF IsTerminal(r) THEN run[r].status ELSE None],
    Outcomes <- TerminalStatus,
    NoOutcome <- None

(* ThreadRuns implements ThreadLedger: dispatch, batches, leases and stops
   are not visible in which runs are open and how they ended. *)
ImplementsThreadLedger == Ledger!Spec

(* A run that no executor holds, because none accepted it or its lease has run
   out, is taken up or ended: it has a timer, and reconciliation finds it
   although it handles a bounded number of runs and takes pending ones first. *)
RunsSettle ==
    \A r \in Runs :
        IsActive(r) /\ run[r].lease # "live"
            ~> IsTerminal(r) \/ run[r].lease = "live"

=============================================================================
