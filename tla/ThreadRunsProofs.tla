----------------------------- MODULE ThreadRunsProofs -----------------------------
(***************************************************************************)
(* Proofs about ThreadRuns, and about ThreadService which closes it with   *)
(* the execution service, for every value of their constants.              *)
(*                                                                         *)
(* Types.  TypeOK is inductive: each operation replaces a run, a command   *)
(* or a message by one of the same shape, and only submission creates a    *)
(* run, in a thread.                                                       *)
(*                                                                         *)
(* The ledger.  Which runs are open and how they end follows from one fact *)
(* about a step (StepOfRuns): it creates a run in a thread without an      *)
(* active one, or it ends a set of active runs with one outcome and leaves *)
(* every other run open or closed as it was.                               *)
(*                                                                         *)
(* Settlement.  SettledTogether is not inductive: an operation that ends a *)
(* run finds its commands by the run they name, and a stop command is      *)
(* marked after a query read it.  So the invariant needs Linked: a command *)
(* that exists names an existing run, the prompt or retry of a run exists  *)
(* with it and names it, and only a command that exists is dispatched.     *)
(*                                                                         *)
(* The stream.  A run that has not ended has the batches 1..last, each     *)
(* once, and only output (StreamOf): a terminal batch is stored by the     *)
(* step that ends its run.                                                 *)
(*                                                                         *)
(* The service.  ServiceInv relates each publisher to its run (RunWorks)   *)
(* and to what was sent of it (SentOnce): every batch stored or on its way *)
(* has a number below the publisher's next, or is the one in flight; a run *)
(* of which anything was sent is never started again; and a publisher owes *)
(* no more batches than its executor emitted events (Owed).  From it each  *)
(* step of the closed system is a step of ThreadRuns or leaves it alone,   *)
(* and so everything above holds of the closed system.                     *)
(***************************************************************************)
EXTENDS ThreadService, FiniteSetTheorems, TLAPS

(* A run document: its shape, and that it belongs to a thread once it exists. *)
WellFormed(d) ==
    /\ d \in RunRecord
    /\ d.status # "absent" => d.thread \in Threads

-----------------------------------------------------------------------------
(* The documents the operators of the model return. *)

LEMMA StatusFacts ==
    /\ ActiveStatus \subseteq RunStatus /\ TerminalStatus \subseteq RunStatus
    /\ "absent" \notin ActiveStatus \cup TerminalStatus
    /\ ActiveStatus \cap TerminalStatus = {}
    /\ TerminalStatus \subseteq CommandStatus \cap MessageStatus \cap Kinds
    /\ Kinds \ {"output"} = TerminalStatus
BY DEF ActiveStatus, TerminalStatus, RunStatus, CommandStatus, MessageStatus, Kinds

LEMMA RunWellFormed ==
    ASSUME TypeOK, NEW r \in Runs
    PROVE  WellFormed(run[r])
BY DEF TypeOK, WellFormed

LEMMA StartedWellFormed ==
    ASSUME TypeOK, NEW r \in Runs, IsActive(r)
    PROVE  WellFormed(Started(r)) /\ Started(r).thread = run[r].thread
<1>1. run[r] \in RunRecord /\ run[r].thread \in Threads
  BY StatusFacts DEF TypeOK, IsActive
<1>. QED
  BY <1>1 DEF Started, WellFormed, RunRecord, RunStatus, ActiveStatus

LEMMA StreamedWellFormed ==
    ASSUME TypeOK, NEW r \in Runs, NEW n \in Nat, IsActive(r)
    PROVE  WellFormed(Streamed(r, n))
<1>1. run[r] \in RunRecord /\ run[r].thread \in Threads
  BY StatusFacts DEF TypeOK, IsActive
<1>2. CASE run[r].status = "pending"
  <2>. DEFINE begun == Started(r)
  <2>1. begun \in RunRecord /\ begun.thread \in Threads
    BY <1>1, StartedWellFormed DEF WellFormed
  <2>2. Streamed(r, n) = [begun EXCEPT !.last = n]
    BY <1>2 DEF Streamed
  <2>. HIDE DEF begun
  <2>. QED
    BY <2>1, <2>2 DEF WellFormed, RunRecord
<1>3. CASE run[r].status # "pending"
  BY <1>1, <1>3 DEF Streamed, WellFormed, RunRecord
<1>. QED
  BY <1>2, <1>3

LEMMA SettledWellFormed ==
    ASSUME TypeOK, NEW r \in Runs, NEW n \in Nat, NEW kind \in TerminalStatus, IsActive(r)
    PROVE  WellFormed(Settled(r, n, kind))
<1>1. run[r] \in RunRecord /\ run[r].thread \in Threads
  BY StatusFacts DEF TypeOK, IsActive
<1>. DEFINE deadline == IF run[r].status = "pending" THEN "none" ELSE run[r].deadline
<1>2. deadline \in {"none", "ahead", "passed"} /\ kind \in RunStatus
  BY <1>1, StatusFacts DEF RunRecord
<1>3. Settled(r, n, kind) = [run[r] EXCEPT !.status = kind, !.stream = "finalized",
                                !.last = n, !.lease = "none", !.deadline = deadline]
  BY DEF Settled
<1>. HIDE DEF deadline
<1>. QED
  BY <1>1, <1>2, <1>3 DEF WellFormed, RunRecord

LEMMA MarkedCommands ==
    ASSUME TypeOK, NEW k \in Commands, NEW status \in CommandStatus
    PROVE  [command EXCEPT ![k].status = status] \in [Commands -> CommandRecord]
BY DEF TypeOK, CommandRecord

LEMMA DispatchCommandStatuses ==
    {"accepted", "dispatching", "running"} \subseteq CommandStatus
BY DEF CommandStatus

LEMMA SettlingCommands ==
    ASSUME TypeOK, NEW F, NEW status \in TerminalStatus
    PROVE  CommandsSettled(F, status) \in [Commands -> CommandRecord]
<1>1. \A k \in Commands : [command[k] EXCEPT !.status = status] \in CommandRecord
  BY StatusFacts DEF TypeOK, CommandRecord
<1>. QED
  BY <1>1 DEF CommandsSettled, TypeOK

LEMMA NextOrdinalNat ==
    ASSUME NEW t
    PROVE  NextOrdinal(t) \in Nat
<1>1. IsFiniteSet(RunsOf(t))
  BY CommandIdsAssumption, FS_Subset DEF RunsOf
<1>. QED
  BY <1>1, FS_CardinalityType DEF NextOrdinal

-----------------------------------------------------------------------------
(* One lemma per group of operations. *)

LEMMA InitTyped == Init => TypeOK
<1>1. NoRun \in RunRecord
  BY DEF NoRun, RunRecord, RunStatus
<1>2. NoCommand \in CommandRecord
  BY DEF NoCommand, CommandRecord, CommandStatus
<1>. QED
  BY <1>1, <1>2 DEF Init, TypeOK, NoRun, MessageStatus, Dispatches

LEMMA CreateTyped ==
    ASSUME TypeOK, NEW r \in Runs, NEW t \in Threads, NEW source \in Runs \cup {None},
           createPromptRun(r, t, source)
    PROVE  TypeOK'
<1>. DEFINE asked == IF source = None THEN NextOrdinal(t) ELSE run[source].asked
            answered == IF source = None THEN NextOrdinal(t) + 1 ELSE NextOrdinal(t)
            new == [NoRun EXCEPT !.status = "pending", !.thread = t,
                                 !.source = source, !.deadline = "ahead",
                                 !.asked = asked, !.answered = answered]
<1>1. asked \in Nat /\ answered \in Nat
  BY NextOrdinalNat DEF TypeOK, RunRecord
<1>2. run' = [run EXCEPT ![r] = new]
  BY DEF createPromptRun
<1>3. WellFormed(new)
  <2>. HIDE DEF asked, answered
  <2>1. NoRun \in RunRecord /\ "pending" \in RunStatus
    BY DEF NoRun, RunRecord, RunStatus, ActiveStatus
  <2>. QED
    BY <1>1, <2>1 DEF WellFormed, RunRecord
<1>. HIDE DEF new
<1>4. run' \in [Runs -> RunRecord] /\ \A s \in Runs : run'[s].status # "absent" => run'[s].thread \in Threads
  BY <1>2, <1>3 DEF TypeOK, WellFormed
<1>5. command' \in [Commands -> CommandRecord]
  BY DEF createPromptRun, TypeOK, CommandRecord, CommandStatus
<1>6. message' \in [Runs -> MessageStatus]
  BY DEF createPromptRun, TypeOK, MessageStatus
<1>7. dispatch' \in [Commands -> Dispatches]
  BY DEF createPromptRun, TypeOK, Dispatches
<1>. QED
  BY <1>4, <1>5, <1>6, <1>7 DEF createPromptRun, TypeOK

LEMMA SubmissionTyped ==
    ASSUME TypeOK, Submission
    PROVE  TypeOK'
<1>1. CASE \E r \in Runs, t \in Threads : submitPrompt(r, t)
  BY <1>1, CreateTyped DEF submitPrompt
<1>2. CASE \E r \in Runs, source \in Runs : retryRun(r, source)
  <2>1. PICK r \in Runs, source \in Runs : retryRun(r, source)
    BY <1>2
  <2>2. run[source].thread \in Threads
    BY <2>1, StatusFacts DEF retryRun, IsTerminal, TypeOK
  <2>. QED
    BY <2>1, <2>2, CreateTyped DEF retryRun
<1>3. CASE \E k \in Stops, r \in Runs : requestStop(k, r)
  <2>1. PICK k \in Stops, r \in Runs : requestStop(k, r)
    BY <1>3
  <2>2. run' \in [Runs -> RunRecord] /\ \A s \in Runs : run'[s].thread = run[s].thread
    BY <2>1 DEF requestStop, TypeOK, RunRecord, RunStatus, ActiveStatus
  <2>3. \A s \in Runs : run[s].status = "absent" => run'[s].status = "absent"
    BY <2>1 DEF requestStop, TypeOK
  <2>4. command' \in [Commands -> CommandRecord]
    BY <2>1 DEF requestStop, TypeOK, CommandRecord, CommandStatus
  <2>. QED
    BY <2>1, <2>2, <2>3, <2>4 DEF requestStop, TypeOK, Dispatches
<1>4. CASE \E t \in Threads : archive(t)
  BY <1>4 DEF archive, TypeOK
<1>. QED
  BY <1>1, <1>2, <1>3, <1>4 DEF Submission

LEMMA DispatchTyped ==
    ASSUME TypeOK, DispatchStep
    PROVE  TypeOK'
<1>1. CASE \E r \in Runs : getStartRequest(r)
  BY <1>1 DEF getStartRequest, TypeOK, Dispatches
<1>2. CASE \E r \in Runs : markDispatching(r)
  <2>1. PICK r \in Runs : markDispatching(r)
    BY <1>2
  <2>2. command' \in [Commands -> CommandRecord]
    BY <2>1, MarkedCommands, DispatchCommandStatuses DEF markDispatching, TypeOK, Commands
  <2>3. dispatch' \in [Commands -> Dispatches]
    BY <1>2 DEF markDispatching, TypeOK, Dispatches
  <2>. QED
    BY <2>1, <2>2, <2>3 DEF markDispatching, TypeOK
<1>3. CASE \E r \in Runs : markDispatchAccepted(r)
  <2>1. PICK r \in Runs : markDispatchAccepted(r)
    BY <1>3
  <2>2. dispatch' \in [Commands -> Dispatches]
    BY <2>1 DEF markDispatchAccepted, TypeOK, Dispatches
  <2>3. CASE run[r].status = "pending"
    <3>1. WellFormed(Started(r))
      BY <2>3, StartedWellFormed DEF IsActive, ActiveStatus
    <3>2. run' = [run EXCEPT ![r] = Started(r)]
      BY <2>1, <2>3 DEF markDispatchAccepted
    <3>3. command' \in [Commands -> CommandRecord]
      BY <2>1, <2>3 DEF markDispatchAccepted, TypeOK, CommandRecord, CommandStatus
    <3>. QED
      BY <2>1, <2>2, <3>1, <3>2, <3>3 DEF markDispatchAccepted, TypeOK, WellFormed
  <2>. QED
    BY <2>1, <2>2, <2>3 DEF markDispatchAccepted, TypeOK
<1>4. CASE \E r \in Runs : markDispatchFailure(r)
  <2>1. PICK r \in Runs : markDispatchFailure(r)
    BY <1>4
  <2>2. command' \in [Commands -> CommandRecord]
    BY <2>1, MarkedCommands, DispatchCommandStatuses DEF markDispatchFailure, TypeOK, Commands
  <2>. QED
    BY <2>1, <2>2 DEF markDispatchFailure, TypeOK, Dispatches
<1>5. CASE \E k \in Stops : getStopRequest(k)
  BY <1>5 DEF getStopRequest, TypeOK, Dispatches
<1>6. CASE \E k \in Stops : markStopDispatching(k)
  <2>1. PICK k \in Stops : markStopDispatching(k)
    BY <1>6
  <2>2. command' \in [Commands -> CommandRecord]
    BY <2>1, MarkedCommands, DispatchCommandStatuses DEF markStopDispatching, TypeOK, Commands
  <2>3. dispatch' \in [Commands -> Dispatches]
    BY <1>6 DEF markStopDispatching, TypeOK, Dispatches
  <2>. QED
    BY <2>1, <2>2, <2>3 DEF markStopDispatching, TypeOK
<1>7. CASE \E k \in Stops : markStopDispatchFailure(k)
  <2>1. PICK k \in Stops : markStopDispatchFailure(k)
    BY <1>7
  <2>2. command' \in [Commands -> CommandRecord]
    BY <2>1, MarkedCommands, DispatchCommandStatuses DEF markStopDispatchFailure, TypeOK, Commands
  <2>. QED
    BY <2>1, <2>2 DEF markStopDispatchFailure, TypeOK, Dispatches
<1>8. CASE \E k \in Commands : ActionDies(k)
  BY <1>8 DEF ActionDies, TypeOK, Dispatches
<1>. QED
  BY <1>1, <1>2, <1>3, <1>4, <1>5, <1>6, <1>7, <1>8 DEF DispatchStep

(* What Expects knows of the run that takes a batch. *)
LEMMA ExpectedRunActive ==
    ASSUME NEW r, NEW n, Expects(r, n)
    PROVE  IsActive(r)
BY DEF Expects, IsActive, ActiveStatus

LEMMA BatchTyped ==
    ASSUME TypeOK, NEW r \in Runs, NEW n \in Nat, NEW kind \in Kinds, acceptBatch(r, n, kind)
    PROVE  TypeOK'
<1>1. IsActive(r)
  BY ExpectedRunActive DEF acceptBatch
<1>2. stored' \in [Runs -> SUBSET (Nat \X Kinds)]
  BY DEF acceptBatch, TypeOK
<1>3. CASE kind = "output"
  <2>1. run' = [run EXCEPT ![r] = Streamed(r, n)] /\ WellFormed(Streamed(r, n))
    BY <1>1, <1>3, StreamedWellFormed DEF acceptBatch, StoreOutput
  <2>2. command' \in [Commands -> CommandRecord]
    BY <1>3 DEF acceptBatch, StoreOutput, TypeOK, CommandRecord, CommandStatus
  <2>3. message' \in [Runs -> MessageStatus]
    BY <1>3 DEF acceptBatch, StoreOutput, TypeOK, MessageStatus
  <2>. QED
    BY <1>2, <2>1, <2>2, <2>3 DEF acceptBatch, TypeOK, WellFormed
<1>4. CASE kind # "output"
  <2>1. kind \in TerminalStatus
    BY <1>4, StatusFacts
  <2>2. run' = [run EXCEPT ![r] = Settled(r, n, kind)] /\ WellFormed(Settled(r, n, kind))
    BY <1>1, <1>4, <2>1, SettledWellFormed DEF acceptBatch, StoreTerminal
  <2>3. command' \in [Commands -> CommandRecord]
    BY <1>4, <2>1, SettlingCommands DEF acceptBatch, StoreTerminal
  <2>4. message' \in [Runs -> MessageStatus]
    BY <1>4, <2>1, StatusFacts DEF acceptBatch, StoreTerminal, TypeOK
  <2>. QED
    BY <1>2, <2>2, <2>3, <2>4 DEF acceptBatch, TypeOK, WellFormed
<1>. QED
  BY <1>3, <1>4

LEMMA ExecutionTyped ==
    ASSUME TypeOK, Execution
    PROVE  TypeOK'
<1>1. CASE \E k \in Commands, answer \in {"accepted", "refused"} : ExecutionAnswers(k, answer)
  BY <1>1 DEF ExecutionAnswers, TypeOK, Dispatches
<1>2. CASE \E r \in Runs, n \in 1..MaxSequence, kind \in Kinds :
               Requested(r) /\ acceptBatch(r, n, kind)
  BY <1>2, BatchTyped, SizesAssumption
<1>3. CASE \E r \in Runs : Requested(r) /\ renewHeartbeat(r)
  <2>1. run' \in [Runs -> RunRecord]
    BY <1>3 DEF renewHeartbeat, TypeOK, RunRecord
  <2>. QED
    BY <1>3, <2>1 DEF renewHeartbeat, TypeOK
<1>. QED
  BY <1>1, <1>2, <1>3 DEF Execution

LEMMA TimeTyped ==
    ASSUME TypeOK, Time
    PROVE  TypeOK'
<1>1. CASE \E r \in Runs : DispatchDeadlinePasses(r)
  <2>1. run' \in [Runs -> RunRecord]
    BY <1>1 DEF DispatchDeadlinePasses, TypeOK, RunRecord
  <2>. QED
    BY <1>1, <2>1 DEF DispatchDeadlinePasses, TypeOK
<1>2. CASE \E r \in Runs : LeaseRunsOut(r)
  <2>1. run' \in [Runs -> RunRecord]
    BY <1>2 DEF LeaseRunsOut, TypeOK, RunRecord
  <2>. QED
    BY <1>2, <2>1 DEF LeaseRunsOut, TypeOK
<1>. QED
  BY <1>1, <1>2 DEF Time

(* Reconciliation fails some set of active runs. *)
Fails(F) ==
    /\ F # {}
    /\ run' = FailedRuns(F)
    /\ command' = CommandsSettled(F, "failed")
    /\ message' = [r \in Runs |-> IF r \in F THEN "failed" ELSE message[r]]
    /\ UNCHANGED <<stored, archived, dispatch>>

LEMMA ReconciledRuns ==
    ASSUME reconcileExpiredRuns
    PROVE  \E F \in SUBSET {r \in Runs : IsActive(r)} : Fails(F)
<1>1. \A status \in ActiveStatus : Overdue(status) \subseteq {r \in Runs : IsActive(r)}
  BY DEF Overdue, IsActive
<1>2. \A S, limit : \A T \in Taken(S, limit) : T \subseteq S
  BY DEF Taken
<1>3. {"pending", "running", "cancellation_requested"} \subseteq ActiveStatus
  BY DEF ActiveStatus
<1>. DEFINE limit == RECONCILIATION_BATCH_SIZE
            Ps == Taken(Overdue("pending"), limit)
            Rs(P) == Taken(Overdue("running"), limit - Cardinality(P))
            Cs(P, R) == Taken(Overdue("cancellation_requested"),
                              limit - Cardinality(P) - Cardinality(R))
<1>4. \E P \in Ps : \E R \in Rs(P) : \E C \in Cs(P, R) : Fails(P \cup R \cup C)
  BY DEF reconcileExpiredRuns, Fails
<1>5. PICK P \in Ps : \E R \in Rs(P) : \E C \in Cs(P, R) : Fails(P \cup R \cup C)
  BY <1>4
<1>6. PICK R \in Rs(P) : \E C \in Cs(P, R) : Fails(P \cup R \cup C)
  BY <1>5
<1>7. PICK C \in Cs(P, R) : Fails(P \cup R \cup C)
  BY <1>6
<1>8. P \subseteq Overdue("pending") /\ R \subseteq Overdue("running")
      /\ C \subseteq Overdue("cancellation_requested")
  BY <1>2, <1>5, <1>6, <1>7
<1>9. P \cup R \cup C \subseteq {r \in Runs : IsActive(r)}
  BY <1>1, <1>3, <1>8
<1>. QED
  BY <1>7, <1>9

LEMMA ReconcileTyped ==
    ASSUME TypeOK, reconcileExpiredRuns
    PROVE  TypeOK'
<1>1. PICK F \in SUBSET {r \in Runs : IsActive(r)} : Fails(F)
  BY ReconciledRuns
<1>2. \A r \in F : [run[r] EXCEPT !.status = "failed", !.stream = "finalized"] \in RunRecord
  <2>. TAKE r \in F
  <2>1. run[r] \in RunRecord /\ "failed" \in RunStatus
    BY DEF TypeOK, RunStatus, TerminalStatus
  <2>. QED
    BY <2>1 DEF RunRecord
<1>3. run' \in [Runs -> RunRecord]
  BY <1>1, <1>2 DEF Fails, FailedRuns, TypeOK
<1>4. \A r \in Runs : /\ run'[r].thread = run[r].thread
                      /\ run[r].status = "absent" => run'[r].status = "absent"
  <2>. TAKE r \in Runs
  <2>1. run[r] \in RunRecord
    BY DEF TypeOK
  <2>2. run'[r] = IF r \in F THEN [run[r] EXCEPT !.status = "failed", !.stream = "finalized"]
                  ELSE run[r]
    BY <1>1 DEF Fails, FailedRuns
  <2>3. r \in F => run[r].status # "absent"
    BY StatusFacts DEF IsActive
  <2>. QED
    BY <2>1, <2>2, <2>3 DEF RunRecord
<1>5. "failed" \in TerminalStatus /\ "failed" \in MessageStatus
  BY DEF TerminalStatus, MessageStatus
<1>6. command' \in [Commands -> CommandRecord]
  BY <1>1, <1>5, SettlingCommands DEF Fails
<1>7. message' \in [Runs -> MessageStatus]
  BY <1>1, <1>5 DEF Fails, TypeOK
<1>8. \A r \in Runs : run'[r].status # "absent" => run'[r].thread \in Threads
  BY <1>4 DEF TypeOK
<1>9. UNCHANGED <<stored, archived, dispatch>>
  BY <1>1 DEF Fails
<1>. QED
  BY <1>3, <1>6, <1>7, <1>8, <1>9 DEF TypeOK

LEMMA CleanupTyped ==
    ASSUME TypeOK, NEW r \in Runs, cleanupRunBatches(r)
    PROVE  TypeOK'
<1>1. stored' \in [Runs -> SUBSET (Nat \X Kinds)]
  BY DEF cleanupRunBatches, TypeOK
<1>. QED
  BY <1>1 DEF cleanupRunBatches, TypeOK

LEMMA TypeInductive ==
    ASSUME TypeOK, [Next]_runVars
    PROVE  TypeOK'
<1>1. CASE Next
  BY <1>1, SubmissionTyped, DispatchTyped, ExecutionTyped, TimeTyped, ReconcileTyped,
     CleanupTyped DEF Next
<1>2. CASE UNCHANGED runVars
  BY <1>2 DEF runVars, TypeOK
<1>. QED
  BY <1>1, <1>2

(* TypeOK: every document of ThreadRuns keeps its shape, and a run that exists
   belongs to a thread. *)
THEOREM TypeCorrect == Spec => []TypeOK
<1>1. TypeOK /\ [Next]_runVars => TypeOK'
  BY TypeInductive
<1>. QED
  BY <1>1, InitTyped, PTL DEF Spec

-----------------------------------------------------------------------------
(* The ledger *)

(* The step leaves the run where it is in the ledger. *)
Keeps(r) ==
    /\ run'[r].thread = run[r].thread
    /\ IsActive(r)' <=> IsActive(r)
    /\ IsTerminal(r)' <=> IsTerminal(r)
    /\ IsTerminal(r) => /\ run'[r] = run[r]
                        /\ message'[r] = message[r]
                        /\ stored'[r] \subseteq stored[r]

(* The step ends the run. *)
EndsWith(r, o) ==
    /\ IsActive(r)
    /\ run'[r].thread = run[r].thread
    /\ run'[r].status = o

Creates(r, t) ==
    /\ run[r].status = "absent" /\ run'[r].status = "pending" /\ run'[r].thread = t
    /\ activeRunForThread(t) = {}
    /\ \A s \in Runs \ {r} : Keeps(s)

Ends(F, o) ==
    /\ \A r \in F : EndsWith(r, o)
    /\ \A r \in Runs \ F : Keeps(r)

(* What a step does to the runs as a whole. *)
RunsStep ==
    \/ \E r \in Runs, t \in Threads : Creates(r, t)
    \/ \E F \in SUBSET Runs, o \in TerminalStatus : Ends(F, o)

-----------------------------------------------------------------------------
(* Steps of one operation. *)

LEMMA AllKept ==
    ASSUME \A r \in Runs : Keeps(r)
    PROVE  RunsStep
<1>1. Ends({}, "failed") /\ "failed" \in TerminalStatus
  BY DEF Ends, TerminalStatus
<1>. QED
  BY <1>1 DEF RunsStep

LEMMA SameRunsKept ==
    ASSUME UNCHANGED <<run, message>>, \A r \in Runs : stored'[r] \subseteq stored[r]
    PROVE  RunsStep
<1>1. \A r \in Runs : Keeps(r)
  BY DEF Keeps, IsActive, IsTerminal
<1>. QED
  BY <1>1, AllKept

(* One active run is replaced by an active one. *)
LEMMA OneRunKept ==
    ASSUME TypeOK, NEW r \in Runs, NEW d, IsActive(r),
           run' = [run EXCEPT ![r] = d],
           d.status \in ActiveStatus, d.thread = run[r].thread,
           \A s \in Runs \ {r} : message'[s] = message[s] /\ stored'[s] = stored[s]
    PROVE  RunsStep
<1>1. run'[r] = d /\ \A s \in Runs \ {r} : run'[s] = run[s]
  BY DEF TypeOK
<1>2. Keeps(r)
  BY <1>1, StatusFacts DEF Keeps, IsActive, IsTerminal
<1>3. \A s \in Runs \ {r} : Keeps(s)
  BY <1>1 DEF Keeps, IsActive, IsTerminal
<1>. QED
  BY <1>2, <1>3, AllKept

LEMMA CreateStep ==
    ASSUME TypeOK, NEW r \in Runs, NEW t \in Threads, NEW source,
           createPromptRun(r, t, source)
    PROVE  RunsStep
<1>1. /\ run'[r].status = "pending" /\ run'[r].thread = t
      /\ \A s \in Runs \ {r} : run'[s] = run[s] /\ message'[s] = message[s]
  BY DEF createPromptRun, TypeOK, NoRun
<1>2. \A s \in Runs \ {r} : Keeps(s)
  BY <1>1 DEF createPromptRun, Keeps, IsActive, IsTerminal
<1>. QED
  BY <1>1, <1>2 DEF createPromptRun, Creates, RunsStep

LEMMA SubmissionStep ==
    ASSUME TypeOK, Submission
    PROVE  RunsStep
<1>1. CASE \E r \in Runs, t \in Threads : submitPrompt(r, t)
  BY <1>1, CreateStep DEF submitPrompt
<1>2. CASE \E r \in Runs, source \in Runs : retryRun(r, source)
  <2>1. PICK r \in Runs, source \in Runs : retryRun(r, source)
    BY <1>2
  <2>2. run[source].thread \in Threads
    BY <2>1, StatusFacts DEF retryRun, IsTerminal, TypeOK
  <2>. QED
    BY <2>1, <2>2, CreateStep DEF retryRun
<1>3. CASE \E k \in Stops, r \in Runs : requestStop(k, r)
  <2>1. PICK k \in Stops, r \in Runs : requestStop(k, r)
    BY <1>3
  <2>. DEFINE d == [run[r] EXCEPT !.status = "cancellation_requested"]
  <2>2. d.status \in ActiveStatus /\ d.thread = run[r].thread /\ IsActive(r)
    BY <2>1 DEF requestStop, TypeOK, RunRecord, ActiveStatus, IsActive
  <2>3. run' = [run EXCEPT ![r] = d]
    BY <2>1 DEF requestStop
  <2>. HIDE DEF d
  <2>. QED
    BY <2>1, <2>2, <2>3, OneRunKept DEF requestStop
<1>4. CASE \E t \in Threads : archive(t)
  BY <1>4, SameRunsKept DEF archive
<1>. QED
  BY <1>1, <1>2, <1>3, <1>4 DEF Submission

LEMMA DispatchedStep ==
    ASSUME TypeOK, DispatchStep
    PROVE  RunsStep
<1>1. CASE \E r \in Runs : getStartRequest(r) \/ markDispatching(r) \/ markDispatchFailure(r)
  BY <1>1, SameRunsKept DEF getStartRequest, markDispatching, markDispatchFailure
<1>2. CASE \E k \in Stops : getStopRequest(k) \/ markStopDispatching(k)
                            \/ markStopDispatchFailure(k)
  BY <1>2, SameRunsKept DEF getStopRequest, markStopDispatching, markStopDispatchFailure
<1>3. CASE \E k \in Commands : ActionDies(k)
  BY <1>3, SameRunsKept DEF ActionDies
<1>4. CASE \E r \in Runs : markDispatchAccepted(r)
  <2>1. PICK r \in Runs : markDispatchAccepted(r)
    BY <1>4
  <2>2. CASE run[r].status = "pending"
    <3>1. IsActive(r)
      BY <2>2 DEF IsActive, ActiveStatus
    <3>2. Started(r).status \in ActiveStatus /\ Started(r).thread = run[r].thread
      BY DEF Started, TypeOK, RunRecord, ActiveStatus
    <3>. QED
      BY <2>1, <2>2, <3>1, <3>2, OneRunKept DEF markDispatchAccepted
  <2>3. CASE run[r].status # "pending"
    BY <2>1, <2>3, SameRunsKept DEF markDispatchAccepted
  <2>. QED
    BY <2>2, <2>3
<1>. QED
  BY <1>1, <1>2, <1>3, <1>4 DEF DispatchStep

LEMMA BatchStep ==
    ASSUME TypeOK, NEW r \in Runs, NEW n, NEW kind \in Kinds, acceptBatch(r, n, kind)
    PROVE  RunsStep
<1>1. IsActive(r) /\ run[r] \in RunRecord
  BY ExpectedRunActive DEF acceptBatch, TypeOK
<1>2. \A s \in Runs \ {r} : stored'[s] = stored[s]
  BY DEF acceptBatch, TypeOK
<1>3. CASE kind = "output"
  <2>1. Streamed(r, n).status \in ActiveStatus /\ Streamed(r, n).thread = run[r].thread
    BY <1>1 DEF Streamed, Started, RunRecord, IsActive, ActiveStatus
  <2>2. run' = [run EXCEPT ![r] = Streamed(r, n)]
    BY <1>3 DEF acceptBatch, StoreOutput
  <2>3. \A s \in Runs \ {r} : message'[s] = message[s]
    BY <1>3 DEF acceptBatch, StoreOutput, TypeOK
  <2>. QED
    BY <1>1, <1>2, <2>1, <2>2, <2>3, OneRunKept
<1>4. CASE kind # "output"
  <2>1. kind \in TerminalStatus
    BY <1>4, StatusFacts
  <2>2. Settled(r, n, kind).status = kind /\ Settled(r, n, kind).thread = run[r].thread
    BY <1>1 DEF Settled, RunRecord
  <2>3. run' = [run EXCEPT ![r] = Settled(r, n, kind)]
    BY <1>4 DEF acceptBatch, StoreTerminal
  <2>4. \A s \in Runs \ {r} : message'[s] = message[s]
    BY <1>4 DEF acceptBatch, StoreTerminal, TypeOK
  <2>5. EndsWith(r, kind)
    BY <1>1, <2>2, <2>3 DEF EndsWith, TypeOK
  <2>6. \A s \in Runs \ {r} : Keeps(s)
    BY <1>2, <2>3, <2>4 DEF Keeps, IsActive, IsTerminal, TypeOK
  <2>7. Ends({r}, kind)
    BY <2>5, <2>6 DEF Ends
  <2>. QED
    BY <2>1, <2>7 DEF RunsStep
<1>. QED
  BY <1>3, <1>4

LEMMA ExecutionStep ==
    ASSUME TypeOK, Execution
    PROVE  RunsStep
<1>1. CASE \E k \in Commands, answer \in {"accepted", "refused"} : ExecutionAnswers(k, answer)
  BY <1>1, SameRunsKept DEF ExecutionAnswers
<1>2. CASE \E r \in Runs, n \in 1..MaxSequence, kind \in Kinds :
               Requested(r) /\ acceptBatch(r, n, kind)
  BY <1>2, BatchStep
<1>3. CASE \E r \in Runs : Requested(r) /\ renewHeartbeat(r)
  <2>1. PICK r \in Runs : renewHeartbeat(r)
    BY <1>3
  <2>. DEFINE d == [run[r] EXCEPT !.lease = "live"]
  <2>2. d.status \in ActiveStatus /\ d.thread = run[r].thread /\ IsActive(r)
    BY <2>1 DEF renewHeartbeat, TypeOK, RunRecord, ActiveStatus, IsActive
  <2>3. run' = [run EXCEPT ![r] = d]
    BY <2>1 DEF renewHeartbeat
  <2>. HIDE DEF d
  <2>. QED
    BY <2>1, <2>2, <2>3, OneRunKept DEF renewHeartbeat
<1>. QED
  BY <1>1, <1>2, <1>3 DEF Execution

LEMMA TimeStep ==
    ASSUME TypeOK, Time
    PROVE  RunsStep
<1>1. CASE \E r \in Runs : DispatchDeadlinePasses(r)
  <2>1. PICK r \in Runs : DispatchDeadlinePasses(r)
    BY <1>1
  <2>. DEFINE d == [run[r] EXCEPT !.deadline = "passed"]
  <2>2. d.status \in ActiveStatus /\ d.thread = run[r].thread /\ IsActive(r)
    BY <2>1 DEF DispatchDeadlinePasses, TypeOK, RunRecord, ActiveStatus, IsActive
  <2>3. run' = [run EXCEPT ![r] = d]
    BY <2>1 DEF DispatchDeadlinePasses
  <2>. HIDE DEF d
  <2>. QED
    BY <2>1, <2>2, <2>3, OneRunKept DEF DispatchDeadlinePasses
<1>2. CASE \E r \in Runs : LeaseRunsOut(r)
  <2>1. PICK r \in Runs : LeaseRunsOut(r)
    BY <1>2
  <2>. DEFINE d == [run[r] EXCEPT !.lease = "expired"]
  <2>2. d.status \in ActiveStatus /\ d.thread = run[r].thread /\ IsActive(r)
    BY <2>1 DEF LeaseRunsOut, TypeOK, RunRecord, IsActive
  <2>3. run' = [run EXCEPT ![r] = d]
    BY <2>1 DEF LeaseRunsOut
  <2>. HIDE DEF d
  <2>. QED
    BY <2>1, <2>2, <2>3, OneRunKept DEF LeaseRunsOut
<1>. QED
  BY <1>1, <1>2 DEF Time

LEMMA ReconcileStep ==
    ASSUME TypeOK, reconcileExpiredRuns
    PROVE  RunsStep
<1>1. PICK F \in SUBSET {r \in Runs : IsActive(r)} : Fails(F)
  BY ReconciledRuns
<1>2. \A r \in F : EndsWith(r, "failed")
  <2>. TAKE r \in F
  <2>1. run'[r] = [run[r] EXCEPT !.status = "failed", !.stream = "finalized"]
    BY <1>1 DEF Fails, FailedRuns
  <2>. QED
    BY <2>1 DEF EndsWith, TypeOK, RunRecord
<1>3. \A r \in Runs \ F : Keeps(r)
  BY <1>1 DEF Fails, FailedRuns, Keeps, IsActive, IsTerminal
<1>4. Ends(F, "failed") /\ "failed" \in TerminalStatus
  BY <1>2, <1>3 DEF Ends, TerminalStatus
<1>. QED
  BY <1>4 DEF RunsStep

LEMMA StepOfRuns ==
    ASSUME TypeOK, [Next]_runVars
    PROVE  RunsStep
<1>1. CASE \E r \in Runs : cleanupRunBatches(r)
  BY <1>1, SameRunsKept DEF cleanupRunBatches, TypeOK
<1>2. CASE UNCHANGED runVars
  BY <1>2, SameRunsKept DEF runVars
<1>. QED
  BY <1>1, <1>2, SubmissionStep, DispatchedStep, ExecutionStep, TimeStep, ReconcileStep
     DEF Next

-----------------------------------------------------------------------------
(* The safety theorems. *)

(* OneActiveRunPerThread: two active runs never share a thread (commands.ts,
   activeRunForThread). *)
THEOREM OneActiveRun == Spec => []OneActiveRunPerThread
<1>1. Init => OneActiveRunPerThread
  BY StatusFacts DEF Init, OneActiveRunPerThread, IsActive, NoRun
<1>2. TypeOK /\ OneActiveRunPerThread /\ [Next]_runVars => OneActiveRunPerThread'
  <2>. SUFFICES ASSUME TypeOK, OneActiveRunPerThread, RunsStep,
                       NEW r \in Runs, NEW s \in Runs,
                       IsActive(r)', IsActive(s)', run'[r].thread = run'[s].thread
                PROVE  r = s
    BY StepOfRuns DEF OneActiveRunPerThread
  <2>1. CASE \E c \in Runs, t \in Threads : Creates(c, t)
    <3>1. PICK c \in Runs, t \in Threads : Creates(c, t)
      BY <2>1
    <3>2. \A x \in Runs \ {c} : IsActive(x)' => IsActive(x) /\ run[x].thread # t
                                                /\ run'[x].thread = run[x].thread
      BY <3>1, StatusFacts DEF Creates, Keeps, activeRunForThread, RunsOf, IsActive
    <3>. QED
      BY <3>1, <3>2 DEF Creates, OneActiveRunPerThread
  <2>2. CASE \E F \in SUBSET Runs, o \in TerminalStatus : Ends(F, o)
    <3>1. \A x \in Runs : IsActive(x)' => IsActive(x) /\ run'[x].thread = run[x].thread
      BY <2>2, StatusFacts DEF Ends, EndsWith, Keeps, IsActive
    <3>. QED
      BY <3>1 DEF OneActiveRunPerThread
  <2>. QED
    BY <2>1, <2>2 DEF RunsStep
<1>. QED
  BY <1>1, <1>2, TypeCorrect, PTL DEF Spec

(* TerminalRunsNeverChange: nothing that arrives late touches a run that has
   ended, its message or its batches, but for their deletion. *)
THEOREM TerminalRunsStay == Spec => TerminalRunsNeverChange
<1>1. TypeOK /\ [Next]_runVars
        => [\A r \in Runs : IsTerminal(r) => /\ run'[r] = run[r]
                                             /\ message'[r] = message[r]
                                             /\ stored'[r] \subseteq stored[r]]_runVars
  <2>. SUFFICES ASSUME RunsStep, NEW r \in Runs, IsTerminal(r)
                PROVE  Keeps(r)
    BY StepOfRuns DEF Keeps
  <2>1. ~IsActive(r) /\ run[r].status # "absent"
    BY StatusFacts DEF IsTerminal, IsActive
  <2>. QED
    BY <2>1 DEF RunsStep, Creates, Ends, EndsWith
<1>. QED
  BY <1>1, TypeCorrect, PTL DEF Spec, TerminalRunsNeverChange

-----------------------------------------------------------------------------
(* The refinement of ThreadLedger. *)

Open == {<<run[r].thread, r>> : r \in {s \in Runs : IsActive(s)}}
Outcome == [r \in Runs |-> IF IsTerminal(r) THEN run[r].status ELSE None]

LEMMA LedgerInit == Init => Ledger!Init
<1>. SUFFICES ASSUME Init PROVE Ledger!Init
  OBVIOUS
<1>1. \A r \in Runs : ~IsActive(r) /\ ~IsTerminal(r)
  BY StatusFacts DEF Init, NoRun, IsActive, IsTerminal
<1>. QED
  BY <1>1 DEF Ledger!Init

LEMMA LedgerBegin ==
    ASSUME NEW r \in Runs, NEW t \in Threads, Creates(r, t)
    PROVE  Ledger!Begin(t, r)
<1>1. /\ ~IsActive(r) /\ ~IsTerminal(r) /\ IsActive(r)' /\ ~IsTerminal(r)'
      /\ run'[r].thread = t
  BY DEF Creates, IsActive, IsTerminal, ActiveStatus, TerminalStatus
<1>2. \A s \in Runs : IsActive(s) => s # r /\ run[s].thread # t
  BY <1>1, StatusFacts DEF Creates, activeRunForThread, RunsOf, IsActive
<1>3. Outcome[r] = None
  BY <1>1 DEF Outcome
<1>4. Open' = Open \cup {<<t, r>>}
  <2>1. \A s \in Runs \ {r} : run'[s].thread = run[s].thread /\ (IsActive(s)' <=> IsActive(s))
    BY DEF Creates, Keeps
  <2>2. Open' \subseteq Open \cup {<<t, r>>}
    BY <1>1, <2>1 DEF Open
  <2>3. Open \cup {<<t, r>>} \subseteq Open'
    BY <1>1, <2>1 DEF Open
  <2>. QED
    BY <2>2, <2>3
<1>5. Outcome' = Outcome
  <2>1. \A s \in Runs : (IF IsTerminal(s)' THEN run'[s].status ELSE None)
                        = (IF IsTerminal(s) THEN run[s].status ELSE None)
    BY <1>1 DEF Creates, Keeps
  <2>. QED
    BY <2>1, Zenon DEF Outcome
<1>. QED
  BY <1>2, <1>3, <1>4, <1>5 DEF Ledger!Begin, Open, Outcome

LEMMA LedgerEnd ==
    ASSUME NEW F \in SUBSET Runs, NEW o \in TerminalStatus, Ends(F, o)
    PROVE  [Ledger!Next]_(Ledger!ledgerVars)
<1>. DEFINE S == {<<run[r].thread, r>> : r \in F}
<1>1. \A r \in F : IsActive(r) /\ IsTerminal(r)' /\ ~IsActive(r)' /\ run'[r].status = o
                   /\ ~IsTerminal(r)
  BY StatusFacts DEF Ends, EndsWith, IsActive, IsTerminal
<1>2. \A r \in Runs \ F : /\ run'[r].thread = run[r].thread
                          /\ IsActive(r)' <=> IsActive(r)
                          /\ IsTerminal(r)' <=> IsTerminal(r)
                          /\ IsTerminal(r) => run'[r] = run[r]
  BY DEF Ends, Keeps
<1>3. Open' = Open \ S
  <2>1. Open' \subseteq Open \ S
    BY <1>1, <1>2 DEF Open
  <2>2. Open \ S \subseteq Open'
    BY <1>1, <1>2 DEF Open
  <2>. QED
    BY <2>1, <2>2
<1>4. \A r \in Runs : (IF IsTerminal(r)' THEN run'[r].status ELSE None)
                      = IF r \in F THEN o
                        ELSE IF IsTerminal(r) THEN run[r].status ELSE None
  BY <1>1, <1>2
<1>5. CASE F = {}
  <2>1. Open' = Open
    BY <1>3, <1>5
  <2>2. Outcome' = Outcome
    BY <1>4, <1>5, Zenon DEF Outcome
  <2>. QED
    BY <2>1, <2>2 DEF Ledger!ledgerVars, Open, Outcome
<1>6. CASE F # {}
  <2>1. S # {} /\ S \subseteq Open
    BY <1>1, <1>6 DEF Open
  <2>2. \A r \in Runs : (\E p \in S : p[2] = r) <=> r \in F
    <3>1. \A p \in S : p[2] \in F
      OBVIOUS
    <3>2. \A r \in F : <<run[r].thread, r>> \in S /\ <<run[r].thread, r>>[2] = r
      OBVIOUS
    <3>. HIDE DEF S
    <3>. QED
      BY <3>1, <3>2
  <2>3. Outcome' = [r \in Runs |-> IF \E p \in S : p[2] = r THEN o ELSE Outcome[r]]
    BY <1>4, <2>2, Zenon DEF Outcome
  <2>4. Ledger!End(S, o)
    BY <1>3, <2>1, <2>3 DEF Ledger!End, Open, Outcome
  <2>. QED
    BY <2>1, <2>4 DEF Ledger!Next, Open
<1>. QED
  BY <1>5, <1>6

(* ImplementsThreadLedger: which runs are open, and how they ended, evolves as
   ThreadLedger says, for any number of threads, runs and stops. *)
THEOREM LedgerRefinement == Spec => ImplementsThreadLedger
<1>1. TypeOK /\ [Next]_runVars => [Ledger!Next]_(Ledger!ledgerVars)
  <2>. SUFFICES ASSUME RunsStep PROVE [Ledger!Next]_(Ledger!ledgerVars)
    BY StepOfRuns
  <2>1. CASE \E r \in Runs, t \in Threads : Creates(r, t)
    BY <2>1, LedgerBegin DEF Ledger!Next
  <2>2. CASE \E F \in SUBSET Runs, o \in TerminalStatus : Ends(F, o)
    BY <2>2, LedgerEnd
  <2>. QED
    BY <2>1, <2>2 DEF RunsStep
<1>. QED
  BY <1>1, LedgerInit, TypeCorrect, PTL DEF Spec, ImplementsThreadLedger, Ledger!Spec

-----------------------------------------------------------------------------
(* Settlement *)

Linked ==
    /\ \A k \in Commands :
           /\ command[k].status # "absent" => command[k].run \in Runs
           /\ command[k].status # "absent" => run[command[k].run].status # "absent"
           /\ dispatch[k] # "none" => command[k].status # "absent"
    /\ \A r \in Runs :
           /\ command[r].status # "absent" => command[r].run = r
           /\ run[r].status # "absent" => command[r].status # "absent"

(* One run of SettledTogether. *)
RunSettled(r) ==
    /\ IsTerminal(r) <=> run[r].stream = "finalized"
    /\ IsTerminal(r) => message[r] = run[r].status
    /\ IsActive(r) => message[r] \in {"pending", "streaming"}
    /\ \A k \in Commands :
           command[k].status # "absent" /\ command[k].run = r =>
               IF IsTerminal(r) THEN command[k].status = run[r].status
               ELSE command[k].status \notin TerminalStatus
    /\ run[r].status \in {"running", "cancellation_requested"}
           => command[r].status = "running"

SettledInv ==
    /\ TypeOK
    /\ Linked
    /\ \A r \in Runs : RunSettled(r)

LEMMA SettledInvImplies == SettledInv => SettledTogether
BY DEF SettledInv, RunSettled, SettledTogether

LEMMA CommandFacts ==
    /\ Runs \subseteq Commands /\ Stops \subseteq Commands
    /\ "absent" \notin TerminalStatus
    /\ {"accepted", "dispatching", "running"} \cap (TerminalStatus \cup {"absent"}) = {}
BY DEF Commands, TerminalStatus

-----------------------------------------------------------------------------
(* How operations disturb the invariant. *)

(* Neither a status nor a message nor a command changes. *)
LEMMA QuietStep ==
    ASSUME SettledInv, TypeOK', UNCHANGED <<command, message>>,
           \A r \in Runs : /\ run'[r].status = run[r].status
                           /\ run'[r].stream = run[r].stream,
           \A k \in Commands : dispatch'[k] # "none" => dispatch[k] # "none"
    PROVE  SettledInv'
<1>1. Linked'
  BY DEF SettledInv, Linked
<1>2. \A r \in Runs : RunSettled(r)'
  BY DEF SettledInv, RunSettled, IsActive, IsTerminal
<1>. QED
  BY <1>1, <1>2 DEF SettledInv

(* An open command of a run that has not ended is marked. *)
LEMMA MarkStep ==
    ASSUME SettledInv, TypeOK', UNCHANGED <<run, message>>,
           NEW k \in Commands, NEW status \in {"accepted", "dispatching"},
           command' = [command EXCEPT ![k].status = status],
           command[k].status # "absent", ~IsTerminal(command[k].run),
           k \in Runs => run[k].status = "pending",
           \A j \in Commands : dispatch'[j] # "none" => dispatch[j] # "none"
    PROVE  SettledInv'
<1>1. \A j \in Commands : /\ command'[j].run = command[j].run
                          /\ j # k => command'[j] = command[j]
                          /\ command'[k].status = status
  BY DEF SettledInv, TypeOK, CommandRecord
<1>2. status \notin TerminalStatus /\ status # "absent"
  BY CommandFacts
<1>3. Linked'
  BY <1>1, <1>2, CommandFacts DEF SettledInv, Linked
<1>4. \A r \in Runs : RunSettled(r)'
  <2>. TAKE r \in Runs
  <2>1. \A j \in Commands :
            command'[j].status # "absent" /\ command'[j].run = r =>
                IF IsTerminal(r) THEN command'[j].status = run[r].status
                ELSE command'[j].status \notin TerminalStatus
    BY <1>1, <1>2 DEF SettledInv, RunSettled
  <2>2. run[r].status \in {"running", "cancellation_requested"}
            => command'[r].status = "running"
    BY <1>1, CommandFacts DEF SettledInv, RunSettled
  <2>. QED
    BY <2>1, <2>2 DEF SettledInv, RunSettled, IsActive, IsTerminal
<1>. QED
  BY <1>3, <1>4 DEF SettledInv

(* The active runs of F end with status o. *)
LEMMA SettleStep ==
    ASSUME SettledInv, TypeOK', NEW F \in SUBSET Runs, NEW o \in TerminalStatus,
           \A r \in F : IsActive(r),
           \A r \in F : /\ run'[r].status = o /\ run'[r].stream = "finalized"
                        /\ message'[r] = o,
           \A r \in Runs \ F : run'[r] = run[r] /\ message'[r] = message[r],
           command' = CommandsSettled(F, o),
           UNCHANGED dispatch
    PROVE  SettledInv'
<1>1. \A k \in Commands :
          /\ command'[k].run = command[k].run
          /\ command[k].status = "absent" <=> command'[k].status = "absent"
          /\ command'[k].status = IF command[k].status # "absent" /\ command[k].run \in F
                                  THEN o ELSE command[k].status
  BY StatusFacts DEF SettledInv, TypeOK, CommandRecord, CommandsSettled
<1>2. \A r \in Runs : run'[r].status = "absent" <=> run[r].status = "absent"
  BY StatusFacts DEF IsActive
<1>3. Linked'
  BY <1>1, <1>2, CommandFacts DEF SettledInv, Linked
<1>4. \A r \in F : RunSettled(r)'
  <2>. TAKE r \in F
  <2>1. IsTerminal(r)' /\ ~IsActive(r)'
        /\ run'[r].status \notin {"running", "cancellation_requested"}
    BY StatusFacts DEF IsTerminal, IsActive, TerminalStatus
  <2>2. \A k \in Commands : command'[k].status # "absent" /\ command'[k].run = r
                              => command'[k].status = run'[r].status
    BY <1>1
  <2>. QED
    BY <2>1, <2>2 DEF RunSettled
<1>5. \A r \in Runs \ F : RunSettled(r)'
  <2>. TAKE r \in Runs \ F
  <2>1. \A k \in Commands : command[k].status # "absent" /\ command[k].run = r
                              => command'[k].status = command[k].status
    BY <1>1
  <2>2. run[r].status \in {"running", "cancellation_requested"}
            => command'[r].status = "running"
    BY <2>1, CommandFacts DEF SettledInv, RunSettled, Linked
  <2>3. \A k \in Commands :
            command'[k].status # "absent" /\ command'[k].run = r =>
                IF IsTerminal(r) THEN command'[k].status = run[r].status
                ELSE command'[k].status \notin TerminalStatus
    BY <1>1, <2>1 DEF SettledInv, RunSettled
  <2>. QED
    BY <2>2, <2>3 DEF SettledInv, RunSettled, IsActive, IsTerminal
<1>. QED
  BY <1>3, <1>4, <1>5 DEF SettledInv

(* A pending run starts: markDispatchAccepted or the first batch. *)
LEMMA StartStep ==
    ASSUME SettledInv, TypeOK', NEW r \in Runs, run[r].status = "pending",
           run'[r].status = "running", run'[r].stream = run[r].stream,
           message'[r] \in {"pending", "streaming"},
           \A s \in Runs \ {r} : run'[s] = run[s] /\ message'[s] = message[s],
           command' = [command EXCEPT ![r].status = "running"],
           \A k \in Commands : dispatch'[k] # "none" => dispatch[k] # "none"
    PROVE  SettledInv'
<1>1. \A k \in Commands : /\ command'[k].run = command[k].run
                          /\ k # r => command'[k] = command[k]
                          /\ command'[r].status = "running"
  BY CommandFacts DEF SettledInv, TypeOK, CommandRecord
<1>2. command[r].status # "absent" /\ command[r].run = r /\ r \in Commands
  BY CommandFacts DEF SettledInv, Linked
<1>3. Linked'
  BY <1>1, <1>2, CommandFacts DEF SettledInv, Linked
<1>4. RunSettled(r)'
  <2>1. ~IsTerminal(r) /\ IsActive(r)' /\ ~IsTerminal(r)'
    BY DEF IsActive, IsTerminal, ActiveStatus, TerminalStatus
  <2>2. \A k \in Commands : command'[k].status # "absent" /\ command'[k].run = r
                              => command'[k].status \notin TerminalStatus
    BY <1>1, <1>2, <2>1, CommandFacts DEF SettledInv, RunSettled
  <2>3. run'[r].stream # "finalized" /\ command'[r].status = "running"
    BY <1>1, <1>2, <2>1 DEF SettledInv, RunSettled
  <2>. QED
    BY <2>1, <2>2, <2>3 DEF RunSettled
<1>5. \A s \in Runs \ {r} : RunSettled(s)'
  <2>. TAKE s \in Runs \ {r}
  <2>1. \A k \in Commands : command'[k].run = s => command'[k] = command[k]
    BY <1>1, <1>2
  <2>2. command'[s] = command[s]
    BY <1>1, CommandFacts
  <2>3. run'[s] = run[s] /\ message'[s] = message[s]
    OBVIOUS
  <2>4. RunSettled(s)
    BY DEF SettledInv
  <2>. QED
    BY <2>1, <2>2, <2>3, <2>4 DEF RunSettled, IsActive, IsTerminal
<1>. QED
  BY <1>3, <1>4, <1>5 DEF SettledInv

-----------------------------------------------------------------------------
(* The operations. *)

LEMMA CreateSettles ==
    ASSUME SettledInv, TypeOK', NEW r \in Runs, NEW t, NEW source,
           createPromptRun(r, t, source)
    PROVE  SettledInv'
<1>1. /\ run'[r].status = "pending" /\ run'[r].stream = "live"
      /\ message'[r] = "pending" /\ run[r].status = "absent"
      /\ \A s \in Runs \ {r} : run'[s] = run[s] /\ message'[s] = message[s]
  BY DEF createPromptRun, SettledInv, TypeOK, NoRun
<1>2. /\ command'[r].status = "accepted" /\ command'[r].run = r
      /\ \A k \in Commands \ {r} : command'[k] = command[k] /\ dispatch'[k] = dispatch[k]
  BY CommandFacts DEF createPromptRun, SettledInv, TypeOK
<1>3. \A k \in Commands \ {r} : command[k].status # "absent" => command[k].run # r
  BY <1>1 DEF SettledInv, Linked
<1>4. Linked'
  BY <1>1, <1>2, <1>3, CommandFacts DEF SettledInv, Linked
<1>5. RunSettled(r)'
  <2>1. IsActive(r)' /\ ~IsTerminal(r)'
    BY <1>1 DEF IsActive, IsTerminal, ActiveStatus, TerminalStatus
  <2>2. \A k \in Commands : command'[k].status # "absent" /\ command'[k].run = r
                              => command'[k].status \notin TerminalStatus
    BY <1>2, <1>3, CommandFacts
  <2>. QED
    BY <1>1, <2>1, <2>2 DEF RunSettled
<1>6. \A s \in Runs \ {r} : RunSettled(s)'
  <2>. TAKE s \in Runs \ {r}
  <2>1. \A k \in Commands : command'[k].run = s => command'[k] = command[k]
    BY <1>2
  <2>2. command'[s] = command[s]
    BY <1>2, CommandFacts
  <2>. QED
    BY <1>1, <2>1, <2>2 DEF SettledInv, RunSettled, IsActive, IsTerminal
<1>. QED
  BY <1>4, <1>5, <1>6 DEF SettledInv

LEMMA StopSettles ==
    ASSUME SettledInv, TypeOK', NEW k \in Stops, NEW r \in Runs, requestStop(k, r)
    PROVE  SettledInv'
<1>1. /\ run[r].status = "running" /\ run'[r].status = "cancellation_requested"
      /\ run'[r].stream = run[r].stream
      /\ \A s \in Runs \ {r} : run'[s] = run[s]
      /\ UNCHANGED message
  BY DEF requestStop, SettledInv, TypeOK, RunRecord
<1>2. /\ command'[k].status = "dispatching" /\ command'[k].run = r
      /\ \A j \in Commands \ {k} : command'[j] = command[j] /\ dispatch'[j] = dispatch[j]
      /\ k \notin Runs /\ k \in Commands
  BY CommandFacts, CommandIdsAssumption DEF requestStop, SettledInv, TypeOK
<1>3. Linked'
  BY <1>1, <1>2, CommandFacts DEF SettledInv, Linked
<1>4. \A s \in Runs : RunSettled(s)'
  <2>. TAKE s \in Runs
  <2>1. (IsActive(s)' <=> IsActive(s)) /\ (IsTerminal(s)' <=> IsTerminal(s))
        /\ (IsTerminal(s) => run'[s] = run[s]) /\ run'[s].stream = run[s].stream
        /\ ~IsTerminal(r)
    BY <1>1 DEF IsActive, IsTerminal, ActiveStatus, TerminalStatus
  <2>2. \A j \in Commands : j # k => command'[j] = command[j]
    BY <1>2
  <2>3. \A j \in Commands :
            command'[j].status # "absent" /\ command'[j].run = s =>
                IF IsTerminal(s)' THEN command'[j].status = run'[s].status
                ELSE command'[j].status \notin TerminalStatus
    BY <1>2, <2>1, <2>2, CommandFacts DEF SettledInv, RunSettled
  <2>4. run'[s].status \in {"running", "cancellation_requested"}
            => command'[s].status = "running"
    BY <1>1, <1>2, CommandFacts DEF SettledInv, RunSettled
  <2>. QED
    BY <1>1, <2>1, <2>3, <2>4 DEF SettledInv, RunSettled
<1>. QED
  BY <1>3, <1>4 DEF SettledInv

LEMMA SubmissionSettles ==
    ASSUME SettledInv, TypeOK', Submission
    PROVE  SettledInv'
<1>1. CASE \E t \in Threads : archive(t)
  BY <1>1, QuietStep DEF archive
<1>. QED
  BY <1>1, CreateSettles, StopSettles DEF Submission, submitPrompt, retryRun

LEMMA DispatchSettles ==
    ASSUME SettledInv, TypeOK', DispatchStep
    PROVE  SettledInv'
<1>1. CASE \E r \in Runs : getStartRequest(r)
  BY <1>1, QuietStep, CommandFacts DEF getStartRequest, SettledInv, TypeOK
<1>2. CASE \E r \in Runs : markDispatching(r)
  <2>1. PICK r \in Runs : markDispatching(r)
    BY <1>2
  <2>2. \A j \in Commands : dispatch'[j] # "none" => dispatch[j] # "none"
    BY <2>1, CommandFacts DEF markDispatching, SettledInv, TypeOK
  <2>3. CASE run[r].status = "pending"
    <3>1. command[r].status # "absent" /\ command[r].run = r /\ ~IsTerminal(r)
      BY <2>3 DEF SettledInv, Linked, IsTerminal, TerminalStatus
    <3>. QED
      BY <2>1, <2>2, <2>3, <3>1, MarkStep, CommandFacts DEF markDispatching
  <2>4. CASE run[r].status # "pending"
    BY <2>1, <2>2, <2>4, QuietStep DEF markDispatching
  <2>. QED
    BY <2>3, <2>4
<1>3. CASE \E r \in Runs : markDispatchAccepted(r)
  <2>1. PICK r \in Runs : markDispatchAccepted(r)
    BY <1>3
  <2>2. \A j \in Commands : dispatch'[j] # "none" => dispatch[j] # "none"
    BY <2>1, CommandFacts DEF markDispatchAccepted, SettledInv, TypeOK
  <2>3. CASE run[r].status = "pending"
    <3>1. /\ run'[r].status = "running" /\ run'[r].stream = run[r].stream
          /\ \A s \in Runs \ {r} : run'[s] = run[s]
      <4>1. run[r] \in RunRecord /\ run' = [run EXCEPT ![r] = Started(r)]
        BY <2>1, <2>3 DEF markDispatchAccepted, SettledInv, TypeOK
      <4>2. Started(r).status = "running" /\ Started(r).stream = run[r].stream
        BY <4>1 DEF Started, RunRecord
      <4>. QED
        BY <4>1, <4>2 DEF SettledInv, TypeOK
    <3>2. message[r] \in {"pending", "streaming"}
      BY <2>3 DEF SettledInv, RunSettled, IsActive, ActiveStatus
    <3>. QED
      BY <2>1, <2>2, <2>3, <3>1, <3>2, StartStep DEF markDispatchAccepted
  <2>4. CASE run[r].status # "pending"
    BY <2>1, <2>2, <2>4, QuietStep DEF markDispatchAccepted
  <2>. QED
    BY <2>3, <2>4
<1>4. CASE \E r \in Runs : markDispatchFailure(r)
  <2>1. PICK r \in Runs : markDispatchFailure(r)
    BY <1>4
  <2>2. \A j \in Commands : dispatch'[j] # "none" => dispatch[j] # "none"
    BY <2>1, CommandFacts DEF markDispatchFailure, SettledInv, TypeOK
  <2>3. CASE run[r].status = "pending"
    <3>1. command[r].status # "absent" /\ command[r].run = r /\ ~IsTerminal(r)
      BY <2>3 DEF SettledInv, Linked, IsTerminal, TerminalStatus
    <3>. QED
      BY <2>1, <2>2, <2>3, <3>1, MarkStep, CommandFacts DEF markDispatchFailure
  <2>4. CASE run[r].status # "pending"
    BY <2>1, <2>2, <2>4, QuietStep DEF markDispatchFailure
  <2>. QED
    BY <2>3, <2>4
<1>5. CASE \E k \in Stops : getStopRequest(k)
  BY <1>5, QuietStep, CommandFacts DEF getStopRequest, SettledInv, TypeOK
<1>6. CASE \E k \in Stops : markStopDispatching(k) \/ markStopDispatchFailure(k)
  <2>1. PICK k \in Stops : markStopDispatching(k) \/ markStopDispatchFailure(k)
    BY <1>6
  <2>2. /\ \A j \in Commands : dispatch'[j] # "none" => dispatch[j] # "none"
        /\ dispatch[k] # "none"
        /\ UNCHANGED <<run, message>>
    BY <2>1, CommandFacts DEF markStopDispatching, markStopDispatchFailure, SettledInv, TypeOK
  <2>3. CASE StopRequested(k)
    <3>1. command[k].status # "absent" /\ k \notin Runs
      BY <2>2, CommandFacts, CommandIdsAssumption DEF SettledInv, Linked
    <3>2. ~IsTerminal(command[k].run)
      BY <2>3 DEF StopRequested, IsTerminal, TerminalStatus
    <3>3. PICK status \in {"accepted", "dispatching"} :
              command' = [command EXCEPT ![k].status = status]
      BY <2>1, <2>3 DEF markStopDispatching, markStopDispatchFailure
    <3>. QED
      BY <2>2, <3>1, <3>2, <3>3, MarkStep, CommandFacts
  <2>4. CASE ~StopRequested(k)
    BY <2>1, <2>2, <2>4, QuietStep DEF markStopDispatching, markStopDispatchFailure
  <2>. QED
    BY <2>3, <2>4
<1>7. CASE \E k \in Commands : ActionDies(k)
  BY <1>7, QuietStep DEF ActionDies, SettledInv, TypeOK
<1>. QED
  BY <1>1, <1>2, <1>3, <1>4, <1>5, <1>6, <1>7 DEF DispatchStep

LEMMA BatchSettles ==
    ASSUME SettledInv, TypeOK', NEW r \in Runs, NEW n, NEW kind \in Kinds,
           acceptBatch(r, n, kind)
    PROVE  SettledInv'
<1>1. IsActive(r) /\ run[r] \in RunRecord /\ UNCHANGED dispatch
  BY ExpectedRunActive DEF acceptBatch, SettledInv, TypeOK
<1>2. CASE kind = "output"
  <2>1. run' = [run EXCEPT ![r] = Streamed(r, n)]
        /\ \A s \in Runs \ {r} : run'[s] = run[s] /\ message'[s] = message[s]
    BY <1>2 DEF acceptBatch, StoreOutput, SettledInv, TypeOK
  <2>2. message[r] \in {"pending", "streaming"} /\ message'[r] \in {"pending", "streaming"}
        /\ message'[r] = "streaming"
    BY <1>1, <1>2 DEF acceptBatch, StoreOutput, SettledInv, RunSettled, TypeOK
  <2>3. CASE run[r].status = "pending"
    <3>1. run'[r].status = "running" /\ run'[r].stream = run[r].stream
      BY <1>1, <2>1, <2>3 DEF Streamed, Started, SettledInv, TypeOK, RunRecord
    <3>. QED
      BY <1>1, <1>2, <2>1, <2>2, <2>3, <3>1, StartStep DEF acceptBatch, StoreOutput
  <2>4. CASE run[r].status # "pending"
    <3>1. run'[r].status = run[r].status /\ run'[r].stream = run[r].stream /\ UNCHANGED command
      BY <1>1, <1>2, <2>1, <2>4 DEF Streamed, acceptBatch, StoreOutput, SettledInv, TypeOK,
         RunRecord
    <3>2. Linked'
      BY <1>1, <2>1, <3>1 DEF SettledInv, Linked
    <3>3. ~IsTerminal(r)
      BY <1>1, StatusFacts DEF IsActive, IsTerminal
    <3>4. \A s \in Runs : RunSettled(s)'
      BY <1>1, <2>1, <2>2, <3>1, <3>3 DEF SettledInv, RunSettled, IsActive, IsTerminal
    <3>. QED
      BY <3>2, <3>4 DEF SettledInv
  <2>. QED
    BY <2>3, <2>4
<1>3. CASE kind # "output"
  <2>1. kind \in TerminalStatus
    BY <1>3, StatusFacts
  <2>2. run'[r].status = kind /\ run'[r].stream = "finalized" /\ message'[r] = kind
    <3>1. Settled(r, n, kind).status = kind /\ Settled(r, n, kind).stream = "finalized"
      BY <1>1 DEF Settled, RunRecord
    <3>. QED
      BY <1>3, <3>1 DEF acceptBatch, StoreTerminal, SettledInv, TypeOK
  <2>3. \A s \in Runs \ {r} : run'[s] = run[s] /\ message'[s] = message[s]
    BY <1>3 DEF acceptBatch, StoreTerminal, SettledInv, TypeOK
  <2>4. command' = CommandsSettled({r}, kind)
    BY <1>3 DEF acceptBatch, StoreTerminal
  <2>. QED
    BY <1>1, <2>1, <2>2, <2>3, <2>4, SettleStep
<1>. QED
  BY <1>2, <1>3

LEMMA ExecutionSettles ==
    ASSUME SettledInv, TypeOK', Execution
    PROVE  SettledInv'
<1>1. CASE \E k \in Commands, answer \in {"accepted", "refused"} : ExecutionAnswers(k, answer)
  BY <1>1, QuietStep DEF ExecutionAnswers, SettledInv, TypeOK
<1>2. CASE \E r \in Runs, n \in 1..MaxSequence, kind \in Kinds :
               Requested(r) /\ acceptBatch(r, n, kind)
  BY <1>2, BatchSettles
<1>3. CASE \E r \in Runs : Requested(r) /\ renewHeartbeat(r)
  <2>1. \A r \in Runs : run'[r].status = run[r].status /\ run'[r].stream = run[r].stream
    BY <1>3 DEF renewHeartbeat, SettledInv, TypeOK, RunRecord
  <2>. QED
    BY <1>3, <2>1, QuietStep DEF renewHeartbeat
<1>. QED
  BY <1>1, <1>2, <1>3 DEF Execution

LEMMA TimeSettles ==
    ASSUME SettledInv, TypeOK', Time
    PROVE  SettledInv'
<1>1. \A r \in Runs : run'[r].status = run[r].status /\ run'[r].stream = run[r].stream
  BY DEF Time, DispatchDeadlinePasses, LeaseRunsOut, SettledInv, TypeOK, RunRecord
<1>2. UNCHANGED <<command, message, dispatch>>
  BY DEF Time, DispatchDeadlinePasses, LeaseRunsOut
<1>. QED
  BY <1>1, <1>2, QuietStep

LEMMA ReconcileSettles ==
    ASSUME SettledInv, TypeOK', reconcileExpiredRuns
    PROVE  SettledInv'
<1>1. PICK F \in SUBSET {r \in Runs : IsActive(r)} : Fails(F)
  BY ReconciledRuns
<1>2. \A r \in F : /\ run'[r].status = "failed" /\ run'[r].stream = "finalized"
                   /\ message'[r] = "failed"
  <2>. TAKE r \in F
  <2>1. run'[r] = [run[r] EXCEPT !.status = "failed", !.stream = "finalized"]
    BY <1>1 DEF Fails, FailedRuns
  <2>2. message'[r] = "failed"
    BY <1>1 DEF Fails
  <2>. QED
    BY <2>1, <2>2 DEF SettledInv, TypeOK, RunRecord
<1>3. \A r \in Runs \ F : run'[r] = run[r] /\ message'[r] = message[r]
  BY <1>1 DEF Fails, FailedRuns
<1>4. "failed" \in TerminalStatus
  BY DEF TerminalStatus
<1>. QED
  BY <1>1, <1>2, <1>3, <1>4, SettleStep DEF Fails

LEMMA InitSettled == Init => SettledInv
<1>. SUFFICES ASSUME Init PROVE SettledInv
  OBVIOUS
<1>1. Linked
  BY CommandFacts DEF Init, Linked, NoRun, NoCommand
<1>2. \A r \in Runs : RunSettled(r)
  BY CommandFacts, StatusFacts
     DEF Init, RunSettled, NoRun, NoCommand, IsActive, IsTerminal, ActiveStatus
<1>. QED
  BY <1>1, <1>2, InitTyped DEF SettledInv

LEMMA SettledInductive == SettledInv /\ TypeOK' /\ [Next]_runVars => SettledInv'
<1>. SUFFICES ASSUME SettledInv, TypeOK', [Next]_runVars PROVE SettledInv'
  OBVIOUS
<1>1. CASE \E r \in Runs : cleanupRunBatches(r)
  BY <1>1, QuietStep DEF cleanupRunBatches
<1>2. CASE UNCHANGED runVars
  BY <1>2, QuietStep DEF runVars
<1>. QED
  BY <1>1, <1>2, SubmissionSettles, DispatchSettles, ExecutionSettles, TimeSettles,
     ReconcileSettles DEF Next

(* SettledTogether: whichever of a terminal batch, a passed deadline and an
   expired lease ends a run, its message and all its commands end with it and
   with the same status, and not before (results.ts, updateCommandsForRun). *)
THEOREM RunsSettleTogether == Spec => []SettledTogether
<1>1. TypeOK /\ SettledInv /\ [Next]_runVars /\ TypeOK' => SettledInv'
  BY SettledInductive
<1>. QED
  BY <1>1, InitSettled, SettledInvImplies, TypeCorrect, PTL DEF Spec

-----------------------------------------------------------------------------
(* The stored stream *)

(* The batches of a run: numbered without a hole while it has not ended, and
   a terminal one only where it ended the run. *)
StreamOf(r) ==
    /\ run[r].status \in {"absent", "pending"} => run[r].last = 0
    /\ ~IsTerminal(r) => /\ {b[1] : b \in stored[r]} = 1..run[r].last
                         /\ IsFiniteSet(stored[r])
                         /\ Cardinality(stored[r]) = run[r].last
    /\ \A b \in stored[r] :
           b[2] # "output" => b[1] = run[r].last /\ run[r].status = b[2]

(* The step adds no batch to the run, and revives none that ended. *)
StreamStays(r) ==
    /\ run'[r].last = run[r].last
    /\ IsTerminal(r) => run'[r].status = run[r].status /\ stored'[r] \subseteq stored[r]
    /\ ~IsTerminal(r) => stored'[r] = stored[r]
    /\ run'[r].status \in {"absent", "pending"} => run[r].status \in {"absent", "pending"}

LEMMA StreamStaysContiguous ==
    ASSUME TypeOK, NEW r \in Runs, StreamOf(r), StreamStays(r)
    PROVE  StreamOf(r)'
<1>1. \A b \in stored[r] : b[2] # "output" => IsTerminal(r)
  BY DEF StreamOf, IsTerminal, TypeOK, Kinds
<1>2. stored'[r] \subseteq stored[r]
  BY DEF StreamStays
<1>3. \A b \in stored'[r] :
          b[2] # "output" => b[1] = run'[r].last /\ run'[r].status = b[2]
  BY <1>1, <1>2 DEF StreamOf, StreamStays
<1>4. ~IsTerminal(r)' => ~IsTerminal(r)
  BY DEF StreamStays, IsTerminal
<1>. QED
  BY <1>3, <1>4 DEF StreamOf, StreamStays

(* Most operations leave every stored batch and every last sequence alone. *)
LEMMA SameStreams ==
    ASSUME TypeOK, \A r \in Runs : StreamOf(r), RunsStep, UNCHANGED stored,
           \A r \in Runs :
               /\ run'[r].last = run[r].last
               /\ run'[r].status = "pending" => run[r].status \in {"absent", "pending"}
    PROVE  \A r \in Runs : StreamOf(r)'
<1>. TAKE r \in Runs
<1>1. run[r].status \in {"absent"} \cup ActiveStatus \cup TerminalStatus
  BY DEF TypeOK, RunRecord, RunStatus
<1>2. Keeps(r) \/ IsActive(r) \/ run[r].status = "absent"
  BY DEF RunsStep, Creates, Ends, EndsWith
<1>3. IsTerminal(r) => run'[r] = run[r]
  BY <1>2, StatusFacts DEF Keeps, IsTerminal, IsActive
<1>4. run'[r].status = "absent" => run[r].status = "absent"
  BY <1>1, <1>3, StatusFacts DEF RunsStep, Creates, Ends, EndsWith, Keeps, IsTerminal, IsActive
<1>5. StreamStays(r)
  BY <1>3, <1>4 DEF StreamStays
<1>. QED
  BY <1>5, StreamStaysContiguous

LEMMA CreateStreams ==
    ASSUME TypeOK, \A r \in Runs : StreamOf(r), NEW c \in Runs, NEW t, NEW source,
           createPromptRun(c, t, source)
    PROVE  \A r \in Runs : StreamOf(r)'
<1>1. run'[c].last = 0 /\ run'[c].status = "pending" /\ run[c].status = "absent"
      /\ UNCHANGED stored /\ \A r \in Runs \ {c} : run'[r] = run[r]
  BY DEF createPromptRun, TypeOK, NoRun
<1>2. run[c].last = 0 /\ ~IsTerminal(c)
  BY <1>1, StatusFacts DEF StreamOf, IsTerminal
<1>3. \A r \in Runs : StreamStays(r)
  BY <1>1, <1>2 DEF StreamStays
<1>. QED
  BY <1>3, StreamStaysContiguous

LEMMA SubmissionStreams ==
    ASSUME TypeOK, \A r \in Runs : StreamOf(r), Submission
    PROVE  \A r \in Runs : StreamOf(r)'
<1>1. CASE \E k \in Stops, r \in Runs : requestStop(k, r)
  <2>1. \A r \in Runs : /\ run'[r].last = run[r].last
                        /\ run'[r].status = "pending" => run[r].status = "pending"
    BY <1>1 DEF requestStop, TypeOK, RunRecord
  <2>. QED
    BY <1>1, <2>1, SubmissionStep, SameStreams DEF requestStop
<1>2. CASE \E t \in Threads : archive(t)
  BY <1>2, SubmissionStep, SameStreams DEF archive
<1>. QED
  BY <1>1, <1>2, CreateStreams DEF Submission, submitPrompt, retryRun

LEMMA DispatchStreams ==
    ASSUME TypeOK, \A r \in Runs : StreamOf(r), DispatchStep
    PROVE  \A r \in Runs : StreamOf(r)'
<1>1. \A r \in Runs : /\ run'[r].last = run[r].last
                      /\ run'[r].status = "pending" => run[r].status = "pending"
  <2>1. CASE \E r \in Runs : markDispatchAccepted(r)
    <3>1. PICK r \in Runs : markDispatchAccepted(r)
      BY <2>1
    <3>2. Started(r).last = run[r].last
      BY DEF Started, TypeOK, RunRecord
    <3>3. Started(r).status = "running"
      BY DEF Started, TypeOK, RunRecord
    <3>4. run' = run \/ run' = [run EXCEPT ![r] = Started(r)]
      BY <3>1 DEF markDispatchAccepted
    <3>. QED
      BY <3>2, <3>3, <3>4 DEF TypeOK
  <2>. QED
    BY <2>1 DEF DispatchStep, getStartRequest, markDispatching, markDispatchFailure,
       getStopRequest, markStopDispatching, markStopDispatchFailure, ActionDies
<1>2. UNCHANGED stored
  BY DEF DispatchStep, getStartRequest, markDispatching, markDispatchAccepted,
     markDispatchFailure, getStopRequest, markStopDispatching, markStopDispatchFailure,
     ActionDies
<1>. QED
  BY <1>1, <1>2, DispatchedStep, SameStreams

LEMMA NumbersWith ==
    ASSUME NEW S, NEW n, NEW kind
    PROVE  {b[1] : b \in S \cup {<<n, kind>>}} = {b[1] : b \in S} \cup {n}
<1>1. \A b \in S \cup {<<n, kind>>} : b[1] \in {a[1] : a \in S} \cup {n}
  OBVIOUS
<1>2. \A b \in S : b[1] \in {a[1] : a \in S \cup {<<n, kind>>}}
  OBVIOUS
<1>3. n \in {b[1] : b \in S \cup {<<n, kind>>}}
  <2>1. <<n, kind>> \in S \cup {<<n, kind>>} /\ <<n, kind>>[1] = n
    OBVIOUS
  <2>. QED
    BY <2>1
<1>. QED
  BY <1>1, <1>2, <1>3

(* The batch a run expects is the one after its last, and none has its number. *)
LEMMA BatchStreams ==
    ASSUME TypeOK, \A r \in Runs : StreamOf(r), NEW c \in Runs, NEW n \in Nat,
           NEW kind \in Kinds, acceptBatch(c, n, kind)
    PROVE  \A r \in Runs : StreamOf(r)'
<1>1. /\ IsActive(c) /\ ~IsTerminal(c) /\ run[c] \in RunRecord /\ run[c].last \in Nat
      /\ n = run[c].last + 1
      /\ <<n, kind>> \notin stored[c]
  BY ExpectedRunActive, StatusFacts
     DEF acceptBatch, Expects, Known, TypeOK, RunRecord, IsActive, IsTerminal
<1>2. stored'[c] = stored[c] \cup {<<n, kind>>} /\ \A r \in Runs \ {c} : stored'[r] = stored[r]
  BY DEF acceptBatch, TypeOK
<1>3. /\ run'[c].last = n
      /\ run'[c].status = IF kind = "output"
                          THEN IF run[c].status = "pending" THEN "running" ELSE run[c].status
                          ELSE kind
      /\ \A r \in Runs \ {c} : run'[r] = run[r]
  <2>1. CASE kind = "output"
    <3>1. run' = [run EXCEPT ![c] = Streamed(c, n)]
      BY <2>1 DEF acceptBatch, StoreOutput
    <3>2. Streamed(c, n).last = n
      <4>1. Started(c) \in RunRecord
        BY <1>1, StartedWellFormed DEF WellFormed
      <4>. QED
        BY <1>1, <4>1 DEF Streamed, RunRecord
    <3>3. Streamed(c, n).status = IF run[c].status = "pending" THEN "running"
                                  ELSE run[c].status
      <4>1. Started(c) \in RunRecord /\ Started(c).status = "running"
        BY <1>1, StartedWellFormed DEF WellFormed, Started, RunRecord
      <4>. QED
        BY <1>1, <4>1 DEF Streamed, RunRecord
    <3>. QED
      BY <2>1, <3>1, <3>2, <3>3 DEF TypeOK
  <2>2. CASE kind # "output"
    <3>1. Settled(c, n, kind).last = n /\ Settled(c, n, kind).status = kind
      BY <1>1 DEF Settled, RunRecord
    <3>2. run' = [run EXCEPT ![c] = Settled(c, n, kind)]
      BY <2>2 DEF acceptBatch, StoreTerminal
    <3>. QED
      BY <2>2, <3>1, <3>2 DEF TypeOK
  <2>. QED
    BY <2>1, <2>2
<1>4. \A r \in Runs \ {c} : StreamOf(r)'
  BY <1>2, <1>3 DEF StreamOf, IsTerminal
<1>5. StreamOf(c)'
  <2>1. \A b \in stored[c] : b[2] = "output"
    BY <1>1 DEF StreamOf, IsTerminal, TypeOK, Kinds
  <2>2. \A b \in stored'[c] :
            b[2] # "output" => b[1] = run'[c].last /\ run'[c].status = b[2]
    BY <1>2, <1>3, <2>1
  <2>3. run'[c].status \notin {"absent", "pending"}
    BY <1>1, <1>3, StatusFacts DEF IsActive, TerminalStatus, ActiveStatus, Kinds
  <2>4. {b[1] : b \in stored[c]} = 1..run[c].last /\ IsFiniteSet(stored[c])
        /\ Cardinality(stored[c]) = run[c].last
    BY <1>1 DEF StreamOf
  <2>5. {b[1] : b \in stored'[c]} = {b[1] : b \in stored[c]} \cup {n}
    <3>. DEFINE S == stored[c]
    <3>1. stored'[c] = S \cup {<<n, kind>>}
      BY <1>2
    <3>. HIDE DEF S
    <3>2. {b[1] : b \in S \cup {<<n, kind>>}} = {b[1] : b \in S} \cup {n}
      BY NumbersWith
    <3>. QED
      BY <3>1, <3>2 DEF S
  <2>6. 1..n = 1..run[c].last \cup {n}
    BY <1>1
  <2>7. IsFiniteSet(stored'[c]) /\ Cardinality(stored'[c]) = Cardinality(stored[c]) + 1
    <3>. DEFINE S == stored[c]
                b == <<n, kind>>
    <3>1. b \notin S /\ IsFiniteSet(S) /\ stored'[c] = S \cup {b}
      BY <1>1, <1>2, <2>4
    <3>. HIDE DEF S, b
    <3>2. IsFiniteSet(S \cup {b}) /\ Cardinality(S \cup {b}) = Cardinality(S) + 1
      BY <3>1, FS_AddElement
    <3>. QED
      BY <3>1, <3>2 DEF S
  <2>. QED
    BY <1>1, <1>3, <2>2, <2>3, <2>4, <2>5, <2>6, <2>7 DEF StreamOf
<1>. QED
  BY <1>4, <1>5

LEMMA StreamInductive ==
    ASSUME TypeOK, \A r \in Runs : StreamOf(r), [Next]_runVars
    PROVE  \A r \in Runs : StreamOf(r)'
<1>1. CASE Execution
  <2>1. CASE \E k \in Commands, answer \in {"accepted", "refused"} : ExecutionAnswers(k, answer)
    BY <1>1, <2>1, ExecutionStep, SameStreams DEF ExecutionAnswers
  <2>2. CASE \E r \in Runs, n \in 1..MaxSequence, kind \in Kinds :
                 Requested(r) /\ acceptBatch(r, n, kind)
    BY <2>2, BatchStreams, SizesAssumption
  <2>3. CASE \E r \in Runs : Requested(r) /\ renewHeartbeat(r)
    <3>1. \A r \in Runs : run'[r].last = run[r].last /\ run'[r].status = run[r].status
      BY <2>3 DEF renewHeartbeat, TypeOK, RunRecord
    <3>2. UNCHANGED stored
      BY <2>3 DEF renewHeartbeat
    <3>. QED
      BY <1>1, <3>1, <3>2, ExecutionStep, SameStreams
  <2>. QED
    BY <1>1, <2>1, <2>2, <2>3 DEF Execution
<1>2. CASE Time
  <2>1. \A r \in Runs : run'[r].last = run[r].last /\ run'[r].status = run[r].status
    BY <1>2 DEF Time, DispatchDeadlinePasses, LeaseRunsOut, TypeOK, RunRecord
  <2>2. UNCHANGED stored
    BY <1>2 DEF Time, DispatchDeadlinePasses, LeaseRunsOut
  <2>. QED
    BY <1>2, <2>1, <2>2, TimeStep, SameStreams
<1>3. CASE reconcileExpiredRuns
  <2>1. PICK F \in SUBSET {r \in Runs : IsActive(r)} : Fails(F)
    BY <1>3, ReconciledRuns
  <2>2. \A r \in Runs : /\ run'[r].last = run[r].last
                        /\ run'[r].status = "pending" => run[r].status = "pending"
    <3>. TAKE r \in Runs
    <3>1. run'[r] = IF r \in F
                    THEN [run[r] EXCEPT !.status = "failed", !.stream = "finalized"]
                    ELSE run[r]
      BY <2>1 DEF Fails, FailedRuns
    <3>. QED
      BY <3>1 DEF TypeOK, RunRecord
  <2>. QED
    BY <1>3, <2>1, <2>2, ReconcileStep, SameStreams DEF Fails
<1>4. CASE \E r \in Runs : cleanupRunBatches(r)
  <2>1. \A r \in Runs : StreamStays(r)
    BY <1>4 DEF cleanupRunBatches, StreamStays, TypeOK
  <2>. QED
    BY <2>1, StreamStaysContiguous
<1>5. CASE UNCHANGED runVars
  BY <1>5 DEF runVars, StreamOf, IsTerminal
<1>. QED
  BY <1>1, <1>2, <1>3, <1>4, <1>5, SubmissionStreams, DispatchStreams DEF Next

LEMMA InitStreams ==
    ASSUME Init
    PROVE  \A r \in Runs : StreamOf(r)
<1>. TAKE r \in Runs
<1>1. run[r].last = 0 /\ run[r].status = "absent" /\ stored[r] = {}
  BY DEF Init, NoRun
<1>2. IsFiniteSet({}) /\ Cardinality({}) = 0
  BY FS_EmptySet
<1>3. 1..0 = {}
  OBVIOUS
<1>. QED
  BY <1>1, <1>2, <1>3 DEF StreamOf

(* StreamIsContiguous: however batches are repeated, delayed or reordered, what
   is stored of a run that has not ended has no hole and no repetition, and a
   terminal batch is stored only as the last, where it ended the run
   (results.ts, acceptBatch). *)
THEOREM StreamContiguous == Spec => []StreamIsContiguous
<1>. DEFINE Streams == \A r \in Runs : StreamOf(r)
<1>1. Init => Streams
  BY InitStreams
<1>2. TypeOK /\ Streams /\ [Next]_runVars => Streams'
  BY StreamInductive
<1>3. Streams => StreamIsContiguous
  BY StatusFacts DEF StreamOf, StreamIsContiguous, IsActive, IsTerminal
<1>. HIDE DEF Streams
<1>. QED
  BY <1>1, <1>2, <1>3, TypeCorrect, PTL DEF Spec

-----------------------------------------------------------------------------
(* The execution service *)

Ops == {"text", "tool", "flush", "completed", "error", "canceled", "restarting"}

Publisher ==
    [seq : Nat \ {0}, queue : Seq(Ops), sending : Kinds \cup {"none"},
     flushing : BOOLEAN, tries : Nat, buffered : BOOLEAN, broken : BOOLEAN,
     stopped : BOOLEAN, terminal : TerminalStatus \cup {"none"}]

Job ==
    [state : {"none", "reserved", "running", "terminal", "gone"}, closing : BOOLEAN,
     executor : {"idle", "executing", "finishing"}, emitted : Nat,
     context : SUBSET Runs]

Session == [held : BOOLEAN, knows : SUBSET Runs, ran : SUBSET Runs]

ServiceTyped ==
    /\ job \in [Runs -> Job]
    /\ pub \in [Runs -> Publisher]
    /\ session \in [Threads -> Session]
    /\ late \subseteq Runs \X Nat \X Kinds
    /\ faults \in Nat

(* The operations of a chain that send a batch of output of their own. *)
Outputs(q) == \E i \in DOMAIN q : q[i] \in {"text", "tool"}

OneOfExecutor(q) ==
    \A i, j \in DOMAIN q : q[i] \in ExecutorOps /\ q[j] \in ExecutorOps => i = j

(* Batches of output that were sent or still can be, without what the executor
   has yet to emit. *)
Owed(p) ==
    (p.seq - 1) + (IF p.buffered THEN 1 ELSE 0) + (IF Outputs(p.queue) THEN 1 ELSE 0)
    + (IF p.flushing \/ (p.sending # "none" /\ Head(p.queue) = "flush") THEN 1 ELSE 0)

(* A publisher whose executor has emitted that many events. *)
Publishes(p, emitted) ==
    /\ p \in Publisher
    /\ p.sending # "none" =>
           /\ p.queue # << >> /\ p.terminal = "none"
           /\ p.sending = IF p.flushing THEN "output" ELSE KindOf(Head(p.queue))
    /\ p.flushing => p.sending # "none" /\ Head(p.queue) \notin {"text", "flush"}
    /\ p.terminal = "none" => OneOfExecutor(p.queue) /\ Owed(p) <= emitted

(* Convex has the batch, or a request with it may be on the way. *)
WasSent(r, n, kind) == <<n, kind>> \in stored[r] \/ <<r, n, kind>> \in late

RunWorks(r) ==
    /\ Publishes(pub[r], job[r].emitted)
    /\ job[r].emitted < MaxSequence
    /\ ~Registered(r) => pub[r] = NoPublisher
    /\ job[r].executor # "idle" => job[r].state = "running"
    /\ job[r].state # "none" => Requested(r)
    /\ job[r].state \in {"running", "terminal"} => dispatch[r] # "calling"
    /\ pub[r].terminal # "none" => run[r].status = pub[r].terminal

(* The batches sent of a run: only of one that was asked for and cannot be
   started again, one payload per number, and none with the number that comes
   next, but for the one in flight. *)
SentOnce(r) ==
    \A n \in Nat, kind \in Kinds :
        WasSent(r, n, kind) =>
            /\ n \in 1..MaxSequence
            /\ Requested(r)
            /\ dispatch[r] = "calling" => job[r].state # "none"
            /\ \A other \in Kinds : WasSent(r, n, other) => other = kind
            /\ pub[r].sending # "none"
                   => n < pub[r].seq \/ (n = pub[r].seq /\ kind = pub[r].sending)
            /\ Registered(r) /\ pub[r].sending = "none"
                             /\ ~pub[r].stopped /\ ~pub[r].broken
                   => n < pub[r].seq

SessionsKnow ==
    \A t \in Threads :
        IF session[t].held THEN \A r \in session[t].ran : run[r].status = "completed"
        ELSE session[t].ran = {}

ServiceInv ==
    /\ ServiceTyped
    /\ \A r \in Runs : RunWorks(r) /\ SentOnce(r)
    /\ SessionsKnow

-----------------------------------------------------------------------------
(* The publisher by itself: what its operations make of it. *)

LEMMA KindOfOps ==
    /\ \A op \in Ops : KindOf(op) \in Kinds
    /\ \A op \in Ops : KindOf(op) = "output" <=> op \in {"text", "tool", "flush"}
    /\ "none" \notin Kinds /\ "none" \notin TerminalStatus /\ "output" \in Kinds
BY DEF KindOf, Ops, Kinds, TerminalStatus

LEMMA AppendFacts ==
    ASSUME NEW q \in Seq(Ops), NEW op \in Ops
    PROVE  /\ Append(q, op) \in Seq(Ops) /\ Append(q, op) # << >>
           /\ q # << >> => Head(Append(q, op)) = Head(q)
           /\ \A i \in DOMAIN q : i \in DOMAIN Append(q, op) /\ Append(q, op)[i] = q[i]
           /\ \A i \in DOMAIN Append(q, op) :
                  i \in DOMAIN q \/ (i = Len(q) + 1 /\ Append(q, op)[i] = op)
<1>1. /\ Append(q, op) \in Seq(Ops) /\ Len(Append(q, op)) = Len(q) + 1
      /\ \A i \in 1..Len(q) : Append(q, op)[i] = q[i]
      /\ Append(q, op)[Len(q) + 1] = op
  OBVIOUS
<1>. DEFINE a == Append(q, op)
<1>. HIDE DEF a
<1>2. DOMAIN q = 1..Len(q) /\ DOMAIN a = 1..(Len(q) + 1) /\ Len(q) \in Nat
  BY <1>1 DEF a
<1>3. q # << >> => Head(a) = Head(q)
  <2>. SUFFICES ASSUME q # << >> PROVE Head(a) = Head(q)
    OBVIOUS
  <2>1. 1 \in 1..Len(q) /\ Head(q) = q[1]
    OBVIOUS
  <2>2. a[1] = q[1]
    BY <1>1, <2>1 DEF a
  <2>3. Head(a) = a[1]
    BY <1>1 DEF a
  <2>. QED
    BY <2>1, <2>2, <2>3
<1>4. a # << >>
  <2>1. Len(<< >>) = 0 /\ Len(a) # 0
    BY <1>1, <1>2 DEF a
  <2>. QED
    BY <2>1
<1>. QED
  BY <1>1, <1>2, <1>3, <1>4 DEF a

LEMMA TailFacts ==
    ASSUME NEW q \in Seq(Ops), q # << >>
    PROVE  /\ Tail(q) \in Seq(Ops) /\ Head(q) \in Ops
           /\ 1 \in DOMAIN q /\ q[1] = Head(q)
           /\ \A i \in DOMAIN Tail(q) :
                  i \in Nat /\ i + 1 \in DOMAIN q /\ Tail(q)[i] = q[i + 1] /\ i + 1 # 1
OBVIOUS

LEMMA AppendedOutputs ==
    ASSUME NEW q \in Seq(Ops), NEW op \in Ops
    PROVE  /\ Outputs(Append(q, op)) => Outputs(q) \/ op \in {"text", "tool"}
           /\ OneOfExecutor(q) /\ (\A i \in DOMAIN q : q[i] \notin ExecutorOps)
                  => OneOfExecutor(Append(q, op))
           /\ OneOfExecutor(q) /\ op \notin ExecutorOps => OneOfExecutor(Append(q, op))
<1>. DEFINE a == Append(q, op)
<1>1. /\ \A i \in DOMAIN q : i \in DOMAIN a /\ a[i] = q[i]
      /\ \A i \in DOMAIN a : i \in DOMAIN q \/ (i = Len(q) + 1 /\ a[i] = op)
  BY AppendFacts
<1>. HIDE DEF a
<1>2. Outputs(a) => Outputs(q) \/ op \in {"text", "tool"}
  BY <1>1 DEF Outputs
<1>3. OneOfExecutor(q) /\ (\A i \in DOMAIN q : q[i] \notin ExecutorOps) => OneOfExecutor(a)
  BY <1>1 DEF OneOfExecutor
<1>4. OneOfExecutor(q) /\ op \notin ExecutorOps => OneOfExecutor(a)
  BY <1>1 DEF OneOfExecutor
<1>. QED
  BY <1>2, <1>3, <1>4 DEF a

LEMMA TailOutputs ==
    ASSUME NEW q \in Seq(Ops), q # << >>, OneOfExecutor(q)
    PROVE  /\ OneOfExecutor(Tail(q))
           /\ Outputs(Tail(q)) => Outputs(q) /\ Head(q) \notin {"text", "tool"}
           /\ Head(q) \in {"text", "tool"} => Outputs(q)
<1>. DEFINE t == Tail(q)
<1>1. /\ 1 \in DOMAIN q /\ q[1] = Head(q)
      /\ \A i \in DOMAIN t : i \in Nat /\ i + 1 \in DOMAIN q /\ t[i] = q[i + 1] /\ i + 1 # 1
  BY TailFacts
<1>. HIDE DEF t
<1>2. OneOfExecutor(t)
  BY <1>1 DEF OneOfExecutor
<1>3. Outputs(t) => Outputs(q) /\ Head(q) \notin {"text", "tool"}
  BY <1>1 DEF Outputs, OneOfExecutor, ExecutorOps
<1>4. Head(q) \in {"text", "tool"} => Outputs(q)
  BY <1>1 DEF Outputs
<1>. QED
  BY <1>2, <1>3, <1>4 DEF t

LEMMA EmptyPublisher ==
    /\ Publishes(NoPublisher, 0)
    /\ \A emitted \in Nat : Publishes(NoPublisher, emitted)
<1>1. NoPublisher \in Publisher
  BY DEF NoPublisher, Publisher
<1>2. ~Outputs(<< >>) /\ OneOfExecutor(<< >>)
  BY DEF Outputs, OneOfExecutor
<1>3. Owed(NoPublisher) = 0
  BY <1>2 DEF Owed, NoPublisher
<1>. QED
  BY <1>1, <1>2, <1>3 DEF Publishes, NoPublisher

(* An operation is queued behind the others. *)
LEMMA Queued ==
    ASSUME NEW emitted \in Nat, NEW grown \in Nat, NEW p, Publishes(p, emitted),
           NEW op \in Ops, grown >= emitted,
           op \in ExecutorOps => \A i \in DOMAIN p.queue : p.queue[i] \notin ExecutorOps,
           op \in {"text", "tool"} => grown = emitted + 1
    PROVE  Publishes([p EXCEPT !.queue = Append(p.queue, op)], grown)
<1>1. p \in Publisher /\ p.queue \in Seq(Ops)
  BY DEF Publishes, Publisher
<1>. DEFINE a == Append(p.queue, op)
            n == [p EXCEPT !.queue = a]
<1>2. /\ a \in Seq(Ops) /\ a # << >>
      /\ p.queue # << >> => Head(a) = Head(p.queue)
      /\ Outputs(a) => Outputs(p.queue) \/ op \in {"text", "tool"}
      /\ OneOfExecutor(p.queue) => OneOfExecutor(a)
  BY <1>1, AppendFacts, AppendedOutputs
<1>. HIDE DEF a
<1>3. /\ n.seq = p.seq /\ n.queue = a /\ n.sending = p.sending /\ n.flushing = p.flushing
      /\ n.buffered = p.buffered /\ n.terminal = p.terminal /\ n \in Publisher
  BY <1>1, <1>2 DEF Publisher
<1>. HIDE DEF n
<1>4. p.flushing => p.sending # "none"
  BY DEF Publishes
<1>5. p.terminal = "none" => Owed(n) <= grown
  <2>. SUFFICES ASSUME p.terminal = "none" PROVE Owed(n) <= grown
    OBVIOUS
  <2>1. Owed(p) <= emitted
    BY DEF Publishes
  <2>2. (op \in {"text", "tool"} => ~Outputs(p.queue))
    BY DEF Outputs, ExecutorOps
  <2>3. n.flushing \/ (n.sending # "none" /\ Head(n.queue) = "flush")
            <=> p.flushing \/ (p.sending # "none" /\ Head(p.queue) = "flush")
    BY <1>2, <1>3, <1>4 DEF Publishes
  <2>4. p.seq \in Nat /\ n.seq = p.seq /\ n.buffered = p.buffered /\ n.queue = a
    BY <1>1, <1>3 DEF Publisher
  <2>. QED
    BY <2>1, <2>2, <2>3, <2>4, <1>2 DEF Owed
<1>6. Publishes(n, grown)
  BY <1>2, <1>3, <1>4, <1>5 DEF Publishes
<1>. QED
  BY <1>6 DEF n, a

LEMMA IdleFacts ==
    ASSUME NEW emitted \in Nat, NEW p, Publishes(p, emitted), p.sending = "none",
           p.queue # << >>
    PROVE  /\ p \in Publisher /\ p.queue \in Seq(Ops) /\ ~p.flushing
           /\ p.seq \in Nat /\ p.buffered \in BOOLEAN
           /\ Tail(p.queue) \in Seq(Ops) /\ Head(p.queue) \in Ops
           /\ p.terminal = "none" =>
                  /\ OneOfExecutor(p.queue) /\ OneOfExecutor(Tail(p.queue))
                  /\ Outputs(Tail(p.queue))
                         => Outputs(p.queue) /\ Head(p.queue) \notin {"text", "tool"}
                  /\ Head(p.queue) \in {"text", "tool"} => Outputs(p.queue)
                  /\ (p.seq - 1) + (IF p.buffered THEN 1 ELSE 0)
                        + (IF Outputs(p.queue) THEN 1 ELSE 0) <= emitted
<1>1. p \in Publisher /\ p.queue \in Seq(Ops) /\ ~p.flushing
      /\ p.seq \in Nat /\ p.buffered \in BOOLEAN
  BY DEF Publishes, Publisher
<1>2. Tail(p.queue) \in Seq(Ops) /\ Head(p.queue) \in Ops
  BY <1>1, TailFacts
<1>3. p.terminal = "none" =>
          /\ OneOfExecutor(p.queue) /\ OneOfExecutor(Tail(p.queue))
          /\ Outputs(Tail(p.queue)) => Outputs(p.queue) /\ Head(p.queue) \notin {"text", "tool"}
          /\ Head(p.queue) \in {"text", "tool"} => Outputs(p.queue)
  BY <1>1, TailOutputs DEF Publishes
<1>4. p.terminal = "none" =>
          (p.seq - 1) + (IF p.buffered THEN 1 ELSE 0)
             + (IF Outputs(p.queue) THEN 1 ELSE 0) <= emitted
  BY <1>1 DEF Publishes, Owed
<1>. QED
  BY <1>1, <1>2, <1>3, <1>4

(* What does not depend on which operation is taken. *)
Follows(p, n) ==
    /\ n.seq = p.seq /\ n.terminal = p.terminal
    /\ n.stopped = p.stopped /\ (p.broken => n.broken)

LEMMA AcceptedOp ==
    ASSUME NEW emitted \in Nat, NEW p, Publishes(p, emitted), p.sending = "none",
           p.queue # << >>, NEW n \in AcceptOutcomes(p)
    PROVE  /\ Publishes(n, emitted)
           /\ Follows(p, n)
           /\ n.sending # "none" => ~p.stopped /\ n.broken = p.broken
<1>. DEFINE op == Head(p.queue)
            rest == Tail(p.queue)
            done == [p EXCEPT !.queue = rest]
            kept == [p EXCEPT !.queue = rest, !.buffered = TRUE]
            sends == [p EXCEPT !.sending = "output", !.buffered = FALSE]
            flushes == [p EXCEPT !.sending = "output", !.buffered = FALSE, !.flushing = TRUE]
            itself == [p EXCEPT !.sending = KindOf(op)]
            breaks == [p EXCEPT !.queue = << >>, !.broken = TRUE]
<1>1. /\ p \in Publisher /\ p.queue \in Seq(Ops) /\ ~p.flushing
      /\ p.seq \in Nat /\ p.buffered \in BOOLEAN
      /\ rest \in Seq(Ops) /\ op \in Ops
      /\ p.terminal = "none" =>
             /\ OneOfExecutor(p.queue) /\ OneOfExecutor(rest)
             /\ Outputs(rest) => Outputs(p.queue) /\ op \notin {"text", "tool"}
             /\ op \in {"text", "tool"} => Outputs(p.queue)
             /\ (p.seq - 1) + (IF p.buffered THEN 1 ELSE 0)
                   + (IF Outputs(p.queue) THEN 1 ELSE 0) <= emitted
  BY IdleFacts
<1>2. \/ n = done
      \/ n = breaks /\ p.terminal # "none"
      \/ n = kept /\ op = "text" /\ p.terminal = "none"
      \/ n = sends /\ op = "text" /\ p.terminal = "none" /\ ~p.stopped
      \/ n = sends /\ op = "flush" /\ p.terminal = "none" /\ ~p.stopped /\ p.buffered
      \/ n = flushes /\ op \notin {"text", "flush"} /\ p.terminal = "none" /\ ~p.stopped
                     /\ p.buffered
      \/ n = itself /\ op \notin {"text", "flush"} /\ p.terminal = "none" /\ ~p.stopped
  <2>1. [sends EXCEPT !.flushing = TRUE] = flushes /\ [done EXCEPT !.buffered = TRUE] = kept
    BY <1>1 DEF Publisher
  <2>. HIDE DEF op, rest
  <2>. QED
    BY <1>1, <2>1 DEF AcceptOutcomes, op, rest, Publisher
<1>3. CASE n = done
  <2>1. /\ n \in Publisher /\ n.queue = rest /\ n.sending = "none" /\ ~n.flushing
        /\ n.buffered = p.buffered /\ n.seq = p.seq /\ Follows(p, n)
    BY <1>1, <1>3 DEF Publisher, Follows
  <2>2. p.terminal = "none" => Owed(n) <= emitted
    BY <1>1, <2>1 DEF Owed
  <2>. QED
    BY <1>1, <2>1, <2>2 DEF Publishes, Follows
<1>4. CASE n = breaks /\ p.terminal # "none"
  <2>1. /\ n \in Publisher /\ n.sending = "none" /\ ~n.flushing /\ Follows(p, n)
    <3>1. << >> \in Seq(Ops)
      OBVIOUS
    <3>. QED
      BY <1>1, <1>4, <3>1 DEF Publisher, Follows
  <2>. QED
    BY <1>1, <1>4, <2>1 DEF Publishes, Follows
<1>5. CASE n = kept /\ op = "text" /\ p.terminal = "none"
  <2>1. /\ n \in Publisher /\ n.queue = rest /\ n.sending = "none" /\ ~n.flushing
        /\ n.buffered = TRUE /\ n.seq = p.seq /\ Follows(p, n)
    BY <1>1, <1>5 DEF Publisher, Follows
  <2>2. Owed(n) <= emitted
    BY <1>1, <1>5, <2>1 DEF Owed
  <2>. QED
    BY <1>1, <2>1, <2>2 DEF Publishes, Follows
<1>6. CASE n = sends /\ op \in {"text", "flush"} /\ p.terminal = "none" /\ ~p.stopped
           /\ (op = "flush" => p.buffered)
  <2>1. /\ n \in Publisher /\ n.queue = p.queue /\ n.sending = "output" /\ ~n.flushing
        /\ ~n.buffered /\ n.seq = p.seq /\ Follows(p, n) /\ n.broken = p.broken
    BY <1>1, <1>6, KindOfOps DEF Publisher, Follows
  <2>2. Owed(n) <= emitted
    BY <1>1, <1>6, <2>1 DEF Owed
  <2>3. KindOf(op) = "output"
    BY <1>1, <1>6, KindOfOps
  <2>. QED
    BY <1>1, <1>6, <2>1, <2>2, <2>3 DEF Publishes, Follows
<1>7. CASE n = flushes /\ op \notin {"text", "flush"} /\ p.terminal = "none" /\ ~p.stopped
           /\ p.buffered
  <2>1. /\ n \in Publisher /\ n.queue = p.queue /\ n.sending = "output" /\ n.flushing
        /\ ~n.buffered /\ n.seq = p.seq /\ Follows(p, n) /\ n.broken = p.broken
    BY <1>1, <1>7, KindOfOps DEF Publisher, Follows
  <2>2. Owed(n) <= emitted
    BY <1>1, <1>7, <2>1 DEF Owed
  <2>. QED
    BY <1>1, <1>7, <2>1, <2>2 DEF Publishes, Follows
<1>8. CASE n = itself /\ op \notin {"text", "flush"} /\ p.terminal = "none" /\ ~p.stopped
  <2>1. /\ n \in Publisher /\ n.queue = p.queue /\ n.sending = KindOf(op) /\ ~n.flushing
        /\ n.buffered = p.buffered /\ n.seq = p.seq /\ Follows(p, n) /\ n.broken = p.broken
    <3>1. KindOf(op) \in Kinds
      BY <1>1, KindOfOps
    <3>. QED
      BY <1>1, <1>8, <3>1 DEF Publisher, Follows
  <2>2. Owed(n) <= emitted
    BY <1>1, <1>8, <2>1 DEF Owed
  <2>. QED
    BY <1>1, <1>8, <2>1, <2>2 DEF Publishes, Follows
<1>. QED
  BY <1>2, <1>3, <1>4, <1>5, <1>6, <1>7, <1>8

(* A batch was answered as it should be. *)
LEMMA AcknowledgedBatch ==
    ASSUME NEW emitted \in Nat, NEW p, Publishes(p, emitted), p.sending # "none"
    PROVE  /\ Publishes(Acknowledged(p), emitted)
           /\ Acknowledged(p).seq = p.seq + 1
           /\ Acknowledged(p).terminal = IF p.sending = "output" THEN p.terminal ELSE p.sending
<1>1. /\ p \in Publisher /\ p.queue \in Seq(Ops) /\ p.queue # << >> /\ p.seq \in Nat
      /\ p.terminal = "none" /\ p.buffered \in BOOLEAN
      /\ OneOfExecutor(p.queue) /\ Owed(p) <= emitted
  BY DEF Publishes, Publisher
<1>2. Head(p.queue) \in Ops /\ Tail(p.queue) \in Seq(Ops)
  BY <1>1, TailFacts
<1>3. CASE p.flushing
  <2>. DEFINE next == p.seq + 1
              kind == KindOf(Head(p.queue))
              n == [p EXCEPT !.seq = next, !.tries = 0, !.flushing = FALSE, !.sending = kind]
  <2>1. Acknowledged(p) = n
    BY <1>1, <1>3 DEF Acknowledged, Publisher
  <2>2. kind \in Kinds /\ p.sending = "output" /\ next \in Nat \ {0}
        /\ Head(p.queue) \notin {"text", "flush"}
    BY <1>1, <1>2, <1>3, KindOfOps DEF Publishes
  <2>. HIDE DEF next, kind
  <2>3. /\ n \in Publisher /\ n.seq = next /\ n.queue = p.queue /\ ~n.flushing
        /\ n.sending = kind /\ n.terminal = "none" /\ n.buffered = p.buffered
    BY <1>1, <2>2 DEF Publisher
  <2>. HIDE DEF n
  <2>4. Owed(n) <= emitted
    BY <1>1, <1>3, <2>2, <2>3 DEF Owed, next
  <2>. QED
    BY <1>1, <2>1, <2>2, <2>3, <2>4 DEF Publishes, next, kind
<1>4. CASE ~p.flushing
  <2>. DEFINE rest == Tail(p.queue)
              terminal == IF p.sending = "output" THEN p.terminal ELSE p.sending
              next == p.seq + 1
              n == [p EXCEPT !.seq = next, !.tries = 0, !.sending = "none",
                             !.queue = rest, !.terminal = terminal]
  <2>1. Acknowledged(p) = n
    BY <1>1, <1>4 DEF Acknowledged, Publisher
  <2>2. /\ OneOfExecutor(rest)
        /\ Outputs(rest) => Outputs(p.queue) /\ Head(p.queue) \notin {"text", "tool"}
        /\ Head(p.queue) \in {"text", "tool"} => Outputs(p.queue)
    BY <1>1, TailOutputs
  <2>3. p.sending = KindOf(Head(p.queue)) /\ terminal \in TerminalStatus \cup {"none"}
        /\ (terminal = "none" => Head(p.queue) \in {"text", "tool", "flush"})
    BY <1>1, <1>2, <1>4, KindOfOps, StatusFacts DEF Publishes
  <2>. HIDE DEF rest, terminal
  <2>4. next \in Nat \ {0} /\ rest \in Seq(Ops)
    BY <1>1, <1>2 DEF rest
  <2>. HIDE DEF next
  <2>5. /\ n \in Publisher /\ n.seq = next /\ n.queue = rest /\ ~n.flushing
        /\ n.sending = "none" /\ n.terminal = terminal /\ n.buffered = p.buffered
    BY <1>1, <1>4, <2>3, <2>4 DEF Publisher
  <2>. HIDE DEF n
  <2>6. terminal = "none" => Owed(n) <= emitted
    BY <1>1, <1>4, <2>2, <2>3, <2>5 DEF Owed, next
  <2>. QED
    BY <2>1, <2>2, <2>5, <2>6 DEF Publishes, terminal, next
<1>. QED
  BY <1>3, <1>4

(* A batch was given up: it is not sent again, and no other is. *)
LEMMA RejectedBatch ==
    ASSUME NEW emitted \in Nat, NEW p, Publishes(p, emitted), p.sending # "none"
    PROVE  /\ Publishes(Rejected(p), emitted)
           /\ Rejected(p).sending = "none" /\ Rejected(p).terminal = p.terminal
           /\ Rejected(p).stopped \/ Rejected(p).broken
<1>1. /\ p \in Publisher /\ p.queue \in Seq(Ops) /\ p.queue # << >> /\ p.seq \in Nat
      /\ p.terminal = "none" /\ p.buffered \in BOOLEAN
      /\ OneOfExecutor(p.queue) /\ Owed(p) <= emitted
  BY DEF Publishes, Publisher
<1>2. Tail(p.queue) \in Seq(Ops)
  BY <1>1, TailFacts
<1>3. CASE Head(p.queue) = "flush"
  <2>. DEFINE rest == Tail(p.queue)
              n == [p EXCEPT !.sending = "none", !.flushing = FALSE, !.tries = 0,
                             !.queue = rest, !.stopped = TRUE]
  <2>1. Rejected(p) = n
    BY <1>1, <1>3 DEF Rejected, Publisher
  <2>2. OneOfExecutor(rest) /\ (Outputs(rest) => Outputs(p.queue))
    BY <1>1, TailOutputs
  <2>. HIDE DEF rest
  <2>3. /\ n \in Publisher /\ n.seq = p.seq /\ n.queue = rest /\ ~n.flushing
        /\ n.sending = "none" /\ n.terminal = "none" /\ n.buffered = p.buffered /\ n.stopped
    BY <1>1, <1>2 DEF Publisher, rest
  <2>. HIDE DEF n
  <2>4. Owed(n) <= emitted
    BY <1>1, <2>2, <2>3 DEF Owed
  <2>. QED
    BY <1>1, <2>1, <2>2, <2>3, <2>4 DEF Publishes
<1>4. CASE Head(p.queue) # "flush"
  <2>. DEFINE n == [p EXCEPT !.sending = "none", !.flushing = FALSE, !.tries = 0,
                             !.queue = << >>, !.broken = TRUE]
  <2>1. Rejected(p) = n
    BY <1>1, <1>4 DEF Rejected, Publisher
  <2>2. ~Outputs(<< >>) /\ OneOfExecutor(<< >>) /\ << >> \in Seq(Ops)
    BY DEF Outputs, OneOfExecutor
  <2>3. /\ n \in Publisher /\ n.seq = p.seq /\ n.queue = << >> /\ ~n.flushing
        /\ n.sending = "none" /\ n.terminal = "none" /\ n.buffered = p.buffered /\ n.broken
    BY <1>1, <2>2 DEF Publisher
  <2>. HIDE DEF n
  <2>4. Owed(n) <= emitted
    BY <1>1, <2>2, <2>3 DEF Owed
  <2>. QED
    BY <1>1, <2>1, <2>2, <2>3, <2>4 DEF Publishes
<1>. QED
  BY <1>3, <1>4

LEMMA StoppedPublisher ==
    ASSUME NEW emitted \in Nat, NEW p, Publishes(p, emitted)
    PROVE  Publishes([p EXCEPT !.stopped = TRUE], emitted)
<1>. DEFINE n == [p EXCEPT !.stopped = TRUE]
<1>1. /\ n \in Publisher /\ n.seq = p.seq /\ n.queue = p.queue /\ n.sending = p.sending
      /\ n.flushing = p.flushing /\ n.buffered = p.buffered /\ n.terminal = p.terminal
  BY DEF Publishes, Publisher
<1>. HIDE DEF n
<1>2. Owed(n) = Owed(p)
  BY <1>1 DEF Owed
<1>3. Publishes(n, emitted)
  BY <1>1, <1>2 DEF Publishes
<1>. QED
  BY <1>3 DEF n

LEMMA RetriedPublisher ==
    ASSUME NEW emitted \in Nat, NEW p, Publishes(p, emitted)
    PROVE  Publishes([p EXCEPT !.tries = p.tries + 1], emitted)
<1>. DEFINE tries == p.tries + 1
            n == [p EXCEPT !.tries = tries]
<1>1. p \in Publisher /\ tries \in Nat
  BY DEF Publishes, Publisher
<1>. HIDE DEF tries
<1>2. /\ n \in Publisher /\ n.seq = p.seq /\ n.queue = p.queue /\ n.sending = p.sending
      /\ n.flushing = p.flushing /\ n.buffered = p.buffered /\ n.terminal = p.terminal
  BY <1>1 DEF Publisher
<1>. HIDE DEF n
<1>3. Owed(n) = Owed(p)
  BY <1>2 DEF Owed
<1>4. Publishes(n, emitted)
  BY <1>2, <1>3 DEF Publishes
<1>. QED
  BY <1>4 DEF n, tries

(* A batch in flight is one that Convex may be sent. *)
LEMMA SenderFacts ==
    ASSUME ServiceInv, NEW r \in Runs
    PROVE  /\ Publishes(pub[r], job[r].emitted) /\ pub[r] \in Publisher
           /\ job[r].emitted \in Nat
           /\ pub[r] # NoPublisher => Registered(r) /\ Requested(r) /\ job[r].state # "none"
           /\ pub[r].sending # "none" =>
                  /\ pub[r] # NoPublisher /\ pub[r].seq \in 1..MaxSequence
                  /\ pub[r].sending \in Kinds
<1>1. RunWorks(r) /\ job[r] \in Job
  BY DEF ServiceInv, ServiceTyped
<1>2. /\ Publishes(pub[r], job[r].emitted) /\ pub[r] \in Publisher
      /\ job[r].emitted \in Nat /\ job[r].emitted < MaxSequence
  BY <1>1 DEF RunWorks, Publishes, Job
<1>3. pub[r] # NoPublisher => Registered(r) /\ Requested(r) /\ job[r].state # "none"
  BY <1>1 DEF RunWorks, Registered, HasController
<1>4. pub[r].sending # "none" => pub[r] # NoPublisher /\ pub[r].sending \in Kinds
  BY <1>2 DEF NoPublisher, Publisher
<1>5. pub[r].sending # "none" => pub[r].seq \in 1..MaxSequence
  <2>. SUFFICES ASSUME pub[r].sending # "none" PROVE pub[r].seq \in 1..MaxSequence
    OBVIOUS
  <2>1. Owed(pub[r]) <= job[r].emitted
    BY <1>2 DEF Publishes
  <2>2. pub[r].seq \in Nat \ {0}
    BY <1>2 DEF Publisher
  <2>3. pub[r].seq - 1 <= Owed(pub[r]) /\ Owed(pub[r]) \in Nat
    BY <2>2 DEF Owed
  <2>. QED
    BY <1>2, <2>1, <2>2, <2>3, SizesAssumption
<1>. QED
  BY <1>2, <1>3, <1>4, <1>5

-----------------------------------------------------------------------------
(* The closed system takes steps of ThreadRuns. *)

LEMMA ReceiveStep ==
    ASSUME TypeOK, NEW r \in Runs, NEW n \in 1..MaxSequence, NEW kind \in Kinds,
           Requested(r), Receive(r, n, kind)
    PROVE  /\ [Next]_runVars
           /\ UNCHANGED dispatch
           /\ \A s \in Runs \ {r} : stored'[s] = stored[s]
           /\ stored'[r] \in {stored[r], stored[r] \cup {<<n, kind>>}}
<1>1. CASE Expects(r, n)
  <2>1. acceptBatch(r, n, kind)
    BY <1>1 DEF Receive
  <2>2. Execution
    BY <2>1 DEF Execution
  <2>. QED
    BY <2>1, <2>2 DEF acceptBatch, Next, TypeOK
<1>2. CASE ~Expects(r, n)
  BY <1>2 DEF Receive, runVars
<1>. QED
  BY <1>1, <1>2

LEMMA AnswerStep ==
    ASSUME NEW k \in Commands, NEW answer \in {"accepted", "refused"},
           ExecutionAnswers(k, answer)
    PROVE  [Next]_runVars
BY DEF Next, Execution

LEMMA ServiceStepOfRuns ==
    ASSUME TypeOK, ServiceInv, [ServiceNext]_serviceVars
    PROVE  [Next]_runVars
<1>1. CASE ConvexStep
  BY <1>1 DEF ConvexStep, Next, DispatchStep
<1>2. CASE \E k \in Commands : ActionLost(k)
  BY <1>2 DEF ActionLost, Next, DispatchStep
<1>3. CASE \E r \in Runs : TimePasses(r)
  BY <1>3 DEF TimePasses, Next, Time
<1>4. CASE \E r \in Runs : PostRun(r) \/ LosePostRun(r) \/ StartRun(r)
  BY <1>4, AnswerStep, CommandFacts DEF PostRun, LosePostRun, StartRun, runVars
<1>5. CASE \E r \in Runs : EmitOutput(r) \/ EmitTerminal(r) \/ RunReturns(r)
  BY <1>5 DEF EmitOutput, EmitTerminal, Emits, RunReturns, runVars
<1>6. CASE \E r \in Runs : PublisherStep(r)
  <2>1. PICK r \in Runs : PublisherStep(r)
    BY <1>6
  <2>2. CASE Deliver(r)
    <3>1. pub[r].sending # "none" /\ Receive(r, pub[r].seq, pub[r].sending)
      BY <2>2 DEF Deliver
    <3>2. Requested(r) /\ pub[r].seq \in 1..MaxSequence /\ pub[r].sending \in Kinds
      BY <3>1, SenderFacts
    <3>. QED
      BY <3>1, <3>2, ReceiveStep
  <2>3. CASE Heartbeat(r)
    <3>1. CASE renewHeartbeat(r)
      <4>1. Requested(r)
        BY <2>3 DEF Heartbeat, Live, ServiceInv, RunWorks
      <4>. QED
        BY <3>1, <4>1 DEF Next, Execution
    <3>. QED
      BY <2>3, <3>1 DEF Heartbeat
  <2>. QED
    BY <2>1, <2>2, <2>3 DEF PublisherStep, FlushTimerFires, Accept, TimeOut, LeaseTimerFires
<1>7. CASE \E b \in late : DeliverLate(b)
  <2>1. PICK b \in late : DeliverLate(b)
    BY <1>7
  <2>2. /\ b[1] \in Runs /\ b[2] \in Nat /\ b[3] \in Kinds /\ b = <<b[1], b[2], b[3]>>
    BY DEF ServiceInv, ServiceTyped
  <2>3. WasSent(b[1], b[2], b[3])
    BY <2>2 DEF WasSent
  <2>4. b[2] \in 1..MaxSequence /\ Requested(b[1])
    BY <2>2, <2>3 DEF ServiceInv, SentOnce
  <2>. QED
    BY <2>1, <2>2, <2>4, ReceiveStep DEF DeliverLate
<1>8. CASE \E k \in Stops : PostCancel(k) \/ LosePostCancel(k)
  BY <1>8, AnswerStep, CommandFacts DEF PostCancel, LosePostCancel
<1>. QED
  BY <1>1, <1>2, <1>3, <1>4, <1>5, <1>6, <1>7, <1>8
     DEF ServiceNext, SessionExpires, Shutdown, ShutdownEnds, Crash, Exit, Restart, serviceVars,
         runVars

-----------------------------------------------------------------------------
(* What a step leaves as it was. *)

LEMMA DispatchKept ==
    ASSUME TypeOK, Linked, [Next]_runVars, NEW r \in Runs, Requested(r)
    PROVE  Requested(r)' /\ (dispatch'[r] = "calling" => dispatch[r] = "calling")
<1>1. r \in Commands /\ dispatch[r] # "none" /\ run[r].status # "absent"
  BY CommandFacts DEF Requested, Linked
<1>2. CASE Submission
  BY <1>1, <1>2, CommandFacts, CommandIdsAssumption
     DEF Submission, submitPrompt, retryRun, createPromptRun, requestStop, archive, TypeOK,
         Requested
<1>3. CASE DispatchStep
  BY <1>1, <1>3, CommandFacts, CommandIdsAssumption
     DEF DispatchStep, getStartRequest, markDispatching, markDispatchAccepted,
         markDispatchFailure, getStopRequest, markStopDispatching, markStopDispatchFailure,
         ActionDies, TypeOK, Requested
<1>4. CASE Execution
  BY <1>1, <1>4 DEF Execution, ExecutionAnswers, acceptBatch, renewHeartbeat, TypeOK, Requested
<1>5. CASE Time \/ reconcileExpiredRuns \/ \E s \in Runs : cleanupRunBatches(s)
  BY <1>5 DEF Time, DispatchDeadlinePasses, LeaseRunsOut, reconcileExpiredRuns,
     cleanupRunBatches, Requested
<1>. QED
  BY <1>2, <1>3, <1>4, <1>5 DEF Next, runVars, Requested

LEMMA EndedKept ==
    ASSUME TypeOK, [Next]_runVars, NEW r \in Runs, IsTerminal(r)
    PROVE  run'[r] = run[r]
<1>1. RunsStep /\ ~IsActive(r) /\ run[r].status # "absent"
  BY StepOfRuns, StatusFacts DEF IsTerminal, IsActive
<1>. QED
  BY <1>1 DEF RunsStep, Creates, Ends, EndsWith, Keeps

(* Neither the controller nor the publisher of the run moves. *)
Rests(r) == job'[r] = job[r] /\ pub'[r] = pub[r]

(* No batch takes a number that was used, but to repeat it. *)
SendsOn(r) ==
    /\ dispatch[r] = "calling" /\ dispatch'[r] = "calling" /\ job[r].state # "none"
           => job'[r].state # "none"
    /\ \/ pub'[r] = pub[r] /\ (Registered(r)' => Registered(r))
       \/ pub[r].sending = "none" /\ \A n \in Nat, kind \in Kinds : ~WasSent(r, n, kind)
       \/ /\ pub[r].sending # "none"
          /\ \/ pub'[r].sending = pub[r].sending /\ pub'[r].seq = pub[r].seq
             \/ pub'[r].seq = pub[r].seq + 1
       \/ /\ pub[r].sending = "none" /\ Registered(r)
          /\ ~pub[r].stopped /\ ~pub[r].broken /\ pub'[r].seq = pub[r].seq
       \/ /\ pub'[r].sending = "none"
          /\ pub'[r].stopped \/ pub'[r].broken \/ ~Registered(r)'

(* What Convex gets, or can get late, is what it could get late or has, and
   what was in flight. *)
SentBefore(r) ==
    \A n \in Nat, kind \in Kinds :
        WasSent(r, n, kind)' =>
            \/ WasSent(r, n, kind)
            \/ pub[r].sending # "none" /\ n = pub[r].seq /\ kind = pub[r].sending

SessionsMove ==
    \A t \in Threads :
        \/ session'[t] = session[t]
        \/ session'[t] = NoSession
        \/ session'[t].held /\ \A r \in session'[t].ran : run'[r].status = "completed"

LEMMA SentOnceKept ==
    ASSUME TypeOK, Linked, ServiceInv, [Next]_runVars, NEW r \in Runs,
           SendsOn(r), SentBefore(r)
    PROVE  SentOnce(r)'
<1>1. SentOnce(r) /\ RunWorks(r) /\ pub[r] \in Publisher
  BY SenderFacts DEF ServiceInv
<1>. SUFFICES ASSUME NEW n \in Nat, NEW kind \in Kinds, WasSent(r, n, kind)'
              PROVE  /\ n \in 1..MaxSequence
                     /\ Requested(r)'
                     /\ dispatch'[r] = "calling" => job'[r].state # "none"
                     /\ \A other \in Kinds : WasSent(r, n, other)' => other = kind
                     /\ pub'[r].sending # "none"
                            => n < pub'[r].seq \/ (n = pub'[r].seq /\ kind = pub'[r].sending)
                     /\ Registered(r)' /\ pub'[r].sending = "none"
                                       /\ ~pub'[r].stopped /\ ~pub'[r].broken
                            => n < pub'[r].seq
  BY DEF SentOnce
<1>2. n \in 1..MaxSequence /\ Requested(r) /\ (dispatch[r] = "calling" => job[r].state # "none")
  BY <1>1, SenderFacts DEF SentBefore, SentOnce
<1>3. Requested(r)' /\ (dispatch'[r] = "calling" => dispatch[r] = "calling")
  BY <1>2, DispatchKept
<1>4. dispatch'[r] = "calling" => job'[r].state # "none"
  BY <1>2, <1>3 DEF SendsOn
<1>5. \A other \in Kinds : WasSent(r, n, other)' => other = kind
  <2>. TAKE other \in Kinds
  <2>1. WasSent(r, n, other)' =>
            \/ WasSent(r, n, other)
            \/ pub[r].sending # "none" /\ n = pub[r].seq /\ other = pub[r].sending
    BY DEF SentBefore
  <2>2. \/ WasSent(r, n, kind)
        \/ pub[r].sending # "none" /\ n = pub[r].seq /\ kind = pub[r].sending
    BY DEF SentBefore
  <2>3. pub[r].seq \in Nat
    BY <1>1 DEF Publisher
  <2>. QED
    BY <1>1, <2>1, <2>2, <2>3 DEF SentOnce
<1>6. pub[r].sending # "none" => n < pub[r].seq \/ (n = pub[r].seq /\ kind = pub[r].sending)
  BY <1>1 DEF SentBefore, SentOnce
<1>7. Registered(r) /\ pub[r].sending = "none" /\ ~pub[r].stopped /\ ~pub[r].broken
          => n < pub[r].seq
  BY <1>1 DEF SentBefore, SentOnce
<1>8. pub[r].seq \in Nat
  BY <1>1 DEF Publisher
<1>9. /\ pub'[r].sending # "none"
             => n < pub'[r].seq \/ (n = pub'[r].seq /\ kind = pub'[r].sending)
      /\ Registered(r)' /\ pub'[r].sending = "none" /\ ~pub'[r].stopped /\ ~pub'[r].broken
             => n < pub'[r].seq
  <2>1. CASE pub'[r] = pub[r] /\ (Registered(r)' => Registered(r))
    BY <1>6, <1>7, <2>1
  <2>2. CASE pub[r].sending = "none" /\ \A m \in Nat, k \in Kinds : ~WasSent(r, m, k)
    BY <2>2 DEF SentBefore
  <2>3. CASE pub[r].sending # "none" /\ pub'[r].sending = pub[r].sending
             /\ pub'[r].seq = pub[r].seq
    BY <1>6, <2>3
  <2>4. CASE pub[r].sending # "none" /\ pub'[r].seq = pub[r].seq + 1
    BY <1>6, <1>8, <2>4
  <2>5. CASE /\ pub[r].sending = "none" /\ Registered(r)
             /\ ~pub[r].stopped /\ ~pub[r].broken /\ pub'[r].seq = pub[r].seq
    BY <1>7, <2>5
  <2>6. CASE /\ pub'[r].sending = "none"
             /\ pub'[r].stopped \/ pub'[r].broken \/ ~Registered(r)'
    BY <2>6
  <2>. QED
    BY <2>1, <2>2, <2>3, <2>4, <2>5, <2>6 DEF SendsOn
<1>. QED
  BY <1>2, <1>3, <1>4, <1>5, <1>9

LEMMA RestingRun ==
    ASSUME TypeOK, Linked, ServiceInv, [Next]_runVars, NEW r \in Runs, Rests(r)
    PROVE  RunWorks(r)' /\ SendsOn(r)
<1>1. RunWorks(r)
  BY DEF ServiceInv
<1>2. Registered(r)' <=> Registered(r)
  BY DEF Rests, Registered, HasController
<1>3. job[r].state # "none" => Requested(r)' /\ (dispatch'[r] = "calling" => dispatch[r] = "calling")
  BY <1>1, DispatchKept DEF RunWorks
<1>4. pub[r].terminal # "none" => run'[r].status = pub[r].terminal
  <2>1. pub[r].terminal # "none" => IsTerminal(r)
    BY <1>1 DEF RunWorks, Publishes, Publisher, IsTerminal
  <2>. QED
    BY <1>1, <2>1, EndedKept DEF RunWorks
<1>. QED
  BY <1>1, <1>2, <1>3, <1>4 DEF RunWorks, Rests, SendsOn

LEMMA SessionsKept ==
    ASSUME TypeOK, ServiceInv, [Next]_runVars, SessionsMove
    PROVE  SessionsKnow'
<1>. SUFFICES ASSUME NEW t \in Threads
              PROVE  IF session'[t].held
                     THEN \A r \in session'[t].ran : run'[r].status = "completed"
                     ELSE session'[t].ran = {}
  BY DEF SessionsKnow
<1>1. CASE session'[t] = session[t]
  <2>1. \A r \in session[t].ran : run[r].status = "completed" => run'[r].status = "completed"
    <3>. TAKE r \in session[t].ran
    <3>1. r \in Runs
      BY DEF ServiceInv, ServiceTyped, Session
    <3>. QED
      BY <3>1, EndedKept DEF IsTerminal, TerminalStatus
  <2>. QED
    BY <1>1, <2>1 DEF ServiceInv, SessionsKnow
<1>2. CASE session'[t] = NoSession
  BY <1>2 DEF NoSession
<1>. QED
  BY <1>1, <1>2 DEF SessionsMove

(* A step keeps the invariant if the runs it moves keep working. *)
LEMMA ServiceMoves ==
    ASSUME TypeOK, Linked, ServiceInv, [Next]_runVars, ServiceTyped', SessionsMove,
           \A r \in Runs : SentBefore(r),
           \A r \in Runs : Rests(r) \/ (RunWorks(r)' /\ SendsOn(r))
    PROVE  ServiceInv'
<1>1. \A r \in Runs : RunWorks(r)' /\ SendsOn(r)
  BY RestingRun
<1>2. \A r \in Runs : SentOnce(r)'
  BY <1>1, SentOnceKept
<1>. QED
  BY <1>1, <1>2, SessionsKept DEF ServiceInv

LEMMA NothingSent ==
    ASSUME UNCHANGED <<stored, late>>
    PROVE  \A r \in Runs : SentBefore(r)
BY DEF SentBefore, WasSent

(* Steps of Convex alone that store no batch. *)
LEMMA ConvexMoves ==
    ASSUME TypeOK, Linked, ServiceInv, [Next]_runVars, UNCHANGED <<stored, piVars>>,
           faults' \in Nat
    PROVE  ServiceInv'
<1>1. ServiceTyped' /\ SessionsMove
  BY DEF ServiceInv, ServiceTyped, SessionsMove, piVars
<1>2. \A r \in Runs : Rests(r) /\ SentBefore(r)
  BY NothingSent DEF Rests, piVars
<1>. QED
  BY <1>1, <1>2, ServiceMoves

-----------------------------------------------------------------------------
(* The steps of the service, one by one. *)

ServiceBefore ==
    /\ TypeOK /\ Linked /\ ServiceInv
    /\ \A r \in Runs : StreamOf(r)
    /\ [Next]_runVars

LEMMA WorkFacts ==
    ASSUME ServiceBefore, NEW r \in Runs
    PROVE  /\ RunWorks(r) /\ SentOnce(r) /\ job[r] \in Job /\ pub[r] \in Publisher
           /\ job[r].emitted \in Nat /\ Publishes(pub[r], job[r].emitted)
           /\ job \in [Runs -> Job] /\ pub \in [Runs -> Publisher]
           /\ session \in [Threads -> Session]
           /\ late \subseteq Runs \X Nat \X Kinds /\ faults \in Nat
BY SenderFacts DEF ServiceBefore, ServiceInv, ServiceTyped

LEMMA ReserveKeeps ==
    ASSUME ServiceBefore, NEW r \in Runs, dispatch[r] = "calling",
           dispatch'[r] \in {"calling", "refused"}, Reservable(r), job' = Reserved(r),
           UNCHANGED <<pub, session, late, stored>>, faults' \in Nat
    PROVE  ServiceInv'
<1>. DEFINE j == [NoJob EXCEPT !.state = "reserved"]
<1>1. j \in Job /\ j.state = "reserved" /\ j.emitted = 0 /\ j.executor = "idle"
  BY DEF NoJob, Job
<1>2. job' = [job EXCEPT ![r] = j]
  BY DEF Reserved
<1>. HIDE DEF j
<1>3. job' \in [Runs -> Job] /\ job'[r] = j /\ \A s \in Runs \ {r} : job'[s] = job[s]
  BY <1>1, <1>2, WorkFacts
<1>4. job[r].state = "none" /\ pub[r] = NoPublisher
  BY WorkFacts DEF Reservable, RunWorks, Registered, HasController
<1>5. RunWorks(r)'
  BY <1>1, <1>3, <1>4, EmptyPublisher, SizesAssumption
     DEF RunWorks, Requested, Registered, HasController, NoPublisher
<1>6. SendsOn(r)
  <2>1. \A n \in Nat, kind \in Kinds : ~WasSent(r, n, kind)
    BY <1>4, WorkFacts DEF SentOnce
  <2>2. pub[r].sending = "none"
    BY <1>4 DEF NoPublisher
  <2>. QED
    BY <1>4, <2>1, <2>2 DEF SendsOn
<1>7. ServiceTyped' /\ SessionsMove /\ \A s \in Runs \ {r} : Rests(s)
  BY <1>3, WorkFacts DEF ServiceTyped, SessionsMove, Rests
<1>. QED
  BY <1>5, <1>6, <1>7, NothingSent, ServiceMoves DEF ServiceBefore

LEMMA AnsweredDispatch ==
    ASSUME TypeOK, NEW k \in Commands, NEW answer, ExecutionAnswers(k, answer)
    PROVE  /\ dispatch[k] = "calling"
           /\ k \in Runs => dispatch'[k] = answer
           /\ UNCHANGED stored
BY CommandFacts, CommandIdsAssumption DEF ExecutionAnswers, TypeOK

LEMMA PostRunKeeps ==
    ASSUME ServiceBefore, NEW r \in Runs, PostRun(r) \/ LosePostRun(r)
    PROVE  ServiceInv'
<1>1. r \in Commands /\ faults' \in Nat /\ UNCHANGED <<pi, pub, session, late>>
  BY CommandFacts, WorkFacts DEF PostRun, LosePostRun, Fault
<1>2. dispatch[r] = "calling" /\ dispatch'[r] \in {"calling", "refused"} /\ UNCHANGED stored
  BY <1>1, AnsweredDispatch DEF PostRun, LosePostRun, ServiceBefore, runVars
<1>3. UNCHANGED job \/ (Reservable(r) /\ job' = Reserved(r))
  BY DEF PostRun, LosePostRun
<1>4. CASE UNCHANGED job
  BY <1>1, <1>2, <1>4, ConvexMoves DEF ServiceBefore, piVars
<1>. QED
  BY <1>1, <1>2, <1>3, <1>4, ReserveKeeps

(* A run that exists is in a thread. *)
LEMMA ThreadOfRequested ==
    ASSUME ServiceBefore, NEW r \in Runs, Requested(r)
    PROVE  run[r].thread \in Threads
BY CommandFacts DEF ServiceBefore, Linked, Requested, TypeOK

LEMMA StartRunKeeps ==
    ASSUME ServiceBefore, NEW r \in Runs, StartRun(r)
    PROVE  ServiceInv'
<1>. DEFINE context == ContextOf(r)
            j == [job[r] EXCEPT !.state = "running", !.executor = "executing",
                                !.context = context]
<1>1. Requested(r) /\ job[r].state = "reserved"
  BY WorkFacts DEF StartRun, RunWorks
<1>2. context \in SUBSET Runs
  BY <1>1, ThreadOfRequested, WorkFacts
     DEF ContextOf, historyBeforePrompt, RunsOf, Session
<1>3. job' = [job EXCEPT ![r] = j] /\ UNCHANGED <<pi, pub, session, late, faults>>
  BY WorkFacts DEF StartRun
<1>. HIDE DEF context
<1>4. j \in Job /\ j.state = "running" /\ j.emitted = job[r].emitted
  <2>1. job[r] \in Job
    BY WorkFacts
  <2>. QED
    BY <1>2, <2>1 DEF Job
<1>. HIDE DEF j
<1>5. job' \in [Runs -> Job] /\ job'[r] = j /\ \A s \in Runs \ {r} : job'[s] = job[s]
  BY <1>3, <1>4, WorkFacts
<1>6. dispatch'[r] # "calling" /\ Requested(r)' /\ UNCHANGED stored
  BY <1>1, CommandFacts, AnsweredDispatch DEF StartRun, ServiceBefore, Requested, runVars
<1>7. pub[r].terminal # "none" => run'[r].status = pub[r].terminal
  <2>1. pub[r].terminal # "none" => run[r].status = pub[r].terminal
    BY WorkFacts DEF RunWorks
  <2>2. UNCHANGED run
    BY DEF StartRun, ExecutionAnswers, runVars
  <2>. QED
    BY <2>1, <2>2
<1>8. RunWorks(r)'
  BY <1>1, <1>3, <1>4, <1>5, <1>6, <1>7, WorkFacts DEF RunWorks, Registered, HasController
<1>9. SendsOn(r)
  BY <1>1, <1>3, <1>4, <1>5 DEF SendsOn, Registered, HasController
<1>10. ServiceTyped' /\ SessionsMove /\ \A s \in Runs \ {r} : Rests(s)
  BY <1>3, <1>5, WorkFacts DEF ServiceTyped, SessionsMove, Rests
<1>. QED
  BY <1>3, <1>6, <1>8, <1>9, <1>10, NothingSent, ServiceMoves DEF ServiceBefore

(* Only the controller and the publisher of one run move, and its state is what
   it was. *)
LEMMA OnePublisherMoves ==
    ASSUME ServiceBefore, NEW r \in Runs, NEW j \in Job, NEW p,
           job' = [job EXCEPT ![r] = j], pub' = [pub EXCEPT ![r] = p],
           UNCHANGED session, faults' \in Nat, late' \subseteq Runs \X Nat \X Kinds,
           \A s \in Runs : SentBefore(s),
           j.state = job[r].state, Registered(r), Publishes(p, j.emitted),
           j.emitted < MaxSequence, j.executor # "idle" => j.state = "running",
           p.terminal = pub[r].terminal \/ run'[r].status = p.terminal, SendsOn(r)
    PROVE  ServiceInv'
<1>1. /\ job' \in [Runs -> Job] /\ job'[r] = j /\ pub'[r] = p
      /\ \A s \in Runs \ {r} : job'[s] = job[s] /\ pub'[s] = pub[s]
  BY WorkFacts
<1>2. ServiceTyped' /\ SessionsMove /\ \A s \in Runs \ {r} : Rests(s)
  BY <1>1, WorkFacts DEF ServiceTyped, SessionsMove, Rests, Publishes
<1>3. Requested(r)' /\ (dispatch'[r] = "calling" => dispatch[r] = "calling")
  BY WorkFacts, DispatchKept DEF RunWorks, Registered, HasController, ServiceBefore
<1>4. p.terminal # "none" => run'[r].status = p.terminal
  BY WorkFacts, EndedKept DEF RunWorks, Publisher, IsTerminal, ServiceBefore
<1>5. RunWorks(r)'
  BY <1>1, <1>3, <1>4, WorkFacts DEF RunWorks, Registered, HasController
<1>. QED
  BY <1>2, <1>5, ServiceMoves DEF ServiceBefore

LEMMA EmitKeeps ==
    ASSUME ServiceBefore, NEW r \in Runs, EmitOutput(r) \/ EmitTerminal(r)
    PROVE  ServiceInv'
<1>1. PICK event \in {"text", "tool", "completed", "error"} :
          /\ Emits(r, event)
          /\ \/ /\ event \in {"text", "tool"}
                /\ job[r].emitted < MaxSequence - 1
                /\ job' = [job EXCEPT ![r] = [job[r] EXCEPT !.emitted = job[r].emitted + 1]]
             \/ /\ event \in {"completed", "error"}
                /\ job' = [job EXCEPT ![r] = [job[r] EXCEPT !.executor = "finishing"]]
  BY WorkFacts DEF EmitOutput, EmitTerminal
<1>. DEFINE p == [pub[r] EXCEPT !.queue = Append(pub[r].queue, event)]
<1>2. /\ job[r].state = "running" /\ pub' = [pub EXCEPT ![r] = p]
      /\ UNCHANGED <<runVars, pi, session, late, faults>>
      /\ \A i \in DOMAIN pub[r].queue : pub[r].queue[i] \notin ExecutorOps
  BY <1>1, WorkFacts DEF Emits, RunWorks, Waiting
<1>3. event \in Ops
  BY DEF Ops
<1>4. /\ p.terminal = pub[r].terminal /\ p.sending = pub[r].sending /\ p.seq = pub[r].seq
      /\ p.stopped = pub[r].stopped /\ p.broken = pub[r].broken
  BY WorkFacts DEF Publisher
<1>5. pub'[r] = p
  BY <1>2, WorkFacts
<1>6. job'[r].state = job[r].state /\ Registered(r)
  BY <1>1, <1>2, WorkFacts DEF Job, Registered, HasController
<1>7. SendsOn(r)
  BY <1>4, <1>5, <1>6 DEF SendsOn
<1>8. /\ UNCHANGED session /\ faults' \in Nat /\ late' \subseteq Runs \X Nat \X Kinds
      /\ \A s \in Runs : SentBefore(s)
  BY <1>2, NothingSent, WorkFacts DEF runVars
<1>9. CASE /\ event \in {"text", "tool"}
           /\ job[r].emitted < MaxSequence - 1
           /\ job' = [job EXCEPT ![r] = [job[r] EXCEPT !.emitted = job[r].emitted + 1]]
  <2>. DEFINE more == job[r].emitted + 1
              j == [job[r] EXCEPT !.emitted = more]
  <2>1. more \in Nat /\ more >= job[r].emitted /\ more < MaxSequence
    BY <1>9, WorkFacts, SizesAssumption
  <2>2. Publishes(p, more)
    BY <1>2, <1>3, <2>1, WorkFacts, Queued
  <2>. HIDE DEF more, p
  <2>3. /\ j \in Job /\ j.emitted = more /\ j.state = job[r].state
        /\ j.executor = job[r].executor
    BY <2>1, WorkFacts DEF Job
  <2>4. job' = [job EXCEPT ![r] = j]
    BY <1>9 DEF more
  <2>. HIDE DEF j
  <2>. QED
    BY <1>2, <1>4, <1>6, <1>7, <1>8, <2>1, <2>2, <2>3, <2>4, OnePublisherMoves
<1>10. CASE /\ event \in {"completed", "error"}
            /\ job' = [job EXCEPT ![r] = [job[r] EXCEPT !.executor = "finishing"]]
  <2>. DEFINE j == [job[r] EXCEPT !.executor = "finishing"]
  <2>1. Publishes(p, job[r].emitted)
    <3>1. job[r].emitted >= job[r].emitted /\ event \notin {"text", "tool"}
      BY <1>10, WorkFacts
    <3>. QED
      BY <1>2, <1>3, <3>1, WorkFacts, Queued
  <2>. HIDE DEF p
  <2>2. j \in Job /\ j.emitted = job[r].emitted /\ j.state = job[r].state
    BY WorkFacts DEF Job
  <2>3. job[r].emitted < MaxSequence /\ job' = [job EXCEPT ![r] = j]
    BY <1>10, WorkFacts DEF RunWorks
  <2>. HIDE DEF j
  <2>. QED
    BY <1>2, <1>4, <1>6, <1>7, <1>8, <2>1, <2>2, <2>3, OnePublisherMoves
<1>. QED
  BY <1>1, <1>9, <1>10

LEMMA RunReturnsKeeps ==
    ASSUME ServiceBefore, NEW r \in Runs, RunReturns(r)
    PROVE  ServiceInv'
<1>. DEFINE j == [job[r] EXCEPT !.state = "terminal", !.executor = "idle"]
            p == [pub[r] EXCEPT !.stopped = TRUE]
            t == run[r].thread
            s == IF KeepsSession(r)
                 THEN [held |-> TRUE, knows |-> job[r].context \cup {r},
                       ran |-> session[t].ran \cup {r}]
                 ELSE NoSession
<1>1. /\ job[r].state = "running" /\ UNCHANGED <<runVars, pi, late, faults>>
      /\ pub' = [pub EXCEPT ![r] = p] /\ session' = [session EXCEPT ![t] = s]
      /\ job' = [job EXCEPT ![r] = j]
  BY WorkFacts DEF RunReturns
<1>2. t \in Threads /\ Requested(r) /\ dispatch[r] # "calling"
  BY <1>1, ThreadOfRequested, WorkFacts DEF RunWorks
<1>3. /\ j \in Job /\ j.state = "terminal" /\ j.executor = "idle"
      /\ j.emitted = job[r].emitted
  BY WorkFacts DEF Job
<1>4. Publishes(p, job[r].emitted) /\ p \in Publisher
  BY StoppedPublisher, WorkFacts DEF Publishes
<1>5. /\ p.terminal = pub[r].terminal /\ p.sending = pub[r].sending /\ p.seq = pub[r].seq
      /\ p.stopped
  BY WorkFacts DEF Publisher
<1>6. s \in Session
  <2>1. job[r].context \cup {r} \in SUBSET Runs /\ session[t].ran \cup {r} \in SUBSET Runs
    BY <1>2, WorkFacts DEF Job, Session
  <2>. QED
    BY <2>1 DEF Session, NoSession
<1>7. s = NoSession \/ (s.held /\ \A x \in s.ran : run[x].status = "completed")
  <2>. SUFFICES ASSUME KeepsSession(r)
                PROVE  \A x \in session[t].ran \cup {r} : run[x].status = "completed"
    OBVIOUS
  <2>1. run[r].status = "completed"
    BY WorkFacts DEF KeepsSession, RunWorks
  <2>2. \A x \in session[t].ran : run[x].status = "completed"
    BY <1>2 DEF ServiceBefore, ServiceInv, SessionsKnow
  <2>. QED
    BY <2>1, <2>2
<1>. HIDE DEF j, p, s
<1>8. /\ job' \in [Runs -> Job] /\ job'[r] = j
      /\ pub' \in [Runs -> Publisher] /\ pub'[r] = p
      /\ session' \in [Threads -> Session] /\ session'[t] = s
      /\ \A x \in Runs \ {r} : Rests(x)
      /\ \A x \in Threads \ {t} : session'[x] = session[x]
  BY <1>1, <1>2, <1>3, <1>4, <1>6, WorkFacts DEF Rests
<1>9. UNCHANGED <<run, dispatch, stored, late, faults>>
  BY <1>1 DEF runVars
<1>10. SessionsMove
  <2>1. session'[t] = NoSession
        \/ (session'[t].held /\ \A x \in session'[t].ran : run'[x].status = "completed")
    BY <1>7, <1>8, <1>9
  <2>. QED
    BY <1>8, <2>1 DEF SessionsMove
<1>11. RunWorks(r)'
  BY <1>2, <1>3, <1>4, <1>5, <1>8, <1>9, WorkFacts
     DEF RunWorks, Registered, HasController, Requested
<1>12. SendsOn(r)
  BY <1>2, <1>5, <1>8 DEF SendsOn
<1>13. ServiceTyped'
  BY <1>8, <1>9, WorkFacts DEF ServiceTyped
<1>. QED
  BY <1>8, <1>9, <1>10, <1>11, <1>12, <1>13, NothingSent, ServiceMoves DEF ServiceBefore

LEMMA SessionExpiresKeeps ==
    ASSUME ServiceBefore, NEW t \in Threads, SessionExpires(t)
    PROVE  ServiceInv'
<1>1. /\ session' = [session EXCEPT ![t] = NoSession]
      /\ UNCHANGED <<runVars, pi, job, pub, late, faults>>
  BY DEF SessionExpires
<1>2. NoSession \in Session
  BY DEF NoSession, Session
<1>3. session' \in [Threads -> Session] /\ SessionsMove
  <2>1. session \in [Threads -> Session]
    BY DEF ServiceBefore, ServiceInv, ServiceTyped
  <2>. QED
    BY <1>1, <1>2, <2>1 DEF SessionsMove
<1>4. ServiceTyped' /\ \A r \in Runs : Rests(r) /\ SentBefore(r)
  BY <1>1, <1>3, NothingSent DEF ServiceBefore, ServiceInv, ServiceTyped, Rests, runVars
<1>. QED
  BY <1>3, <1>4, ServiceMoves DEF ServiceBefore

LEMMA FlushTimerKeeps ==
    ASSUME ServiceBefore, NEW r \in Runs, FlushTimerFires(r)
    PROVE  ServiceInv'
<1>. DEFINE p == [pub[r] EXCEPT !.queue = Append(pub[r].queue, "flush")]
<1>1. /\ pub' = [pub EXCEPT ![r] = p] /\ pub[r].buffered
      /\ UNCHANGED <<runVars, pi, job, session, late, faults>>
  BY DEF FlushTimerFires
<1>2. Registered(r)
  BY <1>1, SenderFacts DEF NoPublisher, ServiceBefore
<1>3. Publishes(p, job[r].emitted)
  <2>1. "flush" \in Ops /\ "flush" \notin ExecutorOps /\ job[r].emitted >= job[r].emitted
    BY WorkFacts DEF Ops, ExecutorOps
  <2>. QED
    BY <2>1, WorkFacts, Queued
<1>4. /\ p.terminal = pub[r].terminal /\ p.sending = pub[r].sending /\ p.seq = pub[r].seq
      /\ p.stopped = pub[r].stopped /\ p.broken = pub[r].broken
  BY WorkFacts DEF Publisher
<1>5. pub'[r] = p /\ Registered(r)' /\ job' = [job EXCEPT ![r] = job[r]]
  BY <1>1, <1>2, WorkFacts DEF Registered, HasController
<1>6. SendsOn(r)
  BY <1>1, <1>2, <1>4, <1>5 DEF SendsOn
<1>. HIDE DEF p
<1>7. /\ UNCHANGED session /\ faults' \in Nat /\ late' \subseteq Runs \X Nat \X Kinds
      /\ \A s \in Runs : SentBefore(s)
  BY <1>1, NothingSent, WorkFacts DEF runVars
<1>8. job[r].emitted < MaxSequence /\ (job[r].executor # "idle" => job[r].state = "running")
  BY WorkFacts DEF RunWorks
<1>. QED
  BY <1>1, <1>2, <1>3, <1>4, <1>5, <1>6, <1>7, <1>8, WorkFacts, OnePublisherMoves

LEMMA AcceptKeeps ==
    ASSUME ServiceBefore, NEW r \in Runs, Accept(r)
    PROVE  ServiceInv'
<1>1. PICK p \in AcceptOutcomes(pub[r]) : pub' = [pub EXCEPT ![r] = p]
  BY DEF Accept
<1>2. /\ pub[r].queue # << >> /\ pub[r].sending = "none" /\ ~pub[r].broken
      /\ UNCHANGED <<runVars, pi, job, session, late, faults>>
  BY DEF Accept, Taking
<1>3. Registered(r)
  BY <1>2, SenderFacts DEF NoPublisher, ServiceBefore
<1>4. /\ Publishes(p, job[r].emitted) /\ Follows(pub[r], p)
      /\ p.sending # "none" => ~pub[r].stopped
  BY <1>2, AcceptedOp, WorkFacts
<1>5. pub'[r] = p /\ Registered(r)' /\ job' = [job EXCEPT ![r] = job[r]]
  BY <1>1, <1>2, <1>3, WorkFacts DEF Registered, HasController
<1>6. SendsOn(r)
  BY <1>2, <1>3, <1>4, <1>5 DEF SendsOn, Follows
<1>7. /\ UNCHANGED session /\ faults' \in Nat /\ late' \subseteq Runs \X Nat \X Kinds
      /\ \A s \in Runs : SentBefore(s)
  BY <1>2, NothingSent, WorkFacts DEF runVars
<1>8. job[r].emitted < MaxSequence /\ (job[r].executor # "idle" => job[r].state = "running")
  BY WorkFacts DEF RunWorks
<1>. QED
  BY <1>1, <1>3, <1>4, <1>5, <1>6, <1>7, <1>8, WorkFacts, OnePublisherMoves DEF Follows

(* The operation in flight is given up. *)
LEMMA SendFailsKeeps ==
    ASSUME ServiceBefore, NEW r \in Runs, SendFails(r), pub[r].sending # "none",
           UNCHANGED session, faults' \in Nat, late' \subseteq Runs \X Nat \X Kinds,
           \A s \in Runs : SentBefore(s)
    PROVE  ServiceInv'
<1>. DEFINE closing == job[r].closing \/ FlushFails(r)
            j == [job[r] EXCEPT !.closing = closing]
            p == Rejected(pub[r])
<1>1. Registered(r)
  BY SenderFacts DEF ServiceBefore
<1>2. pub' = [pub EXCEPT ![r] = p] /\ job' = [job EXCEPT ![r] = j]
  BY WorkFacts DEF SendFails
<1>3. /\ Publishes(p, job[r].emitted)
      /\ p.sending = "none" /\ p.terminal = pub[r].terminal
      /\ p.stopped \/ p.broken
  BY RejectedBatch, WorkFacts
<1>4. closing \in BOOLEAN
  BY WorkFacts DEF Job
<1>. HIDE DEF closing, p
<1>5. /\ j \in Job /\ j.state = job[r].state /\ j.emitted = job[r].emitted
      /\ j.executor = job[r].executor
  BY <1>4, WorkFacts DEF Job
<1>. HIDE DEF j
<1>6. pub'[r] = p /\ job'[r] = j
  BY <1>2, WorkFacts
<1>7. SendsOn(r)
  BY <1>1, <1>3, <1>5, <1>6 DEF SendsOn
<1>8. job[r].emitted < MaxSequence /\ (job[r].executor # "idle" => job[r].state = "running")
  BY WorkFacts DEF RunWorks
<1>. QED
  BY <1>1, <1>2, <1>3, <1>5, <1>7, <1>8, OnePublisherMoves

(* A terminal batch that is well acknowledged ended the run, now or before. *)
LEMMA AcknowledgedEnds ==
    ASSUME ServiceBefore, NEW r \in Runs, NEW n \in 1..MaxSequence, NEW kind \in TerminalStatus,
           Receive(r, n, kind), WellAcknowledged(r, n, kind)
    PROVE  run'[r].status = kind
<1>1. kind # "output" /\ kind \in Kinds
  BY StatusFacts, KindOfOps DEF TerminalStatus
<1>2. CASE Known(r, n)
  <2>1. <<n, kind>> \in stored[r]
    BY <1>2 DEF WellAcknowledged, BatchAnswer
  <2>2. <<n, kind>>[2] = kind
    OBVIOUS
  <2>3. run[r].status = kind
    BY <1>1, <2>1, <2>2 DEF ServiceBefore, StreamOf
  <2>. QED
    BY <2>3, EndedKept DEF IsTerminal, ServiceBefore
<1>3. CASE ~Known(r, n)
  <2>1. Expects(r, n)
    BY <1>3 DEF WellAcknowledged, BatchAnswer
  <2>2. run' = [run EXCEPT ![r] = Settled(r, n, kind)]
    BY <1>1, <2>1 DEF Receive, acceptBatch, StoreTerminal
  <2>3. Settled(r, n, kind).status = kind
    BY DEF Settled, ServiceBefore, TypeOK, RunRecord
  <2>. QED
    BY <2>2, <2>3 DEF ServiceBefore, TypeOK
<1>. QED
  BY <1>2, <1>3

LEMMA DeliverKeeps ==
    ASSUME ServiceBefore, NEW r \in Runs, Deliver(r)
    PROVE  ServiceInv'
<1>1. /\ pub[r].sending # "none" /\ Receive(r, pub[r].seq, pub[r].sending)
      /\ UNCHANGED <<pi, session, late, faults>>
      /\ IF WellAcknowledged(r, pub[r].seq, pub[r].sending)
         THEN pub' = [pub EXCEPT ![r] = Acknowledged(pub[r])] /\ UNCHANGED job
         ELSE SendFails(r)
  BY DEF Deliver
<1>2. /\ Registered(r) /\ Requested(r) /\ pub[r].seq \in 1..MaxSequence
      /\ pub[r].sending \in Kinds
  BY <1>1, SenderFacts DEF ServiceBefore
<1>3. /\ \A s \in Runs \ {r} : stored'[s] = stored[s]
      /\ stored'[r] \in {stored[r], stored[r] \cup {<<pub[r].seq, pub[r].sending>>}}
  BY <1>1, <1>2, ReceiveStep DEF ServiceBefore
<1>4. /\ UNCHANGED session /\ faults' \in Nat /\ late' \subseteq Runs \X Nat \X Kinds
      /\ \A s \in Runs : SentBefore(s)
  BY <1>1, <1>3, WorkFacts DEF SentBefore, WasSent
<1>5. CASE ~WellAcknowledged(r, pub[r].seq, pub[r].sending)
  BY <1>1, <1>4, <1>5, SendFailsKeeps
<1>6. CASE WellAcknowledged(r, pub[r].seq, pub[r].sending)
  <2>. DEFINE p == Acknowledged(pub[r])
  <2>1. /\ Publishes(p, job[r].emitted) /\ p.seq = pub[r].seq + 1
        /\ p.terminal = IF pub[r].sending = "output" THEN pub[r].terminal ELSE pub[r].sending
    BY <1>1, AcknowledgedBatch, WorkFacts
  <2>2. pub[r].sending # "output" => run'[r].status = pub[r].sending
    BY <1>1, <1>2, <1>6, AcknowledgedEnds, StatusFacts
  <2>. HIDE DEF p
  <2>3. pub' = [pub EXCEPT ![r] = p] /\ UNCHANGED job
    BY <1>1, <1>6 DEF p
  <2>4. pub'[r] = p /\ job' = [job EXCEPT ![r] = job[r]]
    BY <2>3, WorkFacts
  <2>5. SendsOn(r)
    BY <1>1, <2>1, <2>3, <2>4 DEF SendsOn
  <2>6. p.terminal = pub[r].terminal \/ run'[r].status = p.terminal
    BY <2>1, <2>2
  <2>7. job[r].emitted < MaxSequence /\ (job[r].executor # "idle" => job[r].state = "running")
    BY WorkFacts DEF RunWorks
  <2>. QED
    BY <1>2, <1>4, <2>1, <2>3, <2>4, <2>5, <2>6, <2>7, WorkFacts, OnePublisherMoves
<1>. QED
  BY <1>5, <1>6

LEMMA TimeOutKeeps ==
    ASSUME ServiceBefore, NEW r \in Runs, TimeOut(r)
    PROVE  ServiceInv'
<1>1. /\ pub[r].sending # "none" /\ faults' \in Nat /\ UNCHANGED <<runVars, pi, session>>
      /\ late' = late \cup {<<r, pub[r].seq, pub[r].sending>>}
      /\ \/ pub' = [pub EXCEPT ![r] = [pub[r] EXCEPT !.tries = pub[r].tries + 1]] /\ UNCHANGED job
         \/ SendFails(r)
  BY WorkFacts DEF TimeOut, Fault
<1>2. /\ Registered(r) /\ pub[r].seq \in Nat /\ pub[r].sending \in Kinds
  BY <1>1, SenderFacts DEF ServiceBefore
<1>3. /\ UNCHANGED session /\ faults' \in Nat /\ late' \subseteq Runs \X Nat \X Kinds
      /\ \A s \in Runs : SentBefore(s)
  BY <1>1, <1>2, WorkFacts DEF SentBefore, WasSent, runVars
<1>4. CASE SendFails(r)
  BY <1>1, <1>3, <1>4, SendFailsKeeps
<1>5. CASE pub' = [pub EXCEPT ![r] = [pub[r] EXCEPT !.tries = pub[r].tries + 1]] /\ UNCHANGED job
  <2>. DEFINE p == [pub[r] EXCEPT !.tries = pub[r].tries + 1]
  <2>1. Publishes(p, job[r].emitted)
    BY RetriedPublisher, WorkFacts
  <2>2. p.terminal = pub[r].terminal /\ p.sending = pub[r].sending /\ p.seq = pub[r].seq
    BY WorkFacts DEF Publisher
  <2>. HIDE DEF p
  <2>3. pub' = [pub EXCEPT ![r] = p]
    BY <1>5 DEF p
  <2>4. pub'[r] = p /\ job' = [job EXCEPT ![r] = job[r]] /\ UNCHANGED job
    BY <1>5, <2>3, WorkFacts
  <2>5. SendsOn(r)
    BY <1>1, <2>2, <2>4 DEF SendsOn
  <2>6. job[r].emitted < MaxSequence /\ (job[r].executor # "idle" => job[r].state = "running")
    BY WorkFacts DEF RunWorks
  <2>. QED
    BY <1>2, <1>3, <2>1, <2>2, <2>3, <2>4, <2>5, <2>6, WorkFacts, OnePublisherMoves
<1>. QED
  BY <1>1, <1>4, <1>5

LEMMA LoseLeaseKeeps ==
    ASSUME ServiceBefore, NEW r \in Runs, Live(r), LoseLease(r),
           UNCHANGED <<session, late, stored>>, faults' \in Nat
    PROVE  ServiceInv'
<1>. DEFINE j == [job[r] EXCEPT !.closing = TRUE]
            p == [pub[r] EXCEPT !.stopped = TRUE]
<1>1. pub' = [pub EXCEPT ![r] = p] /\ job' = [job EXCEPT ![r] = j]
  BY WorkFacts DEF LoseLease
<1>2. Registered(r)
  BY DEF Live, Registered, HasController
<1>3. Publishes(p, job[r].emitted)
  BY StoppedPublisher, WorkFacts
<1>4. /\ p.terminal = pub[r].terminal /\ p.sending = pub[r].sending /\ p.seq = pub[r].seq
      /\ p.stopped
  BY WorkFacts DEF Publisher
<1>5. /\ j \in Job /\ j.state = job[r].state /\ j.emitted = job[r].emitted
      /\ j.executor = job[r].executor
  BY WorkFacts DEF Job
<1>. HIDE DEF j, p
<1>6. pub'[r] = p /\ job'[r] = j
  BY <1>1, WorkFacts
<1>7. SendsOn(r)
  BY <1>4, <1>5, <1>6 DEF SendsOn
<1>8. job[r].emitted < MaxSequence /\ (job[r].executor # "idle" => job[r].state = "running")
  BY WorkFacts DEF RunWorks
<1>9. late' \subseteq Runs \X Nat \X Kinds /\ \A s \in Runs : SentBefore(s)
  BY NothingSent, WorkFacts
<1>. QED
  BY <1>1, <1>2, <1>3, <1>4, <1>5, <1>7, <1>8, <1>9, OnePublisherMoves

LEMMA HeartbeatKeeps ==
    ASSUME ServiceBefore, NEW r \in Runs, Heartbeat(r) \/ LeaseTimerFires(r)
    PROVE  ServiceInv'
<1>1. /\ Live(r) /\ faults' \in Nat /\ UNCHANGED <<pi, session, late, stored>>
      /\ LoseLease(r) \/ UNCHANGED <<job, pub>>
  BY WorkFacts DEF Heartbeat, LeaseTimerFires, Fault, renewHeartbeat, runVars
<1>2. CASE LoseLease(r)
  BY <1>1, <1>2, LoseLeaseKeeps
<1>3. CASE UNCHANGED <<job, pub>>
  BY <1>1, <1>3, ConvexMoves DEF ServiceBefore, piVars
<1>. QED
  BY <1>1, <1>2, <1>3

LEMMA DeliverLateKeeps ==
    ASSUME ServiceBefore, NEW b \in late, DeliverLate(b)
    PROVE  ServiceInv'
<1>1. /\ Receive(b[1], b[2], b[3]) /\ late' \subseteq late
      /\ UNCHANGED <<pi, job, pub, session, faults>>
  BY DEF DeliverLate
<1>2. /\ b[1] \in Runs /\ b[2] \in Nat /\ b[3] \in Kinds /\ b = <<b[1], b[2], b[3]>>
  BY DEF ServiceBefore, ServiceInv, ServiceTyped
<1>3. WasSent(b[1], b[2], b[3])
  BY <1>2 DEF WasSent
<1>4. b[2] \in 1..MaxSequence /\ Requested(b[1])
  BY <1>2, <1>3 DEF ServiceBefore, ServiceInv, SentOnce
<1>5. /\ \A s \in Runs \ {b[1]} : stored'[s] = stored[s]
      /\ stored'[b[1]] \in {stored[b[1]], stored[b[1]] \cup {<<b[2], b[3]>>}}
  BY <1>1, <1>2, <1>4, ReceiveStep DEF ServiceBefore
<1>6. \A r \in Runs : SentBefore(r)
  <2>. SUFFICES ASSUME NEW r \in Runs, NEW n \in Nat, NEW kind \in Kinds, WasSent(r, n, kind)'
                PROVE  WasSent(r, n, kind)
    BY DEF SentBefore
  <2>1. CASE <<r, n, kind>> \in late'
    BY <1>1, <2>1 DEF WasSent
  <2>2. CASE <<n, kind>> \in stored'[r]
    <3>1. <<n, kind>> \in stored[r] \/ (r = b[1] /\ <<n, kind>> = <<b[2], b[3]>>)
      BY <1>2, <1>5, <2>2
    <3>2. <<n, kind>> = <<b[2], b[3]>> => n = b[2] /\ kind = b[3]
      OBVIOUS
    <3>. QED
      BY <1>3, <3>1, <3>2 DEF WasSent
  <2>. QED
    BY <2>1, <2>2 DEF WasSent
<1>7. ServiceTyped' /\ SessionsMove /\ \A r \in Runs : Rests(r)
  BY <1>1 DEF ServiceBefore, ServiceInv, ServiceTyped, SessionsMove, Rests
<1>. QED
  BY <1>6, <1>7, ServiceMoves DEF ServiceBefore

LEMMA InterruptKeeps ==
    ASSUME ServiceBefore, NEW S \in SUBSET {r \in Runs : HasController(r)},
           NEW event \in {"canceled", "restarting"}, Interrupt(S, event),
           UNCHANGED <<session, late, stored>>, faults' \in Nat
    PROVE  ServiceInv'
<1>. DEFINE j(r) == [job[r] EXCEPT !.closing = TRUE]
            q(r) == [pub[r] EXCEPT !.queue = Append(pub[r].queue, event)]
<1>1. \A r \in Runs :
          /\ job'[r] = IF r \in S THEN j(r) ELSE job[r]
          /\ pub'[r] = IF r \in S /\ ~pub[r].stopped /\ ~pub[r].broken THEN q(r) ELSE pub[r]
  BY DEF Interrupt
<1>2. \A r \in Runs : /\ j(r) \in Job /\ j(r).state = job[r].state
                      /\ j(r).emitted = job[r].emitted /\ j(r).executor = job[r].executor
  <2>. TAKE r \in Runs
  <2>1. job[r] \in Job
    BY WorkFacts
  <2>. QED
    BY <2>1 DEF Job
<1>3. \A r \in Runs : Publishes(q(r), job[r].emitted)
  <2>. TAKE r \in Runs
  <2>1. event \in Ops /\ event \notin ExecutorOps /\ job[r].emitted >= job[r].emitted
        /\ event \notin {"text", "tool"}
    BY WorkFacts DEF Ops, ExecutorOps
  <2>. QED
    BY <2>1, WorkFacts, Queued
<1>4. \A r \in Runs :
          /\ q(r).terminal = pub[r].terminal /\ q(r).sending = pub[r].sending
          /\ q(r).seq = pub[r].seq /\ q(r).stopped = pub[r].stopped
          /\ q(r).broken = pub[r].broken
  BY WorkFacts DEF Publisher
<1>. HIDE DEF j, q
<1>5. /\ job' = [r \in Runs |-> job'[r]] /\ pub' = [r \in Runs |-> pub'[r]]
  BY DEF Interrupt
<1>6. job' \in [Runs -> Job] /\ pub' \in [Runs -> Publisher]
  <2>1. \A r \in Runs : job'[r] \in Job /\ pub'[r] \in Publisher
    BY <1>1, <1>2, <1>3, WorkFacts DEF Publishes
  <2>. QED
    BY <1>5, <2>1
<1>7. ServiceTyped' /\ SessionsMove
  <2>1. session \in [Threads -> Session] /\ late \subseteq Runs \X Nat \X Kinds
    BY DEF ServiceBefore, ServiceInv, ServiceTyped
  <2>. QED
    BY <1>6, <2>1 DEF ServiceTyped, SessionsMove
<1>8. \A r \in Runs : Rests(r) \/ (RunWorks(r)' /\ SendsOn(r))
  <2>. TAKE r \in Runs
  <2>1. CASE r \notin S
    BY <1>1, <2>1 DEF Rests
  <2>2. CASE r \in S
    <3>1. /\ job'[r].state = job[r].state /\ job'[r].emitted = job[r].emitted
          /\ job'[r].executor = job[r].executor /\ Registered(r)
      BY <1>1, <1>2, <2>2 DEF Registered
    <3>2. /\ Publishes(pub'[r], job[r].emitted)
          /\ pub'[r].terminal = pub[r].terminal /\ pub'[r].sending = pub[r].sending
          /\ pub'[r].seq = pub[r].seq /\ pub'[r].stopped = pub[r].stopped
          /\ pub'[r].broken = pub[r].broken
      BY <1>1, <1>3, <1>4, WorkFacts
    <3>3. Requested(r)' /\ (dispatch'[r] = "calling" => dispatch[r] = "calling")
      BY <3>1, WorkFacts, DispatchKept DEF RunWorks, Registered, HasController, ServiceBefore
    <3>4. pub[r].terminal # "none" => run'[r].status = pub[r].terminal
      BY WorkFacts, EndedKept DEF RunWorks, Publisher, IsTerminal, ServiceBefore
    <3>5. Registered(r)'
      BY <3>1 DEF Registered, HasController
    <3>6. RunWorks(r)'
      BY <3>1, <3>2, <3>3, <3>4, <3>5, WorkFacts DEF RunWorks
    <3>7. SendsOn(r)
      BY <3>1, <3>2 DEF SendsOn
    <3>. QED
      BY <3>6, <3>7
  <2>. QED
    BY <2>1, <2>2
<1>. QED
  BY <1>7, <1>8, NothingSent, ServiceMoves DEF ServiceBefore

LEMMA CancelKeeps ==
    ASSUME ServiceBefore, NEW k \in Stops, PostCancel(k) \/ LosePostCancel(k)
    PROVE  ServiceInv'
<1>1. k \in Commands /\ faults' \in Nat /\ UNCHANGED <<pi, session, late>>
      /\ (Cancel(command[k].run) \/ UNCHANGED <<job, pub>>)
  BY CommandFacts DEF PostCancel, LosePostCancel, Fault, ServiceBefore, ServiceInv, ServiceTyped
<1>2. dispatch[k] = "calling" /\ UNCHANGED stored
  BY <1>1, AnsweredDispatch DEF PostCancel, LosePostCancel, ServiceBefore
<1>3. command[k].run \in Runs
  BY <1>1, <1>2 DEF ServiceBefore, Linked
<1>4. CASE Cancel(command[k].run)
  <2>. DEFINE S == IF Interruptible(command[k].run) THEN {command[k].run} ELSE {}
  <2>1. S \in SUBSET {r \in Runs : HasController(r)} /\ Interrupt(S, "canceled")
    BY <1>3, <1>4 DEF Cancel, Interruptible
  <2>. HIDE DEF S
  <2>. QED
    BY <1>1, <1>2, <2>1, InterruptKeeps
<1>5. CASE UNCHANGED <<job, pub>>
  BY <1>1, <1>2, <1>5, ConvexMoves DEF ServiceBefore, piVars
<1>. QED
  BY <1>1, <1>4, <1>5

LEMMA ShutdownKeeps ==
    ASSUME ServiceBefore, Shutdown
    PROVE  ServiceInv'
<1>. DEFINE S == {r \in Runs : Interruptible(r)}
<1>1. S \in SUBSET {r \in Runs : HasController(r)}
  BY DEF Interruptible
<1>2. Interrupt(S, "restarting") /\ UNCHANGED <<session, late, stored, faults>>
  BY DEF Shutdown, runVars
<1>3. faults' \in Nat
  BY <1>2 DEF ServiceBefore, ServiceInv, ServiceTyped
<1>. HIDE DEF S
<1>. QED
  BY <1>1, <1>2, <1>3, InterruptKeeps

(* The process goes down: what was in flight may still arrive. *)
LEMMA ExitKeeps ==
    ASSUME ServiceBefore, Exit, faults' \in Nat
    PROVE  ServiceInv'
<1>1. /\ UNCHANGED runVars /\ late' = late \cup InFlight
      /\ pub' = [r \in Runs |-> NoPublisher] /\ session' = [t \in Threads |-> NoSession]
      /\ job' = [r \in Runs |->
                    IF job[r].state \in {"reserved", "gone"} /\ dispatch[r] = "calling"
                    THEN [NoJob EXCEPT !.state = "gone"] ELSE NoJob]
  BY DEF Exit
<1>2. /\ NoJob \in Job /\ [NoJob EXCEPT !.state = "gone"] \in Job
      /\ NoPublisher \in Publisher /\ NoSession \in Session
  BY EmptyPublisher DEF NoJob, Job, Publishes, NoSession, Session
<1>3. InFlight \subseteq Runs \X Nat \X Kinds
  BY SenderFacts DEF InFlight, ServiceBefore
<1>4. ServiceTyped' /\ SessionsMove
  BY <1>1, <1>2, <1>3 DEF ServiceTyped, SessionsMove, ServiceBefore, ServiceInv
<1>5. \A r \in Runs : SentBefore(r)
  <2>. SUFFICES ASSUME NEW r \in Runs, NEW n \in Nat, NEW kind \in Kinds, WasSent(r, n, kind)',
                       ~WasSent(r, n, kind)
                PROVE  pub[r].sending # "none" /\ n = pub[r].seq /\ kind = pub[r].sending
    BY DEF SentBefore
  <2>1. <<r, n, kind>> \in InFlight
    BY <1>1 DEF WasSent, runVars
  <2>2. PICK s \in Runs : /\ pub[s].sending # "none"
                          /\ <<r, n, kind>> = <<s, pub[s].seq, pub[s].sending>>
    BY <2>1 DEF InFlight
  <2>3. r = s /\ n = pub[s].seq /\ kind = pub[s].sending
    BY <2>2
  <2>. QED
    BY <2>2, <2>3
<1>6. \A r \in Runs : RunWorks(r)' /\ SendsOn(r)
  <2>. TAKE r \in Runs
  <2>1. /\ pub'[r] = NoPublisher /\ job'[r].emitted = 0 /\ job'[r].executor = "idle"
        /\ job'[r].state \in {"none", "gone"}
        /\ job'[r].state = "gone" <=>
               job[r].state \in {"reserved", "gone"} /\ dispatch[r] = "calling"
    BY <1>1 DEF NoJob
  <2>2. dispatch'[r] = dispatch[r]
    BY <1>1 DEF runVars
  <2>3. job'[r].state = "gone" => Requested(r)'
    BY <2>1, <2>2 DEF Requested
  <2>4. NoPublisher.terminal = "none" /\ NoPublisher.sending = "none"
    BY DEF NoPublisher
  <2>5. RunWorks(r)'
    BY <2>1, <2>3, <2>4, EmptyPublisher, SizesAssumption DEF RunWorks, Registered, HasController
  <2>6. dispatch[r] = "calling" /\ job[r].state # "none" => job'[r].state # "none"
    BY <2>1, WorkFacts DEF RunWorks, Job
  <2>7. ~Registered(r)'
    BY <2>1 DEF Registered, HasController
  <2>. QED
    BY <2>1, <2>2, <2>4, <2>5, <2>6, <2>7 DEF SendsOn
<1>. QED
  BY <1>4, <1>5, <1>6, ServiceMoves DEF ServiceBefore

LEMMA ConvexKeeps ==
    ASSUME ServiceBefore,
           \/ ConvexStep
           \/ \E k \in Commands : ActionLost(k)
           \/ \E r \in Runs : TimePasses(r)
           \/ Restart
    PROVE  ServiceInv'
<1>1. faults' \in Nat
  BY DEF ServiceBefore, ServiceInv, ServiceTyped, ConvexStep, ActionLost, TimePasses, Restart,
     Fault
<1>2. UNCHANGED <<stored, job, pub, session, late>>
  BY DEF ConvexStep, Submission, submitPrompt, retryRun, createPromptRun, requestStop, archive,
     getStartRequest, markDispatching, markDispatchAccepted, markDispatchFailure,
     getStopRequest, markStopDispatching, markStopDispatchFailure, reconcileExpiredRuns,
     ActionLost, ActionDies, TimePasses, DispatchDeadlinePasses, LeaseRunsOut, Restart,
     piVars, runVars
<1>3. ServiceTyped' /\ SessionsMove /\ \A r \in Runs : Rests(r)
  BY <1>1, <1>2 DEF ServiceBefore, ServiceInv, ServiceTyped, SessionsMove, Rests
<1>. QED
  BY <1>2, <1>3, NothingSent, ServiceMoves DEF ServiceBefore

LEMMA ServiceInductive ==
    ASSUME TypeOK, Linked, ServiceInv, \A r \in Runs : StreamOf(r), [ServiceNext]_serviceVars
    PROVE  ServiceInv'
<1>1. ServiceBefore
  BY ServiceStepOfRuns DEF ServiceBefore
<1>2. CASE \E r \in Runs : PublisherStep(r)
  BY <1>1, <1>2, FlushTimerKeeps, AcceptKeeps, DeliverKeeps, TimeOutKeeps, HeartbeatKeeps
     DEF PublisherStep
<1>3. CASE ShutdownEnds \/ Crash
  <2>1. Exit /\ faults' \in Nat
    BY <1>3 DEF ShutdownEnds, Crash, Fault, ServiceInv, ServiceTyped
  <2>. QED
    BY <1>1, <2>1, ExitKeeps
<1>4. CASE UNCHANGED serviceVars
  BY <1>1, <1>4, ConvexMoves DEF ServiceBefore, serviceVars, piVars, ServiceInv, ServiceTyped
<1>. QED
  BY <1>1, <1>2, <1>3, <1>4, ConvexKeeps, PostRunKeeps, StartRunKeeps, EmitKeeps,
     RunReturnsKeeps, SessionExpiresKeeps, DeliverLateKeeps, CancelKeeps, ShutdownKeeps
     DEF ServiceNext

LEMMA InitServes == ServiceInit => ServiceInv
<1>. SUFFICES ASSUME ServiceInit PROVE ServiceInv
  OBVIOUS
<1>1. /\ job = [r \in Runs |-> NoJob] /\ pub = [r \in Runs |-> NoPublisher]
      /\ session = [t \in Threads |-> NoSession] /\ late = {} /\ faults = 0
      /\ stored = [r \in Runs |-> {}]
  BY DEF ServiceInit, Init
<1>2. NoJob \in Job /\ NoPublisher \in Publisher /\ NoSession \in Session
  BY EmptyPublisher DEF NoJob, Job, Publishes, NoSession, Session
<1>3. ServiceTyped
  BY <1>1, <1>2 DEF ServiceTyped
<1>4. \A r \in Runs : RunWorks(r)
  BY <1>1, EmptyPublisher, SizesAssumption
     DEF RunWorks, NoJob, NoPublisher, Registered, HasController
<1>5. \A r \in Runs : SentOnce(r)
  BY <1>1 DEF SentOnce, WasSent
<1>6. SessionsKnow
  BY <1>1 DEF SessionsKnow, NoSession
<1>. QED
  BY <1>3, <1>4, <1>5, <1>6 DEF ServiceInv

(* The invariant of the closed system. *)
ClosedInv ==
    /\ TypeOK /\ SettledInv /\ ServiceInv
    /\ \A r \in Runs : StreamOf(r)

LEMMA ClosedInductive == ClosedInv /\ [ServiceNext]_serviceVars => ClosedInv' /\ [Next]_runVars
<1>. SUFFICES ASSUME ClosedInv, [ServiceNext]_serviceVars PROVE ClosedInv' /\ [Next]_runVars
  OBVIOUS
<1>1. TypeOK /\ Linked /\ SettledInv /\ ServiceInv /\ \A r \in Runs : StreamOf(r)
  BY DEF ClosedInv, SettledInv
<1>2. [Next]_runVars
  BY <1>1, ServiceStepOfRuns
<1>3. TypeOK'
  BY <1>1, <1>2, TypeInductive
<1>4. SettledInv'
  BY <1>1, <1>2, <1>3, SettledInductive
<1>5. \A r \in Runs : StreamOf(r)'
  BY <1>1, <1>2, StreamInductive
<1>6. ServiceInv'
  BY <1>1, ServiceInductive
<1>. QED
  BY <1>2, <1>3, <1>4, <1>5, <1>6 DEF ClosedInv

LEMMA ClosedInit == ServiceInit => Init /\ ClosedInv
<1>1. ServiceInit => Init
  BY DEF ServiceInit
<1>2. Init => TypeOK /\ SettledInv /\ \A r \in Runs : StreamOf(r)
  BY InitTyped, InitSettled, InitStreams
<1>. QED
  BY <1>1, <1>2, InitServes DEF ClosedInv

LEMMA ClosedHolds == ServiceSpec => []ClosedInv
BY ClosedInit, ClosedInductive, PTL DEF ServiceSpec

(* StaysWithinThreadRuns: whatever Pi, the network and the scheduler do, Convex
   takes only the steps that ThreadRuns allows it, so the theorems about
   ThreadRuns hold of the closed system. *)
THEOREM ServiceStaysWithin == ServiceSpec => StaysWithinThreadRuns
BY ClosedInit, ClosedInductive, PTL DEF ServiceSpec, StaysWithinThreadRuns, Spec

(* NeverChangedRetry: across retries, late arrivals, failed flushes,
   cancellation, shutdown and crashes, a sequence number carries one payload
   (results.ts, acceptBatch; result-publisher.ts). *)
THEOREM NeverChangedRetryHolds == ServiceSpec => []NeverChangedRetry
<1>1. ASSUME ClosedInv, NEW r \in Runs, NEW n \in Nat, NEW kind \in Kinds,
             \A other \in Kinds : WasSent(r, n, other) => other = kind
      PROVE  BatchAnswer(r, n, kind) # "changed_retry"
  <2>1. Known(r, n) => <<n, kind>> \in stored[r]
    BY <1>1 DEF Known, WasSent
  <2>. QED
    BY <2>1 DEF BatchAnswer
<1>2. ASSUME ClosedInv, NEW r \in Runs, pub[r].sending # "none"
      PROVE  BatchAnswer(r, pub[r].seq, pub[r].sending) # "changed_retry"
  <2>1. pub[r].seq \in Nat /\ pub[r].sending \in Kinds
    BY <1>2, SenderFacts DEF ClosedInv
  <2>2. \A other \in Kinds : WasSent(r, pub[r].seq, other) => other = pub[r].sending
    BY <1>2, <2>1 DEF ClosedInv, ServiceInv, SentOnce
  <2>. QED
    BY <1>1, <1>2, <2>1, <2>2
<1>3. ASSUME ClosedInv, NEW b \in late
      PROVE  BatchAnswer(b[1], b[2], b[3]) # "changed_retry"
  <2>1. b[1] \in Runs /\ b[2] \in Nat /\ b[3] \in Kinds /\ b = <<b[1], b[2], b[3]>>
    BY <1>3 DEF ClosedInv, ServiceInv, ServiceTyped
  <2>2. \A other \in Kinds : WasSent(b[1], b[2], other) => other = b[3]
    <3>1. WasSent(b[1], b[2], b[3])
      BY <2>1 DEF WasSent
    <3>. QED
      BY <1>3, <2>1, <3>1 DEF ClosedInv, ServiceInv, SentOnce
  <2>. QED
    BY <1>1, <1>3, <2>1, <2>2
<1>4. ClosedInv => NeverChangedRetry
  BY <1>2, <1>3 DEF NeverChangedRetry
<1>. QED
  BY <1>4, ClosedHolds, PTL

(* AcknowledgedOutcome: a terminal event Pi has an acknowledgement of is how
   the run ended in Convex, and a session kept hot knows only runs that
   completed there (run-controller.ts, run; results.ts, acceptBatch). *)
THEOREM AcknowledgedOutcomeHolds == ServiceSpec => []AcknowledgedOutcome
<1>1. ClosedInv => AcknowledgedOutcome
  BY DEF ClosedInv, ServiceInv, RunWorks, SessionsKnow, AcknowledgedOutcome
<1>. QED
  BY <1>1, ClosedHolds, PTL
=============================================================================
