------------------------------ MODULE ResearchJobs ------------------------------
(***************************************************************************)
(* The research of one market-research edition or preview: its row, its    *)
(* evidence and the ledger of what its searches cost in Convex             *)
(* (market_research.ts), the actions that dispatch it                      *)
(* (market_research_dispatch.ts), and the attempts at it in Pi (jobs.ts,   *)
(* runner.ts, exa-client.ts and agent-tools.ts of apps/pi), with the queue *)
(* of callbacks from Pi to Convex (convex-client.ts).                      *)
(*                                                                         *)
(* An attempt has a generation, under which it was claimed.  Its calls to  *)
(* Convex go through one queue for all attempts at the same edition: the   *)
(* next is sent when the last was answered or given up, and one given up   *)
(* may still arrive.  Searches stand for all paid requests, and the stages *)
(* collecting to composing, which nothing tests, for one, "working".  What  *)
(* an abandoned request turns out to cost later adds an event but reopens   *)
(* no budget, and is left out.                                             *)
(***************************************************************************)
EXTENDS Naturals, FiniteSets, Sequences

CONSTANTS
    Slots,           \* searches an agent may make
    Budget,          \* searches allowed for an edition
    RetryAttempts,   \* attempts after which a failure is final
    MaxGenerations,  \* bound: claims
    MaxTheses,       \* bound: revisions of the thesis by other editions
    Delayable,       \* bound: operations of callbacks that may arrive late
    MaxDelayed,      \* bound: callbacks given up that may still arrive
    None

ASSUME ResearchAssumption ==
    /\ Budget \in Nat \ {0}
    /\ RetryAttempts \in Nat
    /\ MaxGenerations \in Nat \ {0}
    /\ MaxTheses \in Nat
    /\ MaxDelayed \in Nat
    /\ IsFiniteSet(Slots)
    /\ None \notin Nat \X Nat

VARIABLES
    row,       \* the marketResearchEditions or marketResearchPreviews row
    evidence,  \* which payment each stored search result is from
    ledger,    \* the marketResearchCostEvents rows, and their number in the row
    thesis,    \* who wrote each revision of the stock's thesis
    job,       \* the attempts, by generation: "dispatched" is on its way to Pi
    queue,     \* Pi's callbacks about this edition
    delayed    \* callbacks Pi gave up, which still arrive or are lost

researchVars == <<row, evidence, ledger, thesis, job, queue, delayed>>

Generations == 1..MaxGenerations

Kinds == {"edition", "preview"}

Init ==
    /\ row = [kind |-> None, status |-> "absent", generation |-> 0, lease |-> "none",
              memory |-> 0]
    /\ evidence = [s \in Slots |-> None]
    /\ ledger = [events |-> {}, observed |-> 0]
    /\ thesis = <<>>
    /\ job = [g \in Generations |-> None]
    /\ queue = <<>>
    /\ delayed = {}

Max2(a, b) == IF a <= b THEN b ELSE a

-----------------------------------------------------------------------------
(* Convex: claims.  The attempts of a row are counted by its generation.  A
   cost event has the attempt's generation, its number, and whether the cost
   is known. *)

(* manualTrigger and checkDueEditions; here as below, what queues a row also
   schedules its dispatch. *)
create ==
    \E kind \in Kinds :
      /\ row.status = "absent"
      /\ row' = [row EXCEPT !.kind = kind, !.status = "queued",
                            !.memory = Len(thesis)]
      /\ UNCHANGED <<evidence, ledger, thesis, job, queue, delayed>>

durableExaUsage ==
    [used |-> Cardinality(ledger.events),
     closed |-> \E e \in ledger.events : ~e.known]

NoPacket == [s \in Slots |-> None]

(* The fields of a claim, and the job request it returns, which the calling
   action sends to Pi. *)
Claim ==
    LET g == row.generation + 1
    IN /\ g \in Generations
       /\ row' = [row EXCEPT !.status = "working", !.generation = g, !.lease = "live"]
       /\ job' = [job EXCEPT ![g] =
              [phase |-> "dispatched", packet |-> NoPacket,
               used |-> durableExaUsage.used, closed |-> durableExaUsage.closed,
               paid |-> 0]]
       /\ UNCHANGED <<evidence, ledger, thesis, queue, delayed>>

(* The scheduled dispatchEdition or dispatchPreview, with claimResearch or
   claimPreview: a scheduled edition that did not start before its cutoff is
   skipped, and one that was cancelled left alone. *)
dispatch ==
    /\ row.status = "queued"
    /\ \/ Claim
       \/ /\ row.kind = "edition" /\ row.generation = 0
          /\ row' = [row EXCEPT !.status = "skipped_late"]
          /\ UNCHANGED <<evidence, ledger, thesis, job, queue, delayed>>

LeaseExpires ==
    /\ row.lease = "live"
    /\ row' = [row EXCEPT !.lease = "expired"]
    /\ UNCHANGED <<evidence, ledger, thesis, job, queue, delayed>>

(* mutant: only failures that were reported are recovered *)
recoverBatch_reportedOnly ==
    /\ row.kind = "edition" /\ row.status = "retry_wait"
    /\ Claim

recoverBatch ==
    \/ /\ row.kind = "edition"
       /\ \/ row.status = "working" /\ row.lease = "expired"
          \/ row.status = "retry_wait"
       /\ Claim
    \/ /\ row.kind = "preview" /\ row.status = "working" /\ row.lease = "expired"
       /\ row' = [row EXCEPT !.status = "queued", !.lease = "none"]
       /\ UNCHANGED <<evidence, ledger, thesis, job, queue, delayed>>

cancelUnstarted ==
    /\ row.kind = "edition" /\ row.status = "queued"
    /\ row' = [row EXCEPT !.status = "cancelled"]
    /\ UNCHANGED <<evidence, ledger, thesis, job, queue, delayed>>

(* Of an edition that is not composed. *)
retryEdition ==
    /\ row.kind = "edition" /\ row.status \in {"failed", "retry_wait"}
    /\ row' = [row EXCEPT !.status = "queued"]
    /\ UNCHANGED <<evidence, ledger, thesis, job, queue, delayed>>

-----------------------------------------------------------------------------
(* Convex: what a callback does.  Each is an operator over the rows; the first
   two fences are activeResearchLease and activePreviewLease. *)

HoldsLease(g) == row.lease = "live" /\ row.generation = g

Accepts(c) ==
    \/ c.op = "cost"
    \/ HoldsLease(c.generation) /\
       CASE c.op = "append"   -> evidence[c.slot] \in {None, c.payment}
         [] c.op = "complete" -> \A s \in Slots : c.packet[s] # None =>
                                                    c.packet[s] = evidence[s]
         [] OTHER             -> TRUE

(* mutant: a failure is not checked against the lease *)
failRun_unfenced(g) ==
    \E status \in {"retry_wait", "failed"} :
       /\ status = "retry_wait" => row.kind = "edition" /\ row.generation <= RetryAttempts
       /\ row' = [row EXCEPT !.lease = "none", !.status = status]

(* Some failures can be retried, but not an edition's last attempt's. *)
failRun(g) ==
    IF HoldsLease(g)
    THEN \E status \in {"retry_wait", "failed"} :
           /\ status = "retry_wait" =>
                row.kind = "edition" /\ row.generation <= RetryAttempts
           /\ row' = [row EXCEPT !.lease = "none", !.status = status]
    ELSE UNCHANGED row

appendEvidence(c) ==
    evidence' = IF Accepts(c) THEN [evidence EXCEPT ![c.slot] = c.payment] ELSE evidence

(* mutant: the revision an edition was given is not compared *)
commitThesisUpdates_lastWriter ==
    thesis' = IF row.kind = "edition" THEN Append(thesis, "this") ELSE thesis

(* Other editions may have written the thesis since this one was created. *)
commitThesisUpdates ==
    thesis' = IF row.kind = "edition" /\ Len(thesis) = row.memory
              THEN Append(thesis, "this") ELSE thesis

completeComposition(c) ==
    IF Accepts(c)
    THEN /\ row' = [row EXCEPT !.lease = "none", !.status = "composed"]
         /\ commitThesisUpdates
    ELSE UNCHANGED <<row, thesis>>

persistExaCostEvent(c) ==
    LET event == [generation |-> c.generation, number |-> c.number, known |-> c.known]
    IN ledger' = IF event \in ledger.events THEN ledger
                 ELSE [events |-> ledger.events \cup {event},
                       observed |-> ledger.observed + 1]

Executes(c) ==
    CASE c.op = "load"     -> UNCHANGED <<row, evidence, ledger, thesis>>
      [] c.op = "append"   -> appendEvidence(c) /\ UNCHANGED <<row, ledger, thesis>>
      [] c.op = "complete" -> completeComposition(c) /\ UNCHANGED <<evidence, ledger>>
      [] c.op = "fail"     -> /\ failRun(c.generation)
                              /\ UNCHANGED <<evidence, ledger, thesis>>
      [] c.op = "cost"     -> /\ persistExaCostEvent(c)
                              /\ UNCHANGED <<row, evidence, thesis>>

(* Another edition of the same stock is accepted, which a preview ignores. *)
otherThesis ==
    /\ row.kind # "preview"
    /\ Cardinality({i \in DOMAIN thesis : thesis[i] = "other"}) < MaxTheses
    /\ thesis' = Append(thesis, "other")
    /\ UNCHANGED <<row, evidence, ledger, job, queue, delayed>>

-----------------------------------------------------------------------------
(* The dispatching action, sendJob *)

(* Pi refused, the request or its answer was lost, or it took too long.  The
   action may have died too, or have its answer: nothing changes then. *)
sendJobFails(g) ==
    /\ HoldsLease(g)
    /\ failRun(g)
    /\ UNCHANGED <<evidence, ledger, thesis, job, queue, delayed>>

-----------------------------------------------------------------------------
(* Pi *)

In(g, phase) == job[g] # None /\ job[g].phase = phase

Calls(callbacks) == queue' = queue \o callbacks

(* The packet of an attempt, and what it counts, go with it. *)
Ended(phase) ==
    [phase |-> phase, packet |-> NoPacket, used |-> 0, closed |-> FALSE, paid |-> 0]

(* A registry at its capacity, or shutting down, refuses; the request may also
   be lost. *)
submit(g) ==
    /\ In(g, "dispatched")
    /\ \/ /\ job' = [job EXCEPT ![g].phase = "starting"]
          /\ Calls(<<[op |-> "load", generation |-> g]>>)
       \/ /\ job' = [job EXCEPT ![g] = Ended("ended")]
          /\ UNCHANGED queue
    /\ UNCHANGED <<row, evidence, ledger, thesis, delayed>>

Cost(g, number, known) ==
    [op |-> "cost", generation |-> g, number |-> number, known |-> known]

(* mutant: the payments of an attempt are not held against its budget *)
MaySearch_uncounted(g, s) ==
    /\ In(g, "researching") /\ job[g].packet[s] = None
    /\ ~job[g].closed

MaySearch(g, s) ==
    /\ In(g, "researching") /\ job[g].packet[s] = None
    /\ ~job[g].closed /\ job[g].used < Budget

(* A search that returns: what it cost is reported, then its result stored.
   One whose cost is missing is taken as abandoned. *)
searchSettles(g, s) ==
    LET number == job[g].paid + 1
    IN /\ MaySearch(g, s)
       /\ job' = [job EXCEPT ![g].phase = "storing", ![g].paid = number,
                             ![g].used = @ + 1]
       /\ Calls(<<Cost(g, number, TRUE),
                  [op |-> "append", generation |-> g, slot |-> s,
                   payment |-> <<g, number>>]>>)
       /\ UNCHANGED <<row, evidence, ledger, thesis, delayed>>

(* A search that is aborted or takes too long goes on in the provider's SDK. *)
searchAbandoned(g, s) ==
    LET number == job[g].paid + 1
    IN /\ MaySearch(g, s)
       /\ job' = [job EXCEPT ![g].paid = number, ![g].used = @ + 1,
                     ![g].closed = TRUE]
       /\ Calls(<<Cost(g, number, FALSE)>>)
       /\ UNCHANGED <<row, evidence, ledger, thesis, delayed>>

(* The report is written, or the attempt ends: a model or provider error, the
   deadline, or a heartbeat that found the lease lost. *)
compose(g) ==
    /\ In(g, "researching")
    /\ job' = [job EXCEPT ![g].phase = "completing"]
    /\ Calls(<<[op |-> "complete", generation |-> g, packet |-> job[g].packet]>>)
    /\ UNCHANGED <<row, evidence, ledger, thesis, delayed>>

runFails(g) ==
    /\ In(g, "researching")
    /\ job' = [job EXCEPT ![g].phase = "failing"]
    /\ Calls(<<[op |-> "fail", generation |-> g]>>)
    /\ UNCHANGED <<row, evidence, ledger, thesis, delayed>>

(* mutant: the calls do not wait for each other *)
NextCalls_unordered == DOMAIN queue

(* Which of its calls Pi makes next. *)
NextCalls == {1}

Rest(i) == [k \in 1..(Len(queue) - 1) |-> IF k < i THEN queue[k] ELSE queue[k + 1]]

Stored == {s \in Slots : evidence[s] # None}

(* mutant: the stored results are counted, not reused *)
Resumed_countsOnly(attempt) ==
    [attempt EXCEPT !.phase = "researching",
                    !.used = Max2(@, Cardinality(Stored))]

(* A new attempt starts from what earlier ones stored. *)
Resumed(attempt) ==
    [attempt EXCEPT !.phase = "researching", !.packet = evidence,
                    !.used = Max2(@, Cardinality(Stored))]

(* mutant: a result is used whether or not it was stored *)
Keeps_unstored(attempt, c, accepted) ==
    [attempt EXCEPT !.phase = "researching", !.packet[c.slot] = c.payment]

(* A result is used once it is stored. *)
Keeps(attempt, c, accepted) ==
    [attempt EXCEPT !.phase = "researching",
                    !.packet[c.slot] = IF accepted THEN c.payment ELSE @]

(* What an attempt makes of the answer to its call. *)
Continues(c, i, accepted) ==
    LET g == c.generation
        fails == /\ job' = [job EXCEPT ![g].phase = "failing"]
                 /\ queue' = Append(Rest(i), [op |-> "fail", generation |-> g])
    IN CASE c.op = "load" /\ accepted ->
              job' = [job EXCEPT ![g] = Resumed(@)] /\ queue' = Rest(i)
         [] c.op = "append" ->
              job' = [job EXCEPT ![g] = Keeps(@, c, accepted)] /\ queue' = Rest(i)
         [] c.op = "complete" /\ accepted -> job' = [job EXCEPT ![g] = Ended("ended")] /\ queue' = Rest(i)
         [] c.op = "fail" -> job' = [job EXCEPT ![g] = Ended("failed")] /\ queue' = Rest(i)
         [] c.op = "cost" -> UNCHANGED job /\ queue' = Rest(i)
         [] OTHER -> fails

callback ==
    \E i \in NextCalls \cap DOMAIN queue :
      /\ Executes(queue[i])
      /\ Continues(queue[i], i, Accepts(queue[i]))
      /\ UNCHANGED delayed

(* A call that throws or takes too long: it was executed, or still may be, or
   is lost.  The report of a cost is repeated, up to three times. *)
callbackFails ==
    \E i \in NextCalls \cap DOMAIN queue :
      LET c == queue[i]
      IN /\ \/ Executes(c) /\ UNCHANGED delayed
            \/ /\ \/ UNCHANGED delayed
                  \/ /\ c.op \in Delayable /\ Cardinality(delayed) < MaxDelayed
                     /\ delayed' = delayed \cup {c}
               /\ UNCHANGED <<row, evidence, ledger, thesis>>
         /\ IF c.op # "cost" THEN Continues(c, i, FALSE)
            ELSE UNCHANGED job /\ queue' \in {queue, Rest(i)}

Arrives(c) ==
    /\ c \in delayed
    /\ delayed' = delayed \ {c}
    /\ Executes(c)
    /\ UNCHANGED <<job, queue>>

EndPhases == {"ended", "failed"}

(* Pi forgets its attempts and calls. *)
RestartPi ==
    LET running == {g \in Generations :
                      job[g] # None /\ job[g].phase \notin EndPhases \cup {"dispatched"}}
    IN /\ running # {}
       /\ job' = [g \in Generations |->
              IF g \in running THEN Ended("ended") ELSE job[g]]
       /\ queue' = <<>>
       /\ UNCHANGED <<row, evidence, ledger, thesis, delayed>>

-----------------------------------------------------------------------------
Researches(g) ==
    \/ \E s \in Slots : searchSettles(g, s) \/ searchAbandoned(g, s)
    \/ compose(g)
    \/ runFails(g)

Next ==
    \/ create
    \/ dispatch
    \/ LeaseExpires
    \/ recoverBatch
    \/ cancelUnstarted
    \/ retryEdition
    \/ otherThesis
    \/ \E g \in Generations : \/ sendJobFails(g)
                              \/ submit(g)
                              \/ Researches(g)
    \/ callback
    \/ callbackFails
    \/ \E c \in delayed : Arrives(c)
    \/ RestartPi

Spec == Init /\ [][Next]_researchVars

(* The recovery cron runs every minute, and a lease runs out: only an attempt
   renews it, which is aborted at its own timeout.  A dispatch is a scheduled
   action, which runs at most once and may never reach its claim: no fairness. *)
FairSpec ==
    /\ Spec
    /\ WF_researchVars(recoverBatch)
    /\ WF_researchVars(LeaseExpires)

-----------------------------------------------------------------------------
Payments == Generations \X Nat

Phases == {"dispatched", "starting", "researching", "storing", "completing", "failing"}
          \cup EndPhases

Packets == [Slots -> Payments \cup {None}]

Rows ==
    [kind : Kinds \cup {None},
     status : {"absent", "queued", "working", "retry_wait", "failed",
               "skipped_late", "cancelled", "composed"},
     generation : 0..MaxGenerations, lease : {"none", "live", "expired"},
     memory : Nat]

Events == [generation : Generations, number : 0..Budget, known : BOOLEAN]

Attempts ==
    [phase : Phases, packet : Packets, used : Nat, closed : BOOLEAN, paid : 0..Budget]

ASSUME NoneAssumption == None \notin Attempts

Callbacks ==
    [op : {"load", "fail"}, generation : Generations]
    \cup [op : {"append"}, generation : Generations, slot : Slots, payment : Payments]
    \cup [op : {"complete"}, generation : Generations, packet : Packets]
    \cup [op : {"cost"}, generation : Generations, number : 0..Budget, known : BOOLEAN]

(* Rows, attempts and callbacks have their shapes, and no attempt pays for more
   than the budget of its edition allows. *)
TypeOK ==
    /\ row \in Rows
    /\ evidence \in Packets
    /\ ledger \in [events : SUBSET Events, observed : Nat]
    /\ thesis \in Seq({"this", "other"})
    /\ job \in [Generations -> Attempts \cup {None}]
    /\ queue \in Seq(Callbacks)
    /\ delayed \subseteq Callbacks

(* A retry does not pay for a search whose result an earlier attempt stored. *)
PaidOnlyMissing ==
    [][\A g \in Generations, s \in Slots :
         searchSettles(g, s) \/ searchAbandoned(g, s) =>
            evidence[s] = None \/ evidence[s][1] >= g]_researchVars

(* When an attempt has reported its failure, none of its payments still waits
   to be reported: each report was answered, or given up after three tries. *)
PaymentsBeforeFailure ==
    \A g \in Generations : In(g, "failed") =>
        \A i \in DOMAIN queue : queue[i].op = "cost" => queue[i].generation # g

(* What an attempt has in hand is what is stored, as long as it holds the
   lease: its result is not refused for its evidence. *)
PacketIsStored ==
    \A g \in Generations : job[g] # None /\ HoldsLease(g) =>
        \A s \in Slots : job[g].packet[s] # None => job[g].packet[s] = evidence[s]

(* Once composed, cancelled or skipped, an edition keeps its result: late
   failures and old attempts change neither its status nor its evidence. *)
AcceptedIsFinal ==
    [][row.status \in {"composed", "cancelled", "skipped_late"} =>
          row'.status = row.status /\ UNCHANGED evidence]_researchVars

(* The edition revises a thesis once, and only the revision it was given. *)
ThesisUpdatesFollowMemory ==
    \A i \in DOMAIN thesis : thesis[i] = "this" => i = row.memory + 1

UnderWay(g) == row.generation = g /\ row.status \in {"working", "retry_wait"}

(* Whatever is lost and however often Pi restarts, a row does not stay with a
   dead or failed attempt: it is claimed for the next, queued, or ends.  (The
   last attempt the bound allows has no next one; and nothing is said of a row
   that is queued, whose dispatch nothing repeats.) *)
AttemptsLetGo ==
    \A g \in Generations \ {MaxGenerations} : UnderWay(g) ~> ~UnderWay(g)

=============================================================================
