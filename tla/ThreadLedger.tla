------------------------------ MODULE ThreadLedger ------------------------------
(***************************************************************************)
(* What a reader of the threads is promised, without dispatch, batches or  *)
(* leases: a thread has at most one run in progress, and a run ends once,  *)
(* with one outcome.  ThreadRuns implements it.                            *)
(***************************************************************************)
CONSTANTS Threads, Runs, Outcomes, NoOutcome

VARIABLES
    open,       \* <<thread, run>>: the runs in progress
    outcome     \* of each run

ledgerVars == <<open, outcome>>

Init ==
    /\ open = {}
    /\ outcome = [r \in Runs |-> NoOutcome]

Begin(t, r) ==
    /\ \A p \in open : p[1] # t /\ p[2] # r
    /\ outcome[r] = NoOutcome
    /\ open' = open \cup {<<t, r>>}
    /\ UNCHANGED outcome

(* Runs that end together end alike. *)
End(S, o) ==
    /\ S # {} /\ S \subseteq open
    /\ open' = open \ S
    /\ outcome' = [r \in Runs |->
                      IF \E p \in S : p[2] = r THEN o ELSE outcome[r]]

Next ==
    \/ \E t \in Threads, r \in Runs : Begin(t, r)
    \/ \E S \in SUBSET open, o \in Outcomes : End(S, o)

Spec == Init /\ [][Next]_ledgerVars

=============================================================================
