----------------------------- MODULE DiscordState -----------------------------
(***************************************************************************)
(* The pure decision functions of apps/convex/convex/lib/discord_state.ts: *)
(* window bounds, claim and retry decisions, generation fencing and the    *)
(* predicates over outbox replies.  They read records with the field names *)
(* of the source; a reply is a record of the outbox (see DiscordLoop).     *)
(***************************************************************************)
EXTENDS Naturals

CONSTANTS
    DISCORD_CONTEXT_SIZE,             \* messages in one window (10 in the code)
    DISCORD_MAX_LOOP_ERROR_ATTEMPTS   \* failed loops before a channel is parked (3)

ASSUME WindowAssumption == DISCORD_CONTEXT_SIZE \in Nat \ {0}
ASSUME ErrorAssumption == DISCORD_MAX_LOOP_ERROR_ATTEMPTS \in Nat \ {0}

Larger(a, b) == IF a >= b THEN a ELSE b
Smaller(a, b) == IF a <= b THEN a ELSE b

-----------------------------------------------------------------------------
(* Windows over the per-channel message sequence.  discordWindowBounds also
   has a recheck window; recheckPending is never stored TRUE, so only windows
   of unconsumed messages are claimed. *)

HasPendingMessages(s) == s.trigger > s.completed

messageWindow_overlapping(s) ==
    [mode |-> "messages",
     start |-> Larger(1, s.completed),
     end |-> Smaller(s.trigger, s.completed + DISCORD_CONTEXT_SIZE)]

messageWindow(s) ==
    [mode |-> "messages",
     start |-> s.completed + 1,
     end |-> Smaller(s.trigger, s.completed + DISCORD_CONTEXT_SIZE)]

-----------------------------------------------------------------------------
(* Claims and retries. *)

(* The 30 s cooldown is a delay every later action may already have waited. *)
discordLoopErrorRetryReady(s) ==
    /\ s.status = "error"
    /\ s.lease = "none"
    /\ HasPendingMessages(s)
    /\ s.errors < DISCORD_MAX_LOOP_ERROR_ATTEMPTS

discordNextLoopErrorCount(current, retryable) ==
    IF retryable THEN Smaller(DISCORD_MAX_LOOP_ERROR_ATTEMPTS, current + 1)
    ELSE DISCORD_MAX_LOOP_ERROR_ATTEMPTS

isCurrentDiscordGeneration(s, r, generation) ==
    s.run = r /\ s.generation = generation

-----------------------------------------------------------------------------
(* Replies. *)

Unsettled == {"pending", "delivery_uncertain", "needs_reconciliation"}
Unresolved == {"delivery_uncertain", "needs_reconciliation"}
Confirmed == {"sent", "finalized"}

OfRun(reply, r, generation) ==
    /\ reply.status # "absent"
    /\ reply.run = r
    /\ reply.generation = generation

hasSentDiscordFinalizer(replies, r, generation) ==
    \E q \in DOMAIN replies :
        /\ OfRun(replies[q], r, generation)
        /\ replies[q].status = "sent"
        /\ replies[q].finalizesLoop

hasPendingDiscordReply(replies, r, generation) ==
    \E q \in DOMAIN replies :
        OfRun(replies[q], r, generation) /\ replies[q].status \in Unsettled

=============================================================================
