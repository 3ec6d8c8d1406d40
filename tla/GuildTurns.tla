------------------------------- MODULE GuildTurns -------------------------------
(***************************************************************************)
(* What the guild conversation promises to its readers, without fences,    *)
(* leases, cursors or an outbox: assistant turns are taken one at a time   *)
(* and never reopened, and a reply becomes visible once, for good, until   *)
(* the owner has the guild's data deleted.  DiscordLoop implements it.     *)
(***************************************************************************)
CONSTANTS Turns, Replies

VARIABLES
    open,       \* turns in progress, at most one
    over,       \* turns that were completed, suppressed, failed or cancelled
    visible     \* replies that are visible history

turnVars == <<open, over, visible>>

Init == open = {} /\ over = {} /\ visible = {}

(* A turn begins; one that was left open ends as it does. *)
Begin(t) ==
    /\ t \notin open \cup over
    /\ open' = {t}
    /\ over' = over \cup open
    /\ UNCHANGED visible

End ==
    /\ open # {}
    /\ open' = {}
    /\ over' = over \cup open
    /\ UNCHANGED visible

Publish(q) ==
    /\ q \notin visible
    /\ visible' = visible \cup {q}
    /\ UNCHANGED <<open, over>>

Erase == open' = {} /\ over' = {} /\ visible' = {}

Next ==
    \/ \E t \in Turns : Begin(t)
    \/ End
    \/ \E q \in Replies : Publish(q)
    \/ Erase

Spec == Init /\ [][Next]_turnVars

=============================================================================
