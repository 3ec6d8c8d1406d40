---------------------------- MODULE ResearchSchedule ----------------------------
(***************************************************************************)
(* The schedule of the market newspaper: the preferences of each guild,    *)
(* the cron that creates the editions that are due, page by page, and the  *)
(* owner's manual editions (market_research.ts and lib/market_research.ts  *)
(* of apps/convex).                                                        *)
(*                                                                         *)
(* Time is counted in ticks of a UTC clock.  A time zone is its offset at  *)
(* each tick, so that clocks may go forward or back.  What the research    *)
(* (ResearchJobs) and the publication (ForumPublication) do to an edition  *)
(* is one step here.  Market sessions and their calendars are left out, and *)
(* test editions, each of which has a request's key to itself.             *)
(***************************************************************************)
EXTENDS Integers, Sequences, FiniteSets

CONSTANTS
    Guilds,
    Zones,
    Offset(_, _),    \* local time less UTC, in a zone at a tick
    Day,             \* ticks of a day
    Settings,        \* zones, times of day and includeWeekends that owners choose
    Cutoff,          \* lateEditionCutoffLocalTime
    Weekend,         \* dates that are a Saturday or Sunday
    PageSize,        \* preferences per page of a check
    LastTick,        \* bound: the clock
    MaxUpdates,      \* bound: changes of preferences
    MaxMissed,       \* bound: ticks in a row without a complete check
    Busy,            \* bound: guilds whose editions are researched or made by hand
    MaxRevisions,    \* bound: editions for a date
    None

ASSUME ScheduleAssumption ==
    /\ Day \in Nat \ {0} /\ Cutoff \in 0..(Day - 1)
    /\ Settings \subseteq [zone : Zones, time : 0..(Day - 1), includeWeekends : BOOLEAN]
    /\ IsFiniteSet(Guilds) /\ Busy \subseteq Guilds /\ PageSize \in Nat \ {0}
    /\ LastTick \in Nat /\ MaxUpdates \in Nat /\ MaxMissed \in Nat /\ MaxRevisions \in Nat
    /\ None \notin Int
    /\ None \notin [kind : {"before", "due", "skipped_late"}, date : Int, cutoffAt : Int]

VARIABLES
    now,
    preferences,   \* the marketResearchPreferences rows
    updates,       \* the latest updatedAt
    editions,      \* the revisions for each scheduledKey: a guild and a date
    scans,         \* cursors of checks that go on with another page
    cron           \* whether a check began in this tick; ticks in a row that missed one

scheduleVars == <<now, preferences, updates, editions, scans, cron>>

Dates == 0..(LastTick \div Day + 1)

Init ==
    /\ now = 0
    /\ preferences = [g \in Guilds |-> None]
    /\ updates = 0
    /\ editions = [g \in Guilds |-> [k \in Dates |-> <<>>]]
    /\ scans = {}
    /\ cron = [ran |-> FALSE, missed |-> 0]

-----------------------------------------------------------------------------
(* lib/market_research.ts *)

zonedDateParts(t, zone) == t + Offset(zone, t)

DateOf(t, zone) == zonedDateParts(t, zone) \div Day

(* The times the schedule can ask about. *)
Instants == -(3 * Day) .. (LastTick + 3 * Day)

(* Time zones: local time is less than a day from UTC, and no change of the
   clocks leads back to a date that was over. *)
ASSUME ZonesAssumption ==
    \A z \in Zones :
       /\ \A t \in Instants : Offset(z, t) \in -(Day - 1) .. (Day - 1)
       /\ \A t, u \in Instants : t <= u => DateOf(t, z) <= DateOf(u, z)

(* The instant of a local time, found by correcting a guess four times; None is
   the exception session_unknown. *)
localToInstant(date, time, zone) ==
    LET desired == date * Day + time
        Corrected(t) == desired - Offset(zone, t)
        candidate == Corrected(Corrected(Corrected(Corrected(desired))))
    IN IF zonedDateParts(candidate, zone) = desired THEN candidate ELSE None

(* None when it throws. *)
dueScheduleDecision(p) ==
    LET date == DateOf(now, p.zone)
        scheduledFor == localToInstant(date, p.time, p.zone)
        cutoffAt == localToInstant(date, Cutoff, p.zone)
    IN IF scheduledFor = None \/ cutoffAt = None THEN None
       ELSE [kind |-> IF now < scheduledFor THEN "before"
                      ELSE IF now < cutoffAt THEN "due" ELSE "skipped_late",
             date |-> date, cutoffAt |-> cutoffAt]

scheduleDayEnabled(p, date) == p.includeWeekends \/ date \notin Weekend

-----------------------------------------------------------------------------
(* Preferences.  savePreferences, saveControlSettings and setEnabled: any
   change makes the row the latest. *)
savePreferences(g) ==
    \E s \in Settings, enabled \in BOOLEAN :
      /\ updates < MaxUpdates
      /\ preferences' = [preferences EXCEPT ![g] =
             [zone |-> s.zone, time |-> s.time, includeWeekends |-> s.includeWeekends,
              enabled |-> enabled, updatedAt |-> updates + 1, savedAt |-> now]]
      /\ updates' = updates + 1
      /\ UNCHANGED <<now, editions, scans, cron>>

-----------------------------------------------------------------------------
(* Editions *)

createEdition(p, decision, trigger) ==
    [trigger |-> trigger, zone |-> p.zone, cutoffAt |-> decision.cutoffAt,
     started |-> FALSE,
     status |-> IF decision.kind = "skipped_late" THEN "skipped_late" ELSE "queued"]

(* Enabled preferences after the cursor, and the page of them that comes first
   by updatedAt. *)
Remaining(cursor) ==
    {g \in Guilds : preferences[g] # None /\ preferences[g].enabled
                    /\ preferences[g].updatedAt > cursor}

Page(cursor) ==
    {g \in Remaining(cursor) :
        Cardinality({h \in Remaining(cursor) :
                        preferences[h].updatedAt < preferences[g].updatedAt}) < PageSize}

Decision(g) == dueScheduleDecision(preferences[g])

(* mutant: an edition the owner made does not count *)
Creates_besidesManual(g) ==
    /\ Decision(g).kind # "before"
    /\ scheduleDayEnabled(preferences[g], Decision(g).date)
    /\ \A i \in DOMAIN editions[g][Decision(g).date] :
          editions[g][Decision(g).date][i].trigger # "scheduled"

Creates(g) ==
    /\ Decision(g).kind # "before"
    /\ scheduleDayEnabled(preferences[g], Decision(g).date)
    /\ editions[g][Decision(g).date] = <<>>

(* mutant: the check ends with its first page *)
checkDueEditions_onePage(cursor) ==
    /\ editions' = [g \in Guilds |->
           IF g \in Page(cursor) /\ Creates(g)
           THEN [editions[g] EXCEPT ![Decision(g).date] =
                    Append(@, createEdition(preferences[g], Decision(g), "scheduled"))]
           ELSE editions[g]]
    /\ scans' = scans \ {cursor}

(* A page of the check.  If one decision throws, the page does nothing and no
   other follows. *)
checkDueEditions(cursor) ==
    IF \E g \in Page(cursor) : Decision(g) = None
    THEN scans' = scans \ {cursor} /\ UNCHANGED editions
    ELSE /\ editions' = [g \in Guilds |->
                IF g \in Page(cursor) /\ Creates(g)
                THEN [editions[g] EXCEPT ![Decision(g).date] =
                         Append(@, createEdition(preferences[g], Decision(g), "scheduled"))]
                ELSE editions[g]]
         /\ scans' = (scans \ {cursor}) \cup
                IF Page(cursor) = Remaining(cursor) THEN {}
                ELSE {CHOOSE u \in {preferences[g].updatedAt : g \in Page(cursor)} :
                         \A g \in Page(cursor) : preferences[g].updatedAt <= u}

startCheck ==
    /\ ~cron.ran
    /\ checkDueEditions(0)
    /\ cron' = [cron EXCEPT !.ran = TRUE]
    /\ UNCHANGED <<now, preferences, updates>>

continueCheck ==
    /\ \E cursor \in scans : checkDueEditions(cursor)
    /\ UNCHANGED <<now, preferences, updates, cron>>

(* Whether an edition is created: the first, one after a skipped one, or a
   published one again. *)
manualEditionDisposition(revisions, regenerate) ==
    IF revisions = <<>> THEN ~regenerate
    ELSE LET status == revisions[Len(revisions)].status
         IN IF regenerate THEN status = "published" ELSE status = "skipped_late"

manualTrigger(g) ==
    \E regenerate \in BOOLEAN :
      /\ preferences[g] # None /\ Decision(g) # None
      /\ Len(editions[g][Decision(g).date]) < MaxRevisions
      /\ manualEditionDisposition(editions[g][Decision(g).date], regenerate)
      /\ editions' = [editions EXCEPT ![g][Decision(g).date] =
             Append(@, createEdition(preferences[g], [Decision(g) EXCEPT !.kind = "due"],
                                     IF regenerate THEN "regeneration" ELSE "manual_publish"))]
      /\ UNCHANGED <<now, preferences, updates, scans, cron>>

-----------------------------------------------------------------------------
(* What becomes of an edition *)

Becomes(g, k, i, status) ==
    /\ editions' = [editions EXCEPT ![g][k][i].status = status]
    /\ UNCHANGED <<now, preferences, updates, scans, cron>>

(* mutant: only a scheduler that comes too late skips *)
shouldSkipUnstartedEdition_never(e) == FALSE

shouldSkipUnstartedEdition(e) ==
    e.trigger = "scheduled" /\ ~e.started /\ now >= e.cutoffAt

(* With the research and the publication, which may fail. *)
claimResearch(g, k, i) ==
    LET e == editions[g][k][i]
    IN /\ e.status = "queued"
       /\ \/ shouldSkipUnstartedEdition(e) /\ Becomes(g, k, i, "skipped_late")
          \/ /\ ~shouldSkipUnstartedEdition(e)
             /\ \E status \in {"published", "failed"} :
                  editions' = [editions EXCEPT ![g][k][i].status = status,
                                               ![g][k][i].started = TRUE]
             /\ UNCHANGED <<now, preferences, updates, scans, cron>>

retryEdition(g, k, i) ==
    editions[g][k][i].status = "failed" /\ Becomes(g, k, i, "queued")

cancelUnstarted(g, k, i) ==
    editions[g][k][i].status = "queued" /\ Becomes(g, k, i, "cancelled")

-----------------------------------------------------------------------------
(* A minute without a check, or whose check is still going on, is a missed one. *)
Tick ==
    LET missed == IF cron.ran /\ scans = {} THEN 0 ELSE cron.missed + 1
    IN /\ now < LastTick /\ missed <= MaxMissed
       /\ now' = now + 1
       /\ cron' = [ran |-> FALSE, missed |-> missed]
       /\ UNCHANGED <<preferences, updates, editions, scans>>

Next ==
    \/ \E g \in Guilds : savePreferences(g)
    \/ \E g \in Busy : manualTrigger(g)
    \/ startCheck
    \/ continueCheck
    \/ \E g \in Busy, k \in Dates : \E i \in DOMAIN editions[g][k] :
          \/ claimResearch(g, k, i)
          \/ retryEdition(g, k, i)
          \/ cancelUnstarted(g, k, i)
    \/ Tick

Spec == Init /\ [][Next]_scheduleVars

-----------------------------------------------------------------------------
Preferences == [zone : Zones, time : 0..(Day - 1), includeWeekends : BOOLEAN, enabled : BOOLEAN,
                updatedAt : 1..MaxUpdates, savedAt : 0..LastTick]

Editions == [trigger : {"scheduled", "manual_publish", "regeneration"}, zone : Zones,
             cutoffAt : Int, started : BOOLEAN,
             status : {"queued", "failed", "published", "cancelled",
                       "skipped_late"}]

TypeOK ==
    /\ now \in 0..LastTick
    /\ preferences \in [Guilds -> Preferences \cup {None}]
    /\ updates \in 0..MaxUpdates
    /\ editions \in [Guilds -> [Dates -> Seq(Editions)]]
    /\ scans \in SUBSET (1..MaxUpdates)
    /\ cron \in [ran : BOOLEAN, missed : 0..MaxMissed]

(* A date has one paper: the schedule makes an edition only as its first, and
   another only follows one that was published or skipped, which stays so. *)
OnePaperPerDate ==
    \A g \in Guilds, k \in Dates : \A i \in DOMAIN editions[g][k] :
        /\ i > 1 => editions[g][k][i].trigger # "scheduled"
        /\ i < Len(editions[g][k]) => editions[g][k][i].status \in {"published", "skipped_late"}

(* A scheduled edition is begun on its own date, however long it was queued and
   whatever the clocks do. *)
StartsOnItsDate ==
    [][\A g \in Guilds, k \in Dates : \A i \in DOMAIN editions[g][k] :
         LET e == editions[g][k][i]
         IN e.trigger = "scheduled" /\ ~e.started /\ editions'[g][k][i].started =>
               DateOf(now, e.zone) = k]_scheduleVars

(* A schedule that was in force from its time on a date until the date was over
   has an edition for the date, if only a skipped one: no page, change of
   another guild or change of the clocks makes the check miss it. *)
DatesRecorded ==
    \A g \in Guilds : LET p == preferences[g] IN p # None =>
        \A d \in Dates :
            /\ p.enabled /\ scheduleDayEnabled(p, d)
            /\ d < DateOf(now, p.zone)
            /\ zonedDateParts(p.savedAt, p.zone) < d * Day + p.time
            => editions[g][d] # <<>>

-----------------------------------------------------------------------------
(* What DatesRecorded rests on.  Neither is the code's doing: owners choose the
   times, and a check that throws records nothing for anyone on its page. *)

(* On every date the clocks show the cutoff and the times that were chosen. *)
ClocksShowTheTimes ==
    \A s \in Settings, t \in 0..LastTick :
        None \notin {localToInstant(DateOf(t, s.zone), time, s.zone) : time \in {s.time, Cutoff}}

(* The first tick that a schedule saved at tick u asks for an edition in. *)
FirstDue(s, d, u) ==
    LET at == localToInstant(d, s.time, s.zone) IN IF at > u THEN at ELSE u + 1

(* Then the date goes on for longer than checks may be missed. *)
DatesLeaveTime ==
    \A s \in Settings, d \in Dates, u \in 0..LastTick :
        /\ d < DateOf(LastTick, s.zone) /\ scheduleDayEnabled(s, d)
        /\ zonedDateParts(u, s.zone) < d * Day + s.time
        => /\ localToInstant(d, s.time, s.zone) \in Instants
           /\ \A i \in 0..MaxMissed : DateOf(FirstDue(s, d, u) + i, s.zone) = d

=============================================================================
