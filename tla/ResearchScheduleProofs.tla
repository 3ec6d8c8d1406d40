------------------------- MODULE ResearchScheduleProofs -------------------------
(***************************************************************************)
(* Proofs about ResearchSchedule for every value of its constants.         *)
(*                                                                         *)
(* OnePaperPerDate is inductive with the types: an edition is appended as  *)
(* the first of its date, or by hand after one that was published or       *)
(* skipped, and what happens to an edition later is only possible in other *)
(* states, so to the last one.                                             *)
(*                                                                         *)
(* StartsOnItsDate needs more than the step that begins an edition: its    *)
(* cutoff, computed when it was created, is an instant of its own date,    *)
(* and the date has come.  As dates never go back, an edition begun before *)
(* its cutoff is begun on that date.                                       *)
(*                                                                         *)
(* DatesRecorded follows pages and checks.  A check begun in this tick has *)
(* made the edition that is due, or has a page to go whose cursor lies     *)
(* before the preference (Reaching): a page goes on from the last          *)
(* preference it served, in the order of updates, so it skips none, and a  *)
(* preference saved meanwhile moves to the end.  What was due by the last  *)
(* complete check is therefore made (Reached), and a date goes on for      *)
(* longer than complete checks may be missed, so when it is over, such a   *)
(* check has come to it.                                                   *)
(***************************************************************************)
EXTENDS ResearchSchedule, FiniteSetTheorems, WellFoundedInduction, TLAPS

-----------------------------------------------------------------------------
(* Clocks. *)

(* An instant and the midnight before it are less than a day apart. *)
LEMMA DayOfInstant ==
    ASSUME NEW x \in Int
    PROVE  /\ x \div Day \in Int
           /\ (x \div Day) * Day <= x
           /\ x < (x \div Day) * Day + Day
BY ScheduleAssumption

LEMMA DayOfTime ==
    ASSUME NEW k \in Int, NEW r \in 0..(Day - 1)
    PROVE  (k * Day + r) \div Day = k
BY ScheduleAssumption

LEMMA ClockFacts ==
    /\ Day \in Nat \ {0} /\ LastTick \in Nat /\ None \notin Int
    /\ Instants \subseteq Int /\ 0..LastTick \subseteq Instants
BY ScheduleAssumption DEF Instants

LEMMA DateIsInt ==
    ASSUME NEW t \in Instants, NEW zone \in Zones
    PROVE  Offset(zone, t) \in Int /\ DateOf(t, zone) \in Int
<1>1. t + Offset(zone, t) \in Int /\ Offset(zone, t) \in Int
  BY ClockFacts, ZonesAssumption
<1>. QED
  BY <1>1, DayOfInstant DEF DateOf, zonedDateParts

(* An instant that localToInstant finds for a time of today is of today. *)
LEMMA InstantOfToday ==
    ASSUME NEW t \in 0..LastTick, NEW zone \in Zones, NEW time \in 0..(Day - 1),
           localToInstant(DateOf(t, zone), time, zone) # None
    PROVE  /\ localToInstant(DateOf(t, zone), time, zone) \in Instants
           /\ DateOf(localToInstant(DateOf(t, zone), time, zone), zone) = DateOf(t, zone)
<1>. DEFINE date == DateOf(t, zone)
            desired == date * Day + time
            Corrected(u) == desired - Offset(zone, u)
            Near(u) == u \in Int /\ -(3 * Day) < u - t /\ u - t < 3 * Day
<1>1. date \in Int /\ Offset(zone, t) \in -(Day - 1) .. (Day - 1)
  BY ClockFacts, DateIsInt, ZonesAssumption
<1>2. date * Day <= t + Offset(zone, t) /\ t + Offset(zone, t) < date * Day + Day
  <2>1. t + Offset(zone, t) \in Int
    BY <1>1, ClockFacts
  <2>. QED
    BY <2>1, DayOfInstant DEF DateOf, zonedDateParts
<1>3. date * Day \in Int /\ desired \in Int
  BY <1>1, ClockFacts
<1>4. -(2 * Day) < desired - t /\ desired - t < 2 * Day
  <2>. HIDE DEF date
  <2>. DEFINE midnight == date * Day
  <2>1. /\ midnight \in Int /\ midnight <= t + Offset(zone, t)
        /\ t + Offset(zone, t) < midnight + Day
    BY <1>2, <1>3
  <2>. HIDE DEF midnight
  <2>2. desired = midnight + time
    BY DEF midnight
  <2>3. Offset(zone, t) \in Int /\ -(Day - 1) <= Offset(zone, t) /\ Offset(zone, t) <= Day - 1
    BY <1>1, ClockFacts
  <2>. QED
    BY <2>1, <2>2, <2>3, ClockFacts
<1>. HIDE DEF desired, date
<1>5. \A u : Near(u) => u \in Instants
  BY ClockFacts DEF Instants
<1>6. ASSUME NEW u \in Instants PROVE Near(Corrected(u))
  <2>1. Offset(zone, u) \in -(Day - 1) .. (Day - 1)
    BY ZonesAssumption
  <2>. QED
    BY <2>1, <1>3, <1>4, ClockFacts
<1>. HIDE DEF Corrected, Near
<1>. DEFINE candidate == Corrected(Corrected(Corrected(Corrected(desired))))
<1>7. desired \in Instants
  BY <1>3, <1>4, ClockFacts DEF Instants
<1>8. candidate \in Instants
  <2>1. Corrected(desired) \in Instants
    BY <1>5, <1>6, <1>7
  <2>2. Corrected(Corrected(desired)) \in Instants
    BY <1>5, <1>6, <2>1
  <2>3. Corrected(Corrected(Corrected(desired))) \in Instants
    BY <1>5, <1>6, <2>2
  <2>. QED
    BY <1>5, <1>6, <2>3
<1>9. localToInstant(date, time, zone)
        = IF zonedDateParts(candidate, zone) = desired THEN candidate ELSE None
  BY DEF localToInstant, Corrected, desired
<1>. HIDE DEF candidate
<1>10. /\ localToInstant(date, time, zone) = candidate
       /\ zonedDateParts(candidate, zone) = desired
  BY <1>9 DEF date
<1>11. DateOf(candidate, zone) = date
  BY <1>1, <1>10, DayOfTime DEF DateOf, desired
<1>. QED
  BY <1>8, <1>10, <1>11 DEF date

(* A decision is about today. *)
LEMMA DecisionOfToday ==
    ASSUME TypeOK, NEW g \in Guilds, preferences[g] # None, Decision(g) # None
    PROVE  /\ preferences[g] \in Preferences
           /\ Decision(g).date = DateOf(now, preferences[g].zone)
           /\ Decision(g).cutoffAt \in Instants
           /\ DateOf(Decision(g).cutoffAt, preferences[g].zone) = Decision(g).date
           /\ Decision(g).kind \in {"before", "due", "skipped_late"}
<1>. DEFINE p == preferences[g]
            date == DateOf(now, p.zone)
            cutoffAt == localToInstant(date, Cutoff, p.zone)
<1>1. p \in Preferences /\ p.zone \in Zones
  BY DEF TypeOK, Preferences
<1>2. /\ cutoffAt # None
      /\ Decision(g).date = date /\ Decision(g).cutoffAt = cutoffAt
      /\ Decision(g).kind \in {"before", "due", "skipped_late"}
  BY DEF Decision, dueScheduleDecision
<1>3. now \in 0..LastTick /\ Cutoff \in 0..(Day - 1)
  BY ScheduleAssumption DEF TypeOK
<1>4. cutoffAt \in Instants /\ DateOf(cutoffAt, p.zone) = date
  BY <1>1, <1>2, <1>3, InstantOfToday
<1>. QED
  BY <1>1, <1>2, <1>4

-----------------------------------------------------------------------------
(* The pages of a check. *)

LEMMA LeastNatural ==
    ASSUME NEW T, T \subseteq Nat, T # {}
    PROVE  \E x \in T : \A y \in T : x <= y
<1>. DEFINE R == OpToRel(<, Nat)
<1>1. IsWellFoundedOn(R, Nat)
  BY NatLessThanWellFounded
<1>2. R = {ss \in Nat \X Nat : ss[1] < ss[2]}
  BY DEF OpToRel
<1>. HIDE DEF R
<1>3. PICK x \in T : \A y \in T : ~ (<<y, x>> \in R)
  BY <1>1, WFMin
<1>4. ASSUME NEW y \in T PROVE x <= y
  <2>1. y \in Nat /\ x \in Nat
    OBVIOUS
  <2>2. <<y, x>> \in Nat \X Nat => (<<y, x>> \in R <=> y < x)
    BY <1>2
  <2>. QED
    BY <2>1, <2>2, <1>3
<1>. QED
  BY <1>4

LEMMA LatestUpdate ==
    ASSUME NEW T, T \subseteq 1..MaxUpdates, T # {}
    PROVE  \E x \in T : \A y \in T : y <= x
<1>. DEFINE Rest == {n \in Nat : \E y \in T : n = MaxUpdates - y}
<1>1. MaxUpdates \in Nat
  BY ScheduleAssumption
<1>2. Rest \subseteq Nat /\ Rest # {}
  <2>1. PICK y \in T : y \in 1..MaxUpdates
    OBVIOUS
  <2>2. MaxUpdates - y \in Rest
    BY <1>1, <2>1
  <2>. QED
    BY <2>2
<1>3. PICK n \in Rest : \A m \in Rest : n <= m
  BY <1>2, LeastNatural
<1>4. PICK x \in T : n = MaxUpdates - x
  BY <1>3
<1>5. ASSUME NEW y \in T PROVE y <= x
  <2>1. MaxUpdates - y \in Rest
    BY <1>1
  <2>. QED
    BY <2>1, <1>1, <1>3, <1>4
<1>. QED
  BY <1>5

(* A page is not empty while a preference remains, so there is a last one to go
   on from. *)
LEMMA PageContinues ==
    ASSUME TypeOK, NEW cursor, Page(cursor) # Remaining(cursor)
    PROVE  (CHOOSE u \in {preferences[g].updatedAt : g \in Page(cursor)} :
               \A g \in Page(cursor) : preferences[g].updatedAt <= u) \in 1..MaxUpdates
<1>. DEFINE Of(G) == {preferences[g].updatedAt : g \in G}
<1>1. /\ Page(cursor) \subseteq Remaining(cursor) /\ Remaining(cursor) \subseteq Guilds
      /\ Remaining(cursor) # {}
  BY DEF Page, Remaining
<1>2. \A g \in Remaining(cursor) : preferences[g].updatedAt \in 1..MaxUpdates
  BY DEF Remaining, TypeOK, Preferences
<1>3. PICK x \in Of(Remaining(cursor)) : \A y \in Of(Remaining(cursor)) : x <= y
  <2>1. Of(Remaining(cursor)) \subseteq Nat /\ Of(Remaining(cursor)) # {}
    BY <1>1, <1>2
  <2>. QED
    BY <2>1, LeastNatural
<1>4. PICK first \in Remaining(cursor) : preferences[first].updatedAt = x
  BY <1>3
<1>5. {h \in Remaining(cursor) :
          preferences[h].updatedAt < preferences[first].updatedAt} = {}
  BY <1>2, <1>3, <1>4
<1>6. first \in Page(cursor)
  <2>1. Cardinality({h \in Remaining(cursor) :
                        preferences[h].updatedAt < preferences[first].updatedAt}) = 0
    BY <1>5, FS_EmptySet
  <2>2. 0 < PageSize
    BY ScheduleAssumption
  <2>. QED
    BY <2>1, <2>2 DEF Page
<1>7. Of(Page(cursor)) \subseteq 1..MaxUpdates /\ Of(Page(cursor)) # {}
  BY <1>1, <1>2, <1>6
<1>8. \E u \in Of(Page(cursor)) : \A y \in Of(Page(cursor)) : y <= u
  BY <1>7, LatestUpdate
<1>. QED
  BY <1>7, <1>8

-----------------------------------------------------------------------------
(* Types. *)

LEMMA CreatedTyped ==
    ASSUME TypeOK, NEW g \in Guilds, preferences[g] # None, Decision(g) # None,
           NEW decision, decision.cutoffAt = Decision(g).cutoffAt,
           NEW trigger \in {"scheduled", "manual_publish", "regeneration"}
    PROVE  createEdition(preferences[g], decision, trigger) \in Editions
<1>1. preferences[g].zone \in Zones /\ Decision(g).cutoffAt \in Int
  BY DecisionOfToday, ClockFacts DEF Preferences
<1>. QED
  BY <1>1 DEF createEdition, Editions

LEMMA CheckTyped ==
    ASSUME TypeOK, NEW cursor, checkDueEditions(cursor)
    PROVE  /\ editions' \in [Guilds -> [Dates -> Seq(Editions)]]
           /\ scans' \in SUBSET (1..MaxUpdates)
<1>1. CASE \E g \in Page(cursor) : Decision(g) = None
  BY <1>1 DEF checkDueEditions, TypeOK
<1>2. CASE ~ \E g \in Page(cursor) : Decision(g) = None
  <2>1. scans' \in SUBSET (1..MaxUpdates)
    <3>1. CASE Page(cursor) = Remaining(cursor)
      BY <1>2, <3>1 DEF checkDueEditions, TypeOK
    <3>2. CASE Page(cursor) # Remaining(cursor)
      <4>. DEFINE last == CHOOSE u \in {preferences[g].updatedAt : g \in Page(cursor)} :
                              \A g \in Page(cursor) : preferences[g].updatedAt <= u
      <4>1. last \in 1..MaxUpdates
        BY <3>2, PageContinues
      <4>2. scans' = (scans \ {cursor}) \cup {last}
        BY <1>2, <3>2 DEF checkDueEditions
      <4>. QED
        BY <4>1, <4>2 DEF TypeOK
    <3>. QED
      BY <3>1, <3>2
  <2>2. ASSUME NEW g \in Guilds, g \in Page(cursor)
        PROVE  [editions[g] EXCEPT ![Decision(g).date] =
                   Append(@, createEdition(preferences[g], Decision(g), "scheduled"))]
                 \in [Dates -> Seq(Editions)]
    <3>1. preferences[g] # None /\ Decision(g) # None
      BY <1>2, <2>2 DEF Page, Remaining
    <3>2. createEdition(preferences[g], Decision(g), "scheduled") \in Editions
      BY <3>1, CreatedTyped
    <3>3. editions[g] \in [Dates -> Seq(Editions)]
      BY DEF TypeOK
    <3>. DEFINE e == createEdition(preferences[g], Decision(g), "scheduled")
                d == Decision(g).date
    <3>4. d \in Dates => Append(editions[g][d], e) \in Seq(Editions)
      BY <3>2, <3>3
    <3>. QED
      BY <3>3, <3>4
  <2>3. editions' = [g \in Guilds |->
            IF g \in Page(cursor) /\ Creates(g)
            THEN [editions[g] EXCEPT ![Decision(g).date] =
                     Append(@, createEdition(preferences[g], Decision(g), "scheduled"))]
            ELSE editions[g]]
    BY <1>2 DEF checkDueEditions
  <2>4. \A g \in Guilds : editions[g] \in [Dates -> Seq(Editions)]
    BY DEF TypeOK
  <2>. QED
    BY <2>1, <2>2, <2>3, <2>4
<1>. QED
  BY <1>1, <1>2

LEMMA RevisedTyped ==
    ASSUME TypeOK, NEW g \in Guilds, NEW k \in Dates, NEW i \in DOMAIN editions[g][k],
           NEW e \in Editions
    PROVE  [editions EXCEPT ![g][k][i] = e] \in [Guilds -> [Dates -> Seq(Editions)]]
<1>1. editions[g][k] \in Seq(Editions)
  BY DEF TypeOK
<1>2. [editions[g][k] EXCEPT ![i] = e] \in Seq(Editions)
  BY <1>1
<1>3. [editions EXCEPT ![g][k][i] = e] = [editions EXCEPT ![g][k] = [@ EXCEPT ![i] = e]]
  BY DEF TypeOK
<1>. QED
  BY <1>2, <1>3 DEF TypeOK

LEMMA InitTyped == Init => TypeOK
BY ScheduleAssumption DEF Init, TypeOK

(* A revision of an edition by the research, the owner or the late check. *)
LEMMA RevisionTyped ==
    ASSUME TypeOK, NEW g \in Guilds, NEW k \in Dates, NEW i \in DOMAIN editions[g][k],
           claimResearch(g, k, i) \/ retryEdition(g, k, i) \/ cancelUnstarted(g, k, i)
    PROVE  /\ UNCHANGED <<now, preferences, updates, scans, cron>>
           /\ editions[g][k][i] \in Editions
           /\ \E e \in Editions :
                 /\ editions' = [editions EXCEPT ![g][k][i] = e]
                 /\ e.trigger = editions[g][k][i].trigger
                 /\ e.zone = editions[g][k][i].zone
                 /\ e.cutoffAt = editions[g][k][i].cutoffAt
                 /\ e.started /\ ~editions[g][k][i].started
                      => ~shouldSkipUnstartedEdition(editions[g][k][i])
           /\ editions[g][k][i].status \in {"queued", "failed"}
<1>. DEFINE old == editions[g][k][i]
<1>1. old \in Editions /\ editions[g][k] \in Seq(Editions)
  BY DEF TypeOK
<1>2. ASSUME NEW status \in {"skipped_late", "queued", "cancelled"},
             Becomes(g, k, i, status)
      PROVE  /\ [old EXCEPT !.status = status] \in Editions
             /\ editions' = [editions EXCEPT ![g][k][i] = [old EXCEPT !.status = status]]
  <2>1. [old EXCEPT !.status = status] \in Editions
    BY <1>1 DEF Editions
  <2>2. editions' = [editions EXCEPT ![g][k][i] = [old EXCEPT !.status = status]]
    BY <1>1, <1>2 DEF Becomes, TypeOK
  <2>. QED
    BY <2>1, <2>2
<1>3. ASSUME NEW status \in {"published", "failed"},
             editions' = [editions EXCEPT ![g][k][i].status = status,
                                          ![g][k][i].started = TRUE]
      PROVE  /\ [old EXCEPT !.status = status, !.started = TRUE] \in Editions
             /\ editions' = [editions EXCEPT ![g][k][i] =
                                [old EXCEPT !.status = status, !.started = TRUE]]
  <2>1. [old EXCEPT !.status = status, !.started = TRUE] \in Editions
    BY <1>1 DEF Editions
  <2>2. editions' = [editions EXCEPT ![g][k][i] =
                        [old EXCEPT !.status = status, !.started = TRUE]]
    BY <1>1, <1>3 DEF TypeOK
  <2>. QED
    BY <2>1, <2>2
<1>4. CASE claimResearch(g, k, i)
  <2>1. CASE shouldSkipUnstartedEdition(old) /\ Becomes(g, k, i, "skipped_late")
    <3>. DEFINE e == [old EXCEPT !.status = "skipped_late"]
    <3>1. e \in Editions /\ editions' = [editions EXCEPT ![g][k][i] = e]
      BY <1>2, <2>1
    <3>. QED
      BY <1>1, <1>4, <2>1, <3>1 DEF claimResearch, Becomes, Editions
  <2>2. CASE ~shouldSkipUnstartedEdition(old)
    <3>1. PICK status \in {"published", "failed"} :
              editions' = [editions EXCEPT ![g][k][i].status = status,
                                           ![g][k][i].started = TRUE]
      BY <1>4, <2>2 DEF claimResearch
    <3>. DEFINE e == [old EXCEPT !.status = status, !.started = TRUE]
    <3>2. e \in Editions /\ editions' = [editions EXCEPT ![g][k][i] = e]
      BY <1>3, <3>1
    <3>. QED
      BY <1>1, <1>4, <2>2, <3>2 DEF claimResearch, Becomes, Editions
  <2>. QED
    BY <1>4, <2>1, <2>2 DEF claimResearch
<1>5. CASE retryEdition(g, k, i)
  <2>. DEFINE e == [old EXCEPT !.status = "queued"]
  <2>1. e \in Editions /\ editions' = [editions EXCEPT ![g][k][i] = e]
    BY <1>2, <1>5 DEF retryEdition
  <2>. QED
    BY <1>1, <1>5, <2>1 DEF retryEdition, Becomes, Editions
<1>6. CASE cancelUnstarted(g, k, i)
  <2>. DEFINE e == [old EXCEPT !.status = "cancelled"]
  <2>1. e \in Editions /\ editions' = [editions EXCEPT ![g][k][i] = e]
    BY <1>2, <1>6 DEF cancelUnstarted
  <2>. QED
    BY <1>1, <1>6, <2>1 DEF cancelUnstarted, Becomes, Editions
<1>. QED
  BY <1>4, <1>5, <1>6

LEMMA ManualTyped ==
    ASSUME TypeOK, NEW g \in Guilds, manualTrigger(g)
    PROVE  /\ editions' \in [Guilds -> [Dates -> Seq(Editions)]]
           /\ UNCHANGED <<now, preferences, updates, scans, cron>>
<1>. DEFINE d == Decision(g).date
<1>1. PICK regenerate \in BOOLEAN :
        /\ preferences[g] # None /\ Decision(g) # None
        /\ editions' = [editions EXCEPT ![g][d] =
               Append(@, createEdition(preferences[g], [Decision(g) EXCEPT !.kind = "due"],
                                 IF regenerate THEN "regeneration" ELSE "manual_publish"))]
        /\ UNCHANGED <<now, preferences, updates, scans, cron>>
  BY DEF manualTrigger
<1>. DEFINE e == createEdition(preferences[g], [Decision(g) EXCEPT !.kind = "due"],
                               IF regenerate THEN "regeneration" ELSE "manual_publish")
<1>2. [Decision(g) EXCEPT !.kind = "due"].cutoffAt = Decision(g).cutoffAt
  BY <1>1 DEF Decision, dueScheduleDecision
<1>3. e \in Editions
  BY <1>1, <1>2, CreatedTyped
<1>4. editions[g] \in [Dates -> Seq(Editions)]
  BY DEF TypeOK
<1>5. d \in Dates => Append(editions[g][d], e) \in Seq(Editions)
  BY <1>3, <1>4
<1>6. [editions[g] EXCEPT ![d] = Append(@, e)] \in [Dates -> Seq(Editions)]
  BY <1>4, <1>5
<1>7. editions' = [editions EXCEPT ![g][d] = Append(@, e)]
  BY <1>1
<1>8. editions \in [Guilds -> [Dates -> Seq(Editions)]]
  BY DEF TypeOK
<1>. HIDE DEF d, e
<1>9. editions' \in [Guilds -> [Dates -> Seq(Editions)]]
  BY <1>6, <1>7, <1>8
<1>. QED
  BY <1>1, <1>9

LEMMA NextTyped == TypeOK /\ [Next]_scheduleVars => TypeOK'
<1>. SUFFICES ASSUME TypeOK, [Next]_scheduleVars PROVE TypeOK'
  OBVIOUS
<1>1. ASSUME NEW g \in Guilds, savePreferences(g) PROVE TypeOK'
  <2>1. PICK s \in Settings, enabled \in BOOLEAN :
          /\ updates < MaxUpdates
          /\ preferences' = [preferences EXCEPT ![g] =
                 [zone |-> s.zone, time |-> s.time, includeWeekends |-> s.includeWeekends,
                  enabled |-> enabled, updatedAt |-> updates + 1, savedAt |-> now]]
          /\ updates' = updates + 1
          /\ UNCHANGED <<now, editions, scans, cron>>
    BY <1>1 DEF savePreferences
  <2>2. s \in [zone : Zones, time : 0..(Day - 1), includeWeekends : BOOLEAN]
    BY ScheduleAssumption
  <2>3. updates + 1 \in 1..MaxUpdates /\ now \in 0..LastTick
    BY <2>1, ScheduleAssumption DEF TypeOK
  <2>4. [zone |-> s.zone, time |-> s.time, includeWeekends |-> s.includeWeekends,
         enabled |-> enabled, updatedAt |-> updates + 1, savedAt |-> now] \in Preferences
    BY <2>2, <2>3 DEF Preferences
  <2>5. updates' \in 0..MaxUpdates
    BY <2>1, <2>3, ScheduleAssumption
  <2>. QED
    BY <2>1, <2>4, <2>5 DEF TypeOK
<1>2. ASSUME NEW g \in Guilds, manualTrigger(g) PROVE TypeOK'
  <2>1. /\ editions' \in [Guilds -> [Dates -> Seq(Editions)]]
        /\ UNCHANGED <<now, preferences, updates, scans, cron>>
    BY <1>2, ManualTyped
  <2>. QED
    BY <2>1 DEF TypeOK
<1>3. CASE startCheck
  <2>1. checkDueEditions(0) /\ cron' = [cron EXCEPT !.ran = TRUE]
        /\ UNCHANGED <<now, preferences, updates>>
    BY <1>3 DEF startCheck
  <2>2. /\ editions' \in [Guilds -> [Dates -> Seq(Editions)]]
        /\ scans' \in SUBSET (1..MaxUpdates)
    BY <2>1, CheckTyped
  <2>. QED
    BY <2>1, <2>2 DEF TypeOK
<1>4. CASE continueCheck
  <2>1. PICK cursor \in scans : checkDueEditions(cursor)
    BY <1>4 DEF continueCheck
  <2>2. /\ editions' \in [Guilds -> [Dates -> Seq(Editions)]]
        /\ scans' \in SUBSET (1..MaxUpdates)
    BY <2>1, CheckTyped
  <2>. QED
    BY <1>4, <2>2 DEF continueCheck, TypeOK
<1>5. ASSUME NEW g \in Guilds, NEW k \in Dates, NEW i \in DOMAIN editions[g][k],
             claimResearch(g, k, i) \/ retryEdition(g, k, i) \/ cancelUnstarted(g, k, i)
      PROVE  TypeOK'
  <2>1. PICK e \in Editions : editions' = [editions EXCEPT ![g][k][i] = e]
    BY <1>5, RevisionTyped
  <2>2. UNCHANGED <<now, preferences, updates, scans, cron>>
    BY <1>5, RevisionTyped
  <2>3. editions' \in [Guilds -> [Dates -> Seq(Editions)]]
    BY <2>1, RevisedTyped
  <2>. QED
    BY <2>2, <2>3 DEF TypeOK
<1>6. CASE Tick
  BY <1>6, ScheduleAssumption DEF Tick, TypeOK
<1>7. CASE UNCHANGED scheduleVars
  BY <1>7 DEF scheduleVars, TypeOK
<1>. QED
  <2>1. Busy \subseteq Guilds
    BY ScheduleAssumption
  <2>. QED
    BY <1>1, <1>2, <1>3, <1>4, <1>5, <1>6, <1>7, <2>1 DEF Next

(* Preferences, editions, cursors and the clock keep their form, whatever the
   settings, zones and page size. *)
THEOREM TypeCorrect == Spec => []TypeOK
BY InitTyped, NextTyped, PTL DEF Spec

-----------------------------------------------------------------------------
(* What a step does to the editions of a date. *)

Final == {"published", "skipped_late"}

(* The schedule, or the owner, adds an edition. *)
Added(g, k) ==
    \E e \in Editions :
       /\ editions'[g][k] = Append(editions[g][k], e)
       /\ ~e.started
       /\ editions[g][k] # <<>> =>
             /\ e.trigger # "scheduled"
             /\ editions[g][k][Len(editions[g][k])].status \in Final
       /\ e.trigger = "scheduled" =>
             /\ e.cutoffAt \in Instants /\ DateOf(e.cutoffAt, e.zone) = k
             /\ DateOf(now, e.zone) = k

(* An edition that is queued or failed goes on; it is only begun in time. *)
Revised(g, k) ==
    \E i \in DOMAIN editions[g][k], e \in Editions :
       /\ editions'[g][k] = [editions[g][k] EXCEPT ![i] = e]
       /\ editions[g][k][i].status \in {"queued", "failed"}
       /\ e.trigger = editions[g][k][i].trigger
       /\ e.zone = editions[g][k][i].zone
       /\ e.cutoffAt = editions[g][k][i].cutoffAt
       /\ e.started /\ ~editions[g][k][i].started
             => ~shouldSkipUnstartedEdition(editions[g][k][i])

StepOfDate(g, k) ==
    editions'[g][k] = editions[g][k] \/ Added(g, k) \/ Revised(g, k)

LEMMA CheckSteps ==
    ASSUME TypeOK, NEW cursor, checkDueEditions(cursor), NEW g \in Guilds, NEW k \in Dates
    PROVE  StepOfDate(g, k)
<1>. DEFINE d == Decision(g).date
            e == createEdition(preferences[g], Decision(g), "scheduled")
<1>1. CASE \E h \in Page(cursor) : Decision(h) = None
  BY <1>1 DEF checkDueEditions, StepOfDate
<1>2. CASE ~ (\E h \in Page(cursor) : Decision(h) = None)
  <2>1. editions'[g] = IF g \in Page(cursor) /\ Creates(g)
                       THEN [editions[g] EXCEPT ![d] = Append(@, e)] ELSE editions[g]
    BY <1>2 DEF checkDueEditions
  <2>2. editions[g] \in [Dates -> Seq(Editions)]
    BY DEF TypeOK
  <2>3. CASE g \in Page(cursor) /\ Creates(g) /\ d = k
    <3>1. preferences[g] # None /\ Decision(g) # None
      BY <1>2, <2>3 DEF Page, Remaining
    <3>2. e \in Editions
      BY <3>1, CreatedTyped
    <3>3. /\ d = DateOf(now, preferences[g].zone)
          /\ Decision(g).cutoffAt \in Instants
          /\ DateOf(Decision(g).cutoffAt, preferences[g].zone) = d
      BY <3>1, DecisionOfToday
    <3>4. /\ ~e.started /\ e.trigger = "scheduled"
          /\ e.cutoffAt = Decision(g).cutoffAt /\ e.zone = preferences[g].zone
      BY DEF createEdition
    <3>5. editions[g][k] = <<>>
      BY <2>3 DEF Creates
    <3>. HIDE DEF d, e
    <3>6. editions'[g][k] = Append(editions[g][k], e)
      BY <2>1, <2>2, <2>3
    <3>. QED
      BY <2>3, <3>2, <3>3, <3>4, <3>5, <3>6 DEF StepOfDate, Added
  <2>4. CASE ~ (g \in Page(cursor) /\ Creates(g) /\ d = k)
    <3>. HIDE DEF d, e
    <3>. QED
      BY <2>1, <2>2, <2>4 DEF StepOfDate
  <2>. QED
    BY <2>3, <2>4
<1>. QED
  BY <1>1, <1>2

LEMMA ManualSteps ==
    ASSUME TypeOK, NEW h \in Guilds, manualTrigger(h), NEW g \in Guilds, NEW k \in Dates
    PROVE  StepOfDate(g, k)
<1>. DEFINE d == Decision(h).date
            E(regenerate) == createEdition(preferences[h], [Decision(h) EXCEPT !.kind = "due"],
                               IF regenerate THEN "regeneration" ELSE "manual_publish")
<1>1. PICK regenerate \in BOOLEAN :
        /\ preferences[h] # None /\ Decision(h) # None
        /\ manualEditionDisposition(editions[h][d], regenerate)
        /\ editions' = [editions EXCEPT ![h][d] = Append(@, E(regenerate))]
  BY DEF manualTrigger
<1>. DEFINE e == E(regenerate)
<1>2. [Decision(h) EXCEPT !.kind = "due"].cutoffAt = Decision(h).cutoffAt
  BY <1>1 DEF Decision, dueScheduleDecision
<1>3. e \in Editions
  BY <1>1, <1>2, CreatedTyped
<1>4. ~e.started /\ e.trigger # "scheduled"
  BY DEF createEdition
<1>5. editions' = [editions EXCEPT ![h][d] = Append(@, e)]
  BY <1>1
<1>6. editions \in [Guilds -> [Dates -> Seq(Editions)]]
  BY DEF TypeOK
<1>. HIDE DEF e, d
<1>7. CASE g = h /\ k = d
  <2>1. editions'[g][k] = Append(editions[g][k], e)
    BY <1>5, <1>6, <1>7
  <2>2. editions[g][k] # <<>> =>
          editions[g][k][Len(editions[g][k])].status \in Final
    BY <1>1, <1>7 DEF manualEditionDisposition, Final
  <2>. QED
    BY <1>3, <1>4, <2>1, <2>2 DEF StepOfDate, Added
<1>8. CASE ~ (g = h /\ k = d)
  BY <1>5, <1>6, <1>8 DEF StepOfDate
<1>. QED
  BY <1>7, <1>8

LEMMA RevisionSteps ==
    ASSUME TypeOK, NEW h \in Guilds, NEW d \in Dates, NEW i \in DOMAIN editions[h][d],
           claimResearch(h, d, i) \/ retryEdition(h, d, i) \/ cancelUnstarted(h, d, i),
           NEW g \in Guilds, NEW k \in Dates
    PROVE  StepOfDate(g, k)
<1>1. PICK e \in Editions :
         /\ editions' = [editions EXCEPT ![h][d][i] = e]
         /\ e.trigger = editions[h][d][i].trigger
         /\ e.zone = editions[h][d][i].zone
         /\ e.cutoffAt = editions[h][d][i].cutoffAt
         /\ e.started /\ ~editions[h][d][i].started
              => ~shouldSkipUnstartedEdition(editions[h][d][i])
  BY RevisionTyped
<1>2. editions[h][d][i].status \in {"queued", "failed"}
  BY RevisionTyped
<1>3. editions \in [Guilds -> [Dates -> Seq(Editions)]]
  BY DEF TypeOK
<1>4. CASE g = h /\ k = d
  <2>1. editions'[g][k] = [editions[g][k] EXCEPT ![i] = e]
    BY <1>1, <1>3, <1>4
  <2>. QED
    BY <1>1, <1>2, <1>4, <2>1 DEF StepOfDate, Revised
<1>5. CASE ~ (g = h /\ k = d)
  BY <1>1, <1>3, <1>5 DEF StepOfDate
<1>. QED
  BY <1>4, <1>5

(* Time goes on, and each date sees one of these steps. *)
LEMMA StepOfDates ==
    ASSUME TypeOK, [Next]_scheduleVars
    PROVE  /\ \A g \in Guilds, k \in Dates : StepOfDate(g, k)
           /\ now' \in {now, now + 1}
<1>0. now' \in {now, now + 1}
  <2>1. ASSUME NEW g \in Guilds, NEW k \in Dates, NEW i \in DOMAIN editions[g][k],
               claimResearch(g, k, i) \/ retryEdition(g, k, i) \/ cancelUnstarted(g, k, i)
        PROVE  now' = now
    BY <2>1, RevisionTyped
  <2>2. Busy \subseteq Guilds
    BY ScheduleAssumption
  <2>. QED
    BY <2>1, <2>2
    DEF Next, scheduleVars, savePreferences, manualTrigger, startCheck, continueCheck, Tick
<1>. SUFFICES ASSUME NEW g \in Guilds, NEW k \in Dates
              PROVE  StepOfDate(g, k)
  BY <1>0
<1>1. ASSUME NEW h \in Guilds, savePreferences(h)
      PROVE  StepOfDate(g, k)
  BY <1>1 DEF savePreferences, StepOfDate
<1>2. ASSUME NEW h \in Guilds, manualTrigger(h)
      PROVE  StepOfDate(g, k)
  BY <1>2, ManualSteps
<1>3. CASE startCheck
  BY <1>3, CheckSteps DEF startCheck
<1>4. CASE continueCheck
  BY <1>4, CheckSteps DEF continueCheck
<1>5. ASSUME NEW h \in Guilds, NEW d \in Dates, NEW i \in DOMAIN editions[h][d],
             claimResearch(h, d, i) \/ retryEdition(h, d, i) \/ cancelUnstarted(h, d, i)
      PROVE  StepOfDate(g, k)
  BY <1>5, RevisionSteps
<1>6. CASE Tick
  BY <1>6 DEF Tick, StepOfDate
<1>7. CASE UNCHANGED scheduleVars
  BY <1>7 DEF scheduleVars, StepOfDate
<1>8. Busy \subseteq Guilds
  BY ScheduleAssumption
<1>. QED
  BY <1>1, <1>2, <1>3, <1>4, <1>5, <1>6, <1>7, <1>8 DEF Next

-----------------------------------------------------------------------------
(* One paper for a date. *)

(* OnePaperPerDate of one date. *)
OnePaper(revisions) ==
    \A i \in DOMAIN revisions :
        /\ i > 1 => revisions[i].trigger # "scheduled"
        /\ i < Len(revisions) => revisions[i].status \in Final

LEMMA OnePaperStays ==
    ASSUME TypeOK, NEW g \in Guilds, NEW k \in Dates,
           StepOfDate(g, k), OnePaper(editions[g][k])
    PROVE  OnePaper(editions'[g][k])
<1>. DEFINE s == editions[g][k]
            t == editions'[g][k]
<1>1. s \in Seq(Editions)
  BY DEF TypeOK
<1>2. CASE t = s
  BY <1>2
<1>3. CASE Added(g, k)
  <2>1. PICK e \in Editions :
          /\ t = Append(s, e)
          /\ s # <<>> => e.trigger # "scheduled" /\ s[Len(s)].status \in Final
    BY <1>3 DEF Added
  <2>2. /\ t \in Seq(Editions) /\ Len(t) = Len(s) + 1 /\ t[Len(t)] = e
        /\ \A i \in 1..Len(s) : t[i] = s[i]
    BY <1>1, <2>1
  <2>3. ASSUME NEW i \in 1..Len(t)
        PROVE  /\ i > 1 => t[i].trigger # "scheduled"
               /\ i < Len(t) => t[i].status \in Final
    <3>1. CASE i = Len(t)
      BY <1>1, <2>1, <2>2, <3>1
    <3>2. CASE i # Len(t)
      BY <1>1, <2>1, <2>2, <3>2 DEF OnePaper
    <3>. QED
      BY <3>1, <3>2
  <2>4. DOMAIN t = 1..Len(t)
    BY <2>2
  <2>. QED
    BY <2>3, <2>4 DEF OnePaper
<1>4. CASE Revised(g, k)
  <2>1. PICK i \in DOMAIN s, e \in Editions :
          /\ t = [s EXCEPT ![i] = e]
          /\ s[i].status \in {"queued", "failed"}
          /\ e.trigger = s[i].trigger
    BY <1>4 DEF Revised
  <2>2. ~ (i < Len(s))
    BY <2>1 DEF OnePaper, Final
  <2>3. Len(t) = Len(s) /\ DOMAIN t = DOMAIN s
    BY <1>1, <2>1
  <2>4. ASSUME NEW j \in DOMAIN s
        PROVE  /\ j > 1 => t[j].trigger # "scheduled"
               /\ j < Len(t) => t[j].status \in Final
    <3>1. CASE j = i
      BY <1>1, <2>1, <2>2, <2>3, <3>1 DEF OnePaper
    <3>2. CASE j # i
      BY <1>1, <2>1, <2>3, <3>2 DEF OnePaper
    <3>. QED
      BY <3>1, <3>2
  <2>. QED
    BY <2>3, <2>4 DEF OnePaper
<1>. QED
  BY <1>2, <1>3, <1>4 DEF StepOfDate

(* The schedule makes an edition only as the first of its date, and every edition
   but the last stays published or skipped: for any guilds, zones and settings,
   whatever the owner does by hand (checkDueEditions, manualTrigger). *)
THEOREM OnePaperPerDateHolds == Spec => []OnePaperPerDate
<1>. DEFINE Inv == \A g \in Guilds, k \in Dates : OnePaper(editions[g][k])
<1>1. Init => Inv
  BY DEF Init, OnePaper
<1>2. TypeOK /\ Inv /\ [Next]_scheduleVars => Inv'
  BY StepOfDates, OnePaperStays
<1>3. Inv => OnePaperPerDate
  BY DEF OnePaper, OnePaperPerDate, Final
<1>. QED
  BY <1>1, <1>2, <1>3, TypeCorrect, PTL DEF Spec

-----------------------------------------------------------------------------
(* Begun on its date. *)

(* The cutoff of a scheduled edition is on its date, and the date has come. *)
OfItsDate(revisions, k) ==
    \A i \in DOMAIN revisions :
        revisions[i].trigger = "scheduled" =>
            /\ revisions[i].cutoffAt \in Instants
            /\ DateOf(revisions[i].cutoffAt, revisions[i].zone) = k
            /\ k <= DateOf(now, revisions[i].zone)

LEMMA DatesGoOn ==
    ASSUME TypeOK, TypeOK', now' \in {now, now + 1}, NEW zone \in Zones
    PROVE  /\ DateOf(now, zone) \in Int
           /\ DateOf(now, zone) <= DateOf(now', zone)
           /\ DateOf(now', zone) \in Int
<1>1. now \in 0..LastTick /\ now' \in 0..LastTick
  BY DEF TypeOK
<1>2. now \in Instants /\ now' \in Instants /\ now <= now'
  BY <1>1, ClockFacts
<1>. QED
  BY <1>2, DateIsInt, ZonesAssumption

LEMMA OfItsDateStays ==
    ASSUME TypeOK, TypeOK', now' \in {now, now + 1}, NEW g \in Guilds, NEW k \in Dates,
           StepOfDate(g, k), OfItsDate(editions[g][k], k)
    PROVE  OfItsDate(editions[g][k], k)'
<1>. DEFINE s == editions[g][k]
            t == editions'[g][k]
<1>1. s \in Seq(Editions) /\ t \in Seq(Editions)
  BY DEF TypeOK
<1>2. \A e \in Editions : e.zone \in Zones
  BY DEF Editions
<1>3. k \in Int
  BY ScheduleAssumption DEF Dates
<1>4. ASSUME NEW e \in Editions, e.cutoffAt \in Instants, DateOf(e.cutoffAt, e.zone) = k,
             k <= DateOf(now, e.zone)
      PROVE  k <= DateOf(now', e.zone)
  <2>. DEFINE before == DateOf(now, e.zone)
              after == DateOf(now', e.zone)
  <2>1. before \in Int /\ after \in Int /\ before <= after
    BY <1>2, DatesGoOn
  <2>. HIDE DEF before, after
  <2>2. k <= before
    BY <1>4 DEF before
  <2>. QED
    BY <1>3, <2>1, <2>2 DEF after
<1>5. ASSUME NEW i \in DOMAIN t, t[i].trigger = "scheduled"
      PROVE  /\ t[i].cutoffAt \in Instants
             /\ DateOf(t[i].cutoffAt, t[i].zone) = k
             /\ k <= DateOf(now', t[i].zone)
  <2>1. t[i] \in Editions
    BY <1>1
  <2>2. CASE i \in DOMAIN s /\ t[i].trigger = s[i].trigger
             /\ t[i].cutoffAt = s[i].cutoffAt /\ t[i].zone = s[i].zone
    BY <1>4, <1>5, <2>1, <2>2 DEF OfItsDate
  <2>3. CASE t = s
    BY <2>2, <2>3
  <2>4. CASE Added(g, k)
    <3>1. PICK e \in Editions :
            /\ t = Append(s, e)
            /\ e.trigger = "scheduled" =>
                  /\ e.cutoffAt \in Instants /\ DateOf(e.cutoffAt, e.zone) = k
                  /\ DateOf(now, e.zone) = k
      BY <2>4 DEF Added
    <3>2. CASE i \in DOMAIN s
      BY <1>1, <2>2, <3>1, <3>2
    <3>3. CASE i \notin DOMAIN s
      <4>1. t[i] = e
        BY <1>1, <3>1, <3>3
      <4>. QED
        BY <1>3, <1>4, <1>5, <3>1, <4>1
    <3>. QED
      BY <3>2, <3>3
  <2>5. CASE Revised(g, k)
    <3>1. PICK j \in DOMAIN s, e \in Editions :
            /\ t = [s EXCEPT ![j] = e]
            /\ e.trigger = s[j].trigger /\ e.zone = s[j].zone /\ e.cutoffAt = s[j].cutoffAt
      BY <2>5 DEF Revised
    <3>. QED
      BY <1>1, <2>2, <3>1
  <2>. QED
    BY <2>3, <2>4, <2>5 DEF StepOfDate
<1>. QED
  BY <1>5 DEF OfItsDate

(* A scheduled edition that is begun late, after a queue, a crash or a retry, is
   still begun on its own date, if dates never go back (claimResearch,
   shouldSkipUnstartedEdition). *)
THEOREM StartsOnItsDateHolds == Spec => StartsOnItsDate
<1>. DEFINE Inv == \A g \in Guilds, k \in Dates : OfItsDate(editions[g][k], k)
<1>1. Init => Inv
  BY DEF Init, OfItsDate
<1>2. TypeOK /\ TypeOK' /\ Inv /\ [Next]_scheduleVars => Inv'
  BY StepOfDates, OfItsDateStays
<1>3. ASSUME TypeOK, TypeOK', Inv, [Next]_scheduleVars,
             NEW g \in Guilds, NEW k \in Dates, NEW i \in DOMAIN editions[g][k],
             editions[g][k][i].trigger = "scheduled", ~editions[g][k][i].started,
             editions'[g][k][i].started
      PROVE  DateOf(now, editions[g][k][i].zone) = k
  <2>. DEFINE s == editions[g][k]
              t == editions'[g][k]
  <2>1. s \in Seq(Editions) /\ s[i] \in Editions /\ s[i].zone \in Zones
    <3>1. s \in Seq(Editions)
      BY <1>3 DEF TypeOK
    <3>2. s[i] \in Editions
      BY <1>3, <3>1
    <3>. QED
      BY <3>1, <3>2 DEF Editions
  <2>2. /\ s[i].cutoffAt \in Instants
        /\ DateOf(s[i].cutoffAt, s[i].zone) = k /\ k <= DateOf(now, s[i].zone)
    BY <1>3 DEF OfItsDate
  <2>3. t # s
    BY <1>3
  <2>4. ~Added(g, k)
    BY <1>3, <2>1 DEF Added
  <2>5. PICK j \in DOMAIN s, e \in Editions :
          /\ t = [s EXCEPT ![j] = e]
          /\ e.started /\ ~s[j].started => ~shouldSkipUnstartedEdition(s[j])
    <3>1. StepOfDate(g, k)
      BY <1>3, StepOfDates
    <3>. QED
      BY <2>3, <2>4, <3>1 DEF StepOfDate, Revised
  <2>6. j = i /\ t[i] = e
    BY <1>3, <2>1, <2>5
  <2>7. ~ (now >= s[i].cutoffAt)
    BY <1>3, <2>5, <2>6 DEF shouldSkipUnstartedEdition
  <2>8. now \in Instants /\ now <= s[i].cutoffAt
    <3>1. now \in 0..LastTick
      BY <1>3 DEF TypeOK
    <3>2. now \in Int /\ now \in Instants /\ s[i].cutoffAt \in Int
      BY <2>2, <3>1, ClockFacts
    <3>. QED
      BY <2>7, <3>2
  <2>9. DateOf(now, s[i].zone) <= DateOf(s[i].cutoffAt, s[i].zone)
    BY <2>1, <2>2, <2>8, ZonesAssumption
  <2>10. DateOf(now, s[i].zone) \in Int /\ k \in Int
    BY <2>1, <2>8, DateIsInt, ScheduleAssumption DEF Dates
  <2>. QED
    BY <2>2, <2>9, <2>10
<1>4. TypeOK /\ TypeOK' /\ Inv /\ [Next]_scheduleVars
        => [\A g \in Guilds, k \in Dates : \A i \in DOMAIN editions[g][k] :
              LET e == editions[g][k][i]
              IN e.trigger = "scheduled" /\ ~e.started /\ editions'[g][k][i].started =>
                    DateOf(now, e.zone) = k]_scheduleVars
  BY <1>3
<1>. QED
  BY <1>1, <1>2, <1>4, TypeCorrect, PTL DEF Spec, StartsOnItsDate

-----------------------------------------------------------------------------
(* Every date is recorded. *)

(* A preference was chosen in time for a date. *)
InForce(p, d) ==
    /\ p.enabled /\ scheduleDayEnabled(p, d)
    /\ zonedDateParts(p.savedAt, p.zone) < d * Day + p.time

Due(p, d) == FirstDue(p, d, p.savedAt)

Chosen(p) ==
    \E s \in Settings :
       p.zone = s.zone /\ p.time = s.time /\ p.includeWeekends = s.includeWeekends

(* A check that has begun in this tick has made the edition that is due, or has a
   page to go that comes to it. *)
Reaching(g, d) ==
    LET p == preferences[g]
    IN cron.ran /\ InForce(p, d) /\ DateOf(now, p.zone) = d /\ Due(p, d) <= now
         => editions[g][d] # <<>> \/ \E c \in scans : c < p.updatedAt

(* What was due in the tick of the last complete check, or before, is made. *)
Reached(g, d) ==
    LET p == preferences[g]
    IN /\ InForce(p, d) /\ d < DateOf(LastTick, p.zone)
       /\ Due(p, d) <= now - cron.missed - 1
       => editions[g][d] # <<>>

RecordsInv ==
    \A g \in Guilds : preferences[g] # None =>
        /\ Chosen(preferences[g])
        /\ \A d \in Dates : Reaching(g, d) /\ Reached(g, d)

LEMMA DueFacts ==
    ASSUME DatesLeaveTime, NEW p \in Preferences, Chosen(p), NEW d \in Dates,
           InForce(p, d), d < DateOf(LastTick, p.zone)
    PROVE  /\ Due(p, d) \in Int /\ Due(p, d) > p.savedAt
           /\ \A i \in 0..MaxMissed : DateOf(Due(p, d) + i, p.zone) = d
<1>1. PICK s \in Settings :
        p.zone = s.zone /\ p.time = s.time /\ p.includeWeekends = s.includeWeekends
  BY DEF Chosen
<1>2. p.savedAt \in 0..LastTick
  BY DEF Preferences
<1>3. Due(p, d) = FirstDue(s, d, p.savedAt)
  BY <1>1 DEF Due, FirstDue
<1>4. /\ localToInstant(d, s.time, s.zone) \in Instants
      /\ \A i \in 0..MaxMissed : DateOf(FirstDue(s, d, p.savedAt) + i, s.zone) = d
  BY <1>1, <1>2 DEF DatesLeaveTime, InForce, scheduleDayEnabled
<1>5. localToInstant(d, s.time, s.zone) \in Int
  BY <1>4, ClockFacts
<1>6. FirstDue(s, d, p.savedAt) \in Int /\ FirstDue(s, d, p.savedAt) > p.savedAt
  BY <1>2, <1>5, ClockFacts DEF FirstDue
<1>. QED
  BY <1>1, <1>3, <1>4, <1>6

LEMMA TimesShown ==
    ASSUME ClocksShowTheTimes, NEW p \in Preferences, Chosen(p), NEW t \in 0..LastTick
    PROVE  /\ localToInstant(DateOf(t, p.zone), p.time, p.zone) \in Int
           /\ localToInstant(DateOf(t, p.zone), p.time, p.zone) # None
           /\ localToInstant(DateOf(t, p.zone), Cutoff, p.zone) # None
<1>1. PICK s \in Settings :
        p.zone = s.zone /\ p.time = s.time /\ p.includeWeekends = s.includeWeekends
  BY DEF Chosen
<1>2. /\ localToInstant(DateOf(t, p.zone), p.time, p.zone) # None
      /\ localToInstant(DateOf(t, p.zone), Cutoff, p.zone) # None
  BY <1>1 DEF ClocksShowTheTimes
<1>3. p.zone \in Zones /\ p.time \in 0..(Day - 1)
  BY DEF Preferences
<1>4. localToInstant(DateOf(t, p.zone), p.time, p.zone) \in Int
  BY <1>2, <1>3, InstantOfToday, ClockFacts
<1>. QED
  BY <1>2, <1>4

(* No decision throws. *)
LEMMA NobodyThrows ==
    ASSUME TypeOK, ClocksShowTheTimes, NEW g \in Guilds, preferences[g] # None,
           Chosen(preferences[g])
    PROVE  /\ Decision(g) # None
           /\ localToInstant(DateOf(now, preferences[g].zone),
                             preferences[g].time, preferences[g].zone) \in Int
<1>. DEFINE p == preferences[g]
            date == DateOf(now, p.zone)
<1>2. now \in 0..LastTick /\ p \in Preferences
  BY DEF TypeOK
<1>3. /\ localToInstant(date, p.time, p.zone) \in Int
      /\ localToInstant(date, p.time, p.zone) # None
      /\ localToInstant(date, Cutoff, p.zone) # None
  BY <1>2, TimesShown
<1>4. p.zone \in Zones
  BY <1>2 DEF Preferences
<1>5. Decision(g) # None
  <2>. DEFINE scheduledFor == localToInstant(date, p.time, p.zone)
              cutoffAt == localToInstant(date, Cutoff, p.zone)
              kind == IF now < scheduledFor THEN "before"
                      ELSE IF now < cutoffAt THEN "due" ELSE "skipped_late"
              decision == [kind |-> kind, date |-> date, cutoffAt |-> cutoffAt]
  <2>1. Decision(g) = decision
    BY <1>3 DEF Decision, dueScheduleDecision
  <2>2. decision # None
    <3>1. date \in Int /\ cutoffAt \in Int
      <4>1. Cutoff \in 0..(Day - 1) /\ now \in Instants
        BY <1>2, ClockFacts, ScheduleAssumption
      <4>2. date \in Int
        BY <1>4, <4>1, DateIsInt
      <4>3. cutoffAt \in Instants
        BY <1>2, <1>3, <1>4, <4>1, InstantOfToday
      <4>. QED
        BY <4>2, <4>3, ClockFacts
    <3>2. kind \in {"before", "due", "skipped_late"}
      OBVIOUS
    <3>. HIDE DEF date, cutoffAt, kind
    <3>3. decision \in [kind : {"before", "due", "skipped_late"}, date : Int, cutoffAt : Int]
      BY <3>1, <3>2
    <3>. HIDE DEF decision
    <3>. QED
      BY <3>3, ScheduleAssumption
  <2>. QED
    BY <2>1, <2>2
<1>. QED
  BY <1>3, <1>5

(* The page that comes first has only preferences that were saved earlier than the
   ones it leaves, and goes on from the last of them. *)
LEMMA PageReaches ==
    ASSUME TypeOK, NEW cursor, checkDueEditions(cursor),
           \A h \in Guilds : preferences[h] # None => Decision(h) # None,
           NEW g \in Remaining(cursor)
    PROVE  g \in Page(cursor) \/ \E c \in scans' : c < preferences[g].updatedAt
<1>. DEFINE Before(x) == {h \in Remaining(cursor) :
                             preferences[h].updatedAt < preferences[x].updatedAt}
            last == CHOOSE u \in {preferences[h].updatedAt : h \in Page(cursor)} :
                        \A h \in Page(cursor) : preferences[h].updatedAt <= u
<1>1. SUFFICES ASSUME g \notin Page(cursor)
               PROVE  \E c \in scans' : c < preferences[g].updatedAt
  OBVIOUS
<1>2. \A h \in Remaining(cursor) : preferences[h].updatedAt \in 1..MaxUpdates
  BY DEF Remaining, TypeOK, Preferences
<1>3. MaxUpdates \in Nat /\ PageSize \in Nat
  BY ScheduleAssumption
<1>4. Page(cursor) # Remaining(cursor) /\ Page(cursor) \subseteq Remaining(cursor)
  BY <1>1 DEF Page
<1>5. last \in {preferences[h].updatedAt : h \in Page(cursor)}
  <2>. DEFINE T == {preferences[h].updatedAt : h \in Page(cursor)}
  <2>1. PICK first \in Remaining(cursor) :
          \A h \in Remaining(cursor) : preferences[first].updatedAt <= preferences[h].updatedAt
    <3>. DEFINE R == {preferences[h].updatedAt : h \in Remaining(cursor)}
    <3>1. R \subseteq Nat /\ R # {}
      BY <1>2
    <3>2. PICK x \in R : \A y \in R : x <= y
      BY <3>1, LeastNatural
    <3>3. PICK first \in Remaining(cursor) : x = preferences[first].updatedAt
      BY <3>2
    <3>. QED
      BY <3>2, <3>3
  <2>2. Before(first) = {}
    BY <1>2, <2>1
  <2>3. Cardinality(Before(first)) = 0
    <3>. HIDE DEF Before
    <3>. QED
      BY <2>2, FS_EmptySet
  <2>4. first \in Page(cursor)
    BY <2>3, ScheduleAssumption DEF Page
  <2>5. T \subseteq 1..MaxUpdates /\ T # {}
    BY <1>2, <1>4, <2>4
  <2>6. \E u \in T : \A y \in T : y <= u
    BY <2>5, LatestUpdate
  <2>. QED
    BY <2>5, <2>6
<1>6. scans' = (scans \ {cursor}) \cup {last}
  <2>1. Page(cursor) \subseteq {h \in Guilds : preferences[h] # None}
    BY DEF Page, Remaining
  <2>. QED
    BY <1>4, <2>1 DEF checkDueEditions
<1>7. PICK h \in Page(cursor) : last = preferences[h].updatedAt
  BY <1>5
<1>. HIDE DEF last
<1>8. preferences[h].updatedAt < preferences[g].updatedAt
  <2>1. SUFFICES ASSUME preferences[g].updatedAt <= preferences[h].updatedAt
                 PROVE  FALSE
    BY <1>2, <1>3, <1>4
  <2>2. Before(g) \subseteq Before(h)
    BY <1>2, <1>3, <1>4, <2>1
  <2>3. Remaining(cursor) \subseteq Guilds /\ IsFiniteSet(Guilds)
    BY ScheduleAssumption DEF Remaining
  <2>4. IsFiniteSet(Before(h))
    <3>1. Before(h) \in SUBSET Guilds
      BY <2>3
    <3>. QED
      BY <2>3, <3>1, FS_Subset
  <2>5. /\ IsFiniteSet(Before(g)) /\ Cardinality(Before(g)) <= Cardinality(Before(h))
    <3>. HIDE DEF Before
    <3>. QED
      BY <2>2, <2>4, FS_Subset
  <2>6. Cardinality(Before(g)) \in Nat /\ Cardinality(Before(h)) \in Nat
    BY <2>4, <2>5, FS_CardinalityType
  <2>7. Cardinality(Before(h)) < PageSize /\ ~ (Cardinality(Before(g)) < PageSize)
    BY <1>1 DEF Page
  <2>. HIDE DEF Before
  <2>. QED
    BY <1>3, <2>5, <2>6, <2>7
<1>. QED
  BY <1>6, <1>7, <1>8

(* A page makes the edition that is due. *)
LEMMA PageMakes ==
    ASSUME TypeOK, NEW cursor, checkDueEditions(cursor),
           \A h \in Guilds : preferences[h] # None => Decision(h) # None,
           NEW g \in Page(cursor), NEW d \in Dates,
           InForce(preferences[g], d), DateOf(now, preferences[g].zone) = d,
           localToInstant(d, preferences[g].time, preferences[g].zone) \in Int,
           Due(preferences[g], d) <= now
    PROVE  editions'[g][d] # <<>>
<1>. DEFINE p == preferences[g]
            e == createEdition(p, Decision(g), "scheduled")
<1>1. g \in Guilds /\ p # None /\ Decision(g) # None /\ p \in Preferences
  BY DEF Page, Remaining, TypeOK
<1>2. Decision(g).date = d
  BY <1>1, DecisionOfToday
<1>3. Decision(g).kind # "before"
  <2>. DEFINE at == localToInstant(d, p.time, p.zone)
  <2>1. at \in Int /\ p.savedAt \in Int /\ now \in Int
    BY <1>1 DEF Preferences, TypeOK
  <2>2. Due(p, d) = IF at > p.savedAt THEN at ELSE p.savedAt + 1
    BY DEF Due, FirstDue
  <2>. HIDE DEF at
  <2>3. at <= now
    BY <2>1, <2>2
  <2>4. Decision(g).kind = IF now < at THEN "before"
             ELSE IF now < localToInstant(d, Cutoff, p.zone) THEN "due" ELSE "skipped_late"
    BY <1>1 DEF Decision, dueScheduleDecision, at
  <2>. QED
    BY <2>1, <2>3, <2>4
<1>4. scheduleDayEnabled(p, d)
  BY DEF InForce
<1>5. editions'[g] = IF g \in Page(cursor) /\ Creates(g)
                     THEN [editions[g] EXCEPT ![Decision(g).date] = Append(@, e)]
                     ELSE editions[g]
  <2>1. Page(cursor) \subseteq {h \in Guilds : preferences[h] # None}
    BY DEF Page, Remaining
  <2>. QED
    BY <1>1, <2>1 DEF checkDueEditions
<1>6. editions[g] \in [Dates -> Seq(Editions)]
  BY <1>1 DEF TypeOK
<1>7. CASE editions[g][d] # <<>>
  <2>1. ~Creates(g)
    BY <1>2, <1>7 DEF Creates
  <2>. QED
    BY <1>5, <1>7, <2>1
<1>8. CASE editions[g][d] = <<>>
  <2>1. Creates(g)
    BY <1>2, <1>3, <1>4, <1>8 DEF Creates
  <2>2. editions'[g][d] = Append(<<>>, e)
    <3>. HIDE DEF e
    <3>. QED
      BY <1>2, <1>5, <1>6, <1>8, <2>1
  <2>3. Append(<<>>, e) # <<>>
    <3>. HIDE DEF e
    <3>. QED
      OBVIOUS
  <2>. QED
    BY <2>2, <2>3
<1>. QED
  BY <1>7, <1>8

LEMMA MadeStays ==
    ASSUME TypeOK, NEW g \in Guilds, NEW k \in Dates, StepOfDate(g, k),
           editions[g][k] # <<>>
    PROVE  editions'[g][k] # <<>>
<1>. DEFINE s == editions[g][k]
            t == editions'[g][k]
<1>1. s \in Seq(Editions) /\ Len(s) # 0
  BY DEF TypeOK
<1>2. CASE Added(g, k)
  <2>1. PICK e \in Editions : t = Append(s, e)
    BY <1>2 DEF Added
  <2>. HIDE DEF s
  <2>2. Len(t) = Len(s) + 1 /\ Len(s) \in Nat
    BY <1>1, <2>1
  <2>. QED
    BY <2>2
<1>3. CASE Revised(g, k)
  <2>1. PICK i \in DOMAIN s, e \in Editions : t = [s EXCEPT ![i] = e]
    BY <1>3 DEF Revised
  <2>. HIDE DEF s
  <2>2. Len(t) = Len(s)
    BY <1>1, <2>1
  <2>. QED
    BY <1>1, <2>2
<1>. QED
  BY <1>2, <1>3 DEF StepOfDate

(* A check, or a page of it that goes on, keeps the records. *)
LEMMA CheckRecords ==
    ASSUME TypeOK, ClocksShowTheTimes, RecordsInv, NEW cursor, checkDueEditions(cursor),
           UNCHANGED <<now, preferences>>, cron'.missed = cron.missed,
           cursor = 0 \/ (cursor \in scans /\ UNCHANGED cron)
    PROVE  RecordsInv'
<1>. SUFFICES ASSUME NEW g \in Guilds, preferences[g] # None, NEW d \in Dates
              PROVE  (Reaching(g, d) /\ Reached(g, d))'
  BY DEF RecordsInv, Chosen
<1>. DEFINE p == preferences[g]
<1>1. \A h \in Guilds : preferences[h] # None =>
        /\ Decision(h) # None
        /\ localToInstant(DateOf(now, preferences[h].zone),
                          preferences[h].time, preferences[h].zone) \in Int
  BY NobodyThrows DEF RecordsInv
<1>2. Reaching(g, d) /\ Reached(g, d) /\ p \in Preferences
  BY DEF RecordsInv, TypeOK
<1>3. editions[g][d] # <<>> => editions'[g][d] # <<>>
  BY CheckSteps, MadeStays
<1>4. Reached(g, d)'
  BY <1>2, <1>3 DEF Reached, InForce, Due
<1>5. ASSUME cron'.ran, InForce(p, d), DateOf(now, p.zone) = d, Due(p, d) <= now
      PROVE  editions'[g][d] # <<>> \/ \E c \in scans' : c < p.updatedAt
  <2>1. CASE p.updatedAt > cursor
    <3>1. g \in Remaining(cursor)
      BY <1>5, <2>1 DEF Remaining, InForce
    <3>2. CASE g \in Page(cursor)
      BY <1>1, <1>5, <3>2, PageMakes
    <3>3. CASE g \notin Page(cursor)
      BY <1>1, <3>1, <3>3, PageReaches
    <3>. QED
      BY <3>2, <3>3
  <2>2. CASE ~ (p.updatedAt > cursor)
    <3>1. p.updatedAt \in 1..MaxUpdates /\ MaxUpdates \in Nat
      BY <1>2, ScheduleAssumption DEF Preferences
    <3>2. cursor \in scans /\ cron.ran
      BY <1>5, <2>2, <3>1
    <3>3. CASE editions[g][d] # <<>>
      BY <1>3, <3>3
    <3>4. ASSUME NEW c \in scans, c < p.updatedAt
          PROVE  c \in scans'
      <4>1. c # cursor
        <5>1. scans \in SUBSET (1..MaxUpdates)
          BY DEF TypeOK
        <5>. QED
          BY <2>2, <3>1, <3>2, <3>4, <5>1
      <4>. QED
        BY <4>1 DEF checkDueEditions
    <3>. QED
      BY <1>2, <1>5, <3>2, <3>3, <3>4 DEF Reaching
  <2>. QED
    BY <2>1, <2>2
<1>6. Reaching(g, d)'
  BY <1>5 DEF Reaching, InForce, Due
<1>. QED
  BY <1>4, <1>6

(* A minute is over: if its check is complete, what it found due is made, and the
   one before was not longer ago than the date goes on. *)
LEMMA TickRecords ==
    ASSUME TypeOK, DatesLeaveTime, RecordsInv, Tick
    PROVE  RecordsInv'
<1>. DEFINE missed == IF cron.ran /\ scans = {} THEN 0 ELSE cron.missed + 1
<1>1. /\ now' = now + 1 /\ cron' = [ran |-> FALSE, missed |-> missed]
      /\ UNCHANGED <<preferences, updates, editions, scans>>
  BY DEF Tick
<1>2. /\ now \in Nat /\ cron.missed \in 0..MaxMissed /\ MaxMissed \in Nat
  BY ScheduleAssumption DEF TypeOK
<1>. SUFFICES ASSUME NEW g \in Guilds, preferences[g] # None, NEW d \in Dates
              PROVE  (Reaching(g, d) /\ Reached(g, d))'
  BY <1>1 DEF RecordsInv, Chosen
<1>. DEFINE p == preferences[g]
<1>3. Reaching(g, d) /\ Reached(g, d) /\ Chosen(p) /\ p \in Preferences
  BY DEF RecordsInv, TypeOK
<1>4. Reaching(g, d)'
  BY <1>1 DEF Reaching
<1>5. ASSUME InForce(p, d), d < DateOf(LastTick, p.zone),
             Due(p, d) <= now + 1 - missed - 1
      PROVE  editions[g][d] # <<>>
  <2>1. /\ Due(p, d) \in Int
        /\ \A i \in 0..MaxMissed : DateOf(Due(p, d) + i, p.zone) = d
    BY <1>3, <1>5, DueFacts
  <2>2. CASE Due(p, d) <= now - cron.missed - 1
    BY <1>3, <1>5, <2>2 DEF Reached
  <2>3. CASE ~ (Due(p, d) <= now - cron.missed - 1)
    <3>. DEFINE due == Due(p, d)
    <3>. HIDE DEF due
    <3>1. due \in Int /\ ~ (due <= now - cron.missed - 1) /\ due <= now + 1 - missed - 1
      BY <1>5, <2>1, <2>3 DEF due
    <3>2. cron.ran /\ scans = {}
      BY <1>2, <3>1
    <3>3. due <= now /\ now - due \in 0..MaxMissed /\ due + (now - due) = now
      BY <1>2, <3>1, <3>2
    <3>4. \A i \in 0..MaxMissed : DateOf(due + i, p.zone) = d
      BY <2>1 DEF due
    <3>5. DateOf(now, p.zone) = d
      <4>1. DateOf(due + (now - due), p.zone) = d
        BY <3>3, <3>4
      <4>. QED
        BY <3>3, <4>1
    <3>. QED
      BY <1>3, <1>5, <3>2, <3>3, <3>5 DEF Reaching, due
  <2>. QED
    BY <2>2, <2>3
<1>6. Reached(g, d)'
  <2>1. cron'.missed = missed /\ now' = now + 1 /\ preferences' = preferences /\ editions' = editions
    BY <1>1
  <2>3. missed \in Int /\ now \in Int
    BY <1>2
  <2>. HIDE DEF missed
  <2>2. ASSUME InForce(p, d), d < DateOf(LastTick, p.zone),
               Due(p, d) <= now' - cron'.missed - 1
        PROVE  editions[g][d] # <<>>
    <3>1. now' - cron'.missed - 1 = now + 1 - missed - 1
      BY <2>1, <2>3
    <3>2. Due(p, d) <= now + 1 - missed - 1
      BY <2>2, <3>1
    <3>. QED
      BY <1>5, <2>2, <3>2
  <2>. QED
    BY <2>1, <2>2 DEF Reached, InForce, Due
<1>. QED
  BY <1>4, <1>6

(* A preference asks for nothing that was due before it was saved. *)
LEMMA SaveRecords ==
    ASSUME TypeOK, ClocksShowTheTimes, DatesLeaveTime, RecordsInv,
           NEW h \in Guilds, savePreferences(h)
    PROVE  RecordsInv'
<1>1. PICK s \in Settings, enabled \in BOOLEAN :
        /\ preferences' = [preferences EXCEPT ![h] =
               [zone |-> s.zone, time |-> s.time, includeWeekends |-> s.includeWeekends,
                enabled |-> enabled, updatedAt |-> updates + 1, savedAt |-> now]]
        /\ UNCHANGED <<now, editions, scans, cron>>
  BY DEF savePreferences
<1>. DEFINE new == [zone |-> s.zone, time |-> s.time, includeWeekends |-> s.includeWeekends,
                    enabled |-> enabled, updatedAt |-> updates + 1, savedAt |-> now]
<1>2. preferences \in [Guilds -> Preferences \cup {None}]
  BY DEF TypeOK
<1>3. now \in Nat /\ cron.missed \in Nat
  BY ScheduleAssumption DEF TypeOK
<1>. SUFFICES ASSUME NEW g \in Guilds, preferences'[g] # None
              PROVE  Chosen(preferences'[g])
                     /\ \A d \in Dates : (Reaching(g, d) /\ Reached(g, d))'
  BY DEF RecordsInv, Chosen
<1>4. CASE g # h
  <2>1. preferences'[g] = preferences[g]
    BY <1>1, <1>2, <1>4
  <2>. QED
    BY <1>1, <2>1 DEF RecordsInv, Chosen, Reaching, Reached, InForce, Due
<1>5. CASE g = h
  <2>1. preferences'[g] = new
    BY <1>1, <1>2, <1>5
  <2>2. Chosen(new)
    BY DEF Chosen
  <2>3. new.savedAt = now
    OBVIOUS
  <2>. HIDE DEF new
  <2>4. new \in Preferences
    <3>1. TypeOK'
      <4>1. [Next]_scheduleVars
        BY DEF Next
      <4>. QED
        BY <4>1, NextTyped
    <3>2. new = None \/ new \in Preferences
      BY <2>1, <3>1 DEF TypeOK
    <3>. QED
      BY <2>1, <3>2
  <2>5. ASSUME NEW d, localToInstant(d, new.time, new.zone) \in Int
        PROVE  ~ (Due(new, d) <= now)
    <3>. DEFINE at == localToInstant(d, new.time, new.zone)
    <3>1. Due(new, d) = IF at > now THEN at ELSE now + 1
      BY <2>3 DEF Due, FirstDue
    <3>2. at \in Int
      BY <2>5
    <3>. HIDE DEF at
    <3>. QED
      BY <1>3, <3>1, <3>2
  <2>6. ASSUME NEW d \in Dates
        PROVE  (Reaching(g, d) /\ Reached(g, d))'
    <3>1. ASSUME InForce(new, d), d < DateOf(LastTick, new.zone),
                 Due(new, d) <= now - cron.missed - 1
          PROVE  FALSE
      <4>1. Due(new, d) \in Int /\ Due(new, d) > now
        BY <2>2, <2>3, <2>4, <3>1, DueFacts
      <4>. QED
        BY <1>3, <3>1, <4>1
    <3>2. Reached(g, d)'
      BY <1>1, <2>1, <3>1 DEF Reached, InForce, Due
    <3>3. Reaching(g, d)'
      <4>1. DateOf(now, new.zone) = d => ~ (Due(new, d) <= now)
        <5>1. now \in 0..LastTick
          BY DEF TypeOK
        <5>. QED
          BY <2>2, <2>4, <2>5, <5>1, TimesShown
      <4>. QED
        BY <1>1, <2>1, <4>1 DEF Reaching, InForce, Due
    <3>. QED
      BY <3>2, <3>3
  <2>. QED
    BY <2>1, <2>2, <2>6
<1>. QED
  BY <1>4, <1>5

LEMMA RecordsStay ==
    ASSUME ClocksShowTheTimes, DatesLeaveTime, TypeOK, RecordsInv, [Next]_scheduleVars
    PROVE  RecordsInv'
<1>1. ASSUME UNCHANGED <<now, preferences, scans, cron>>
      PROVE  RecordsInv'
  <2>1. \A g \in Guilds, d \in Dates : editions[g][d] # <<>> => editions'[g][d] # <<>>
    BY StepOfDates, MadeStays
  <2>. QED
    BY <1>1, <2>1 DEF RecordsInv, Chosen, Reaching, Reached, InForce, Due
<1>2. ASSUME NEW g \in Guilds, manualTrigger(g)
      PROVE  RecordsInv'
  BY <1>1, <1>2, ManualTyped
<1>3. ASSUME NEW g \in Guilds, NEW k \in Dates, NEW i \in DOMAIN editions[g][k],
             claimResearch(g, k, i) \/ retryEdition(g, k, i) \/ cancelUnstarted(g, k, i)
      PROVE  RecordsInv'
  <2>1. UNCHANGED <<now, preferences, updates, scans, cron>>
    BY <1>3, RevisionTyped
  <2>. QED
    BY <1>1, <2>1
<1>4. cron \in [ran : BOOLEAN, missed : 0..MaxMissed]
  BY DEF TypeOK
<1>5. CASE startCheck
  BY <1>4, <1>5, CheckRecords DEF startCheck
<1>6. CASE continueCheck
  BY <1>4, <1>6, CheckRecords DEF continueCheck
<1>7. CASE UNCHANGED scheduleVars
  BY <1>1, <1>7 DEF scheduleVars
<1>8. Busy \subseteq Guilds
  BY ScheduleAssumption
<1>. QED
  BY <1>2, <1>3, <1>5, <1>6, <1>7, <1>8, TickRecords, SaveRecords DEF Next

(* What is reached by the last complete check covers a date that is over. *)
LEMMA RecordsSuffice ==
    ASSUME DatesLeaveTime, TypeOK, RecordsInv
    PROVE  DatesRecorded
<1>. SUFFICES ASSUME NEW g \in Guilds, preferences[g] # None, NEW d \in Dates,
                     InForce(preferences[g], d), d < DateOf(now, preferences[g].zone)
              PROVE  editions[g][d] # <<>>
  BY DEF DatesRecorded, InForce
<1>. DEFINE p == preferences[g]
            due == Due(p, d)
<1>1. /\ Reached(g, d) /\ Chosen(p) /\ p \in Preferences /\ p.zone \in Zones
  BY DEF RecordsInv, TypeOK, Preferences
<1>2. now \in Nat /\ cron.missed \in 0..MaxMissed /\ MaxMissed \in Nat /\ now \in 0..LastTick
  BY ScheduleAssumption DEF TypeOK
<1>3. /\ DateOf(now, p.zone) \in Int /\ DateOf(LastTick, p.zone) \in Int
      /\ DateOf(now, p.zone) <= DateOf(LastTick, p.zone) /\ d \in Int
  <2>1. now \in Instants /\ LastTick \in Instants /\ now <= LastTick
    BY <1>2, ClockFacts
  <2>. QED
    BY <1>1, <2>1, DateIsInt, ZonesAssumption, ScheduleAssumption DEF Dates
<1>4. d < DateOf(LastTick, p.zone)
  <2>. DEFINE today == DateOf(now, p.zone)
              end == DateOf(LastTick, p.zone)
  <2>1. today \in Int /\ end \in Int /\ today <= end /\ d \in Int /\ d < today
    BY <1>3
  <2>. HIDE DEF today, end
  <2>2. d < end
    BY <2>1
  <2>. QED
    BY <2>2 DEF end
<1>5. due \in Int /\ \A i \in 0..MaxMissed : DateOf(due + i, p.zone) = d
  BY <1>1, <1>4, DueFacts
<1>6. ASSUME ~ (due <= now - cron.missed - 1)
      PROVE  FALSE
  <2>1. PICK i \in 0..MaxMissed : now <= due + i /\ due + i \in Instants
    <3>1. CASE due <= now
      <4>. HIDE DEF due
      <4>1. now - due \in 0..MaxMissed /\ due + (now - due) = now
        BY <1>2, <1>5, <1>6, <3>1
      <4>2. now <= now /\ now \in Instants
        BY <1>2, ClockFacts
      <4>. QED
        BY <4>1, <4>2
    <3>2. CASE ~ (due <= now)
      <4>1. due + 0 \in Instants
        <5>1. PICK s \in Settings :
                p.zone = s.zone /\ p.time = s.time /\ p.includeWeekends = s.includeWeekends
          BY <1>1 DEF Chosen
        <5>2. p.savedAt \in 0..LastTick
          BY <1>1 DEF Preferences
        <5>3. localToInstant(d, p.time, p.zone) \in Instants
          BY <1>4, <5>1, <5>2 DEF DatesLeaveTime, InForce, scheduleDayEnabled
        <5>4. p.savedAt + 1 \in Instants
          BY <5>2, ClockFacts DEF Instants
        <5>5. due \in Instants
          BY <5>3, <5>4 DEF Due, FirstDue
        <5>. HIDE DEF due
        <5>6. due + 0 = due
          BY <1>5
        <5>. QED
          BY <5>5, <5>6
      <4>2. now <= due + 0 /\ 0 \in 0..MaxMissed
        <5>. HIDE DEF due
        <5>. QED
          BY <1>2, <1>5, <3>2
      <4>. QED
        BY <4>1, <4>2
    <3>. QED
      BY <3>1, <3>2
  <2>. HIDE DEF due
  <2>2. DateOf(now, p.zone) <= DateOf(due + i, p.zone)
    <3>1. now \in Instants
      BY <1>2, ClockFacts
    <3>. QED
      BY <1>1, <2>1, <3>1, ZonesAssumption
  <2>3. DateOf(now, p.zone) <= d
    BY <1>5, <2>1, <2>2
  <2>. QED
    BY <1>3, <2>3
<1>. QED
  BY <1>1, <1>4, <1>6 DEF Reached

(* If the clocks show the times that were chosen and a date goes on for longer than
   checks are missed, every date of a schedule is recorded: for any guilds, zones,
   settings and page size, whatever the owners change meanwhile and however the
   pages of checks overlap (checkDueEditions). *)
THEOREM DatesRecordedHolds ==
    ASSUME ClocksShowTheTimes, DatesLeaveTime
    PROVE  Spec => []DatesRecorded
<1>1. Init => RecordsInv
  BY DEF Init, RecordsInv
<1>2. TypeOK /\ RecordsInv /\ [Next]_scheduleVars => RecordsInv'
  BY RecordsStay
<1>3. TypeOK /\ RecordsInv => DatesRecorded
  BY RecordsSuffice
<1>. QED
  BY <1>1, <1>2, <1>3, TypeCorrect, PTL DEF Spec

=============================================================================
