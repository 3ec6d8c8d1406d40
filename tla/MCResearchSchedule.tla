--------------------------- MODULE MCResearchSchedule ---------------------------
(* ResearchSchedule on small instances; see the .cfg files. *)
EXTENDS ResearchSchedule, TLC

\* The clocks go forward in one zone, and back in the other, at tick 2.
MCOffset(zone, t) ==
    CASE zone = "spring" -> IF t >= 2 THEN 1 ELSE 0
      [] zone = "fall"   -> IF t >= 2 THEN 0 ELSE 1

MCSettings ==
    {[zone |-> "spring", time |-> 1, includeWeekends |-> FALSE],
     [zone |-> "fall", time |-> 1, includeWeekends |-> TRUE]}

(* The instance is one of those in which dates are recorded. *)
ASSUME ClocksAdmitSchedules == ClocksShowTheTimes /\ DatesLeaveTime

=============================================================================
