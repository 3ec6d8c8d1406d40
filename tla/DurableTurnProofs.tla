--------------------------- MODULE DurableTurnProofs ---------------------------
(***************************************************************************)
(* Proofs about DurableTurn for any number of messages and faults: types,  *)
(* that a reply says what its turn recorded, that completed research is    *)
(* kept, and that the turn of an explicit trigger is answered.             *)
(*                                                                         *)
(* The argument: the worker and the recorded turn never drift apart.  At   *)
(* every await of the worker, what it will do next follows from what was   *)
(* recorded, for only this worker records and a claim starts it from the   *)
(* record; once something fails, the failure path looks at neither.  A     *)
(* queued final carries the generation of the channel, so a second one is  *)
(* refused, and one that was sent ends the run.  Without a fault the lease *)
(* of an attended run is live and its closure is never refused.            *)
(***************************************************************************)
EXTENDS DurableTurn, WellFoundedInduction, TLAPS

(* The failure path and the rest; it reads nothing of the turn. *)
Failing == {"idle", "close", "quiet", "fail"}

AtJob(w, kind) == w.pc \in {"submit", "wait"} /\ w.stage[1] = kind

BeforeResearch(w) == w.pc \in {"recordPlan", "acknowledge"} \/ AtJob(w, "plan")

BeforeDraft(w) ==
    \/ BeforeResearch(w)
    \/ w.pc \in {"start", "recordResearch", "newest"}
    \/ AtJob(w, "sol")

Drafting(w) ==
    \/ w.pc = "newest" /\ w.plan = "research"
    \/ w.pc = "recordResume" \/ AtJob(w, "resume")

(* A draft that was made. *)
Made(r, explicit, research) ==
    /\ r.pass \in Passes
    /\ r.action \in {"send", "suppress", "recheck"}
    /\ r.action = "recheck" => r.pass = 1
    /\ explicit /\ r.action = "suppress" => research = "packet"

(* What is recorded of a turn fits together. *)
Coherent(t) ==
    /\ t.resume = NoResume => t.attempts = 0
    /\ t.resume # NoResume =>
         Made(t.resume, t.explicit, t.artifact[t.resume.pass].status)
    /\ t.resume.pass = 2 => t.artifact[2].status # "none"
    /\ t.explicit => t.plan # "silent"

PlanFits(w, t) ==
    /\ AtJob(w, "plan") \/ w.plan # "none"
    /\ AtJob(w, "plan") \/ w.pc = "recordPlan" \/ t.plan = w.plan
    /\ w.pc \in {"acknowledge", "start", "recordResearch", "recordResume", "suppress"}
         => w.plan = "research"
    /\ AtJob(w, "sol") \/ AtJob(w, "resume") => w.plan = "research"
    /\ w.pc = "newest" => w.plan \in {"reply", "research"}

RecoveryFits(w, t) ==
    /\ w.recovered.resume.pass <= w.pass
    /\ BeforeDraft(w) /\ w.recovered.resume.pass = w.pass => w.recovered.resume = t.resume
    /\ BeforeResearch(w) => w.recovered.research = t.artifact[w.pass].status

ResearchFits(w, t) ==
    /\ w.pass = 1 => t.artifact[2].status = "none"
    /\ w.pc = "start" => t.artifact[w.pass].status \notin Results
    /\ AtJob(w, "sol") => /\ w.stage = <<"sol", w.pass>>
                          /\ t.artifact[w.pass].status = "pending"
    /\ w.pc = "recordResearch" => w.research \in Results
    /\ Drafting(w) => /\ w.research \in Results
                      /\ t.artifact[w.pass].status = w.research

DraftFits(w, t) ==
    /\ w.pc = "recordResume" =>
         /\ w.resume.pass = w.pass
         /\ Made(w.resume, w.explicit, w.research)
    /\ w.pc = "queue" =>
         \/ w.plan = "reply"
         \/ w.plan = "research" /\ w.resume = t.resume /\ w.resume.action = "send"
    /\ w.pc = "suppress" => w.resume = t.resume /\ w.resume.action = "suppress"

(* The worker w goes on from what the turn t records. *)
Along(w, t) ==
    /\ PlanFits(w, t)
    /\ RecoveryFits(w, t)
    /\ ResearchFits(w, t)
    /\ DraftFits(w, t)

Follows(w, t) ==
    /\ w.pc # "idle" => w.explicit = t.explicit
    /\ w.explicit => w.pc \notin {"quiet", "silent", "abandon"} /\ w.plan # "silent"
    /\ w.pc \notin Failing => Along(w, t)

(* The documents: shapes, rows and runs, and what the properties say of them. *)
Shaped ==
    /\ channel \in Channels
    /\ (channel.run = 0) = (channel.lease = "none")
    /\ channel.windowEnd <= channel.latest
    /\ channel.trigger <= channel.latest
    /\ mentions \subseteq 1..channel.latest
    /\ turn \in Turns
    /\ turn.eligible.through <= channel.latest
    /\ outbox \in [Keys -> Replies]
    /\ jobs \in [Stages -> Jobs]
    /\ faults \in 0..MaxFaults

Fenced ==
    /\ channel.run <= channel.generation
    /\ channel.run # 0 => channel.windowEnd >= 1 /\ Open
    /\ \A q \in Keys : outbox[q].status = "pending" =>
         outbox[q].generation = channel.generation
    /\ \A q \in FinalKeys : outbox[q].status = "sent" => ~Open

Documents ==
    /\ Shaped
    /\ Coherent(turn)
    /\ Fenced
    /\ ReplyIsCommitted
    /\ ExplicitTurnsAreAnswered

(* The worker, when there is one, belongs to the last claim. *)
Attending ==
    /\ worker \in Workers
    /\ worker.newest.through <= channel.latest
    /\ worker.pc # "idle" => worker.generation = channel.generation
    /\ Follows(worker, turn)

(* Before the first fault no lease runs out and no final is in the way. *)
Untroubled ==
    faults = 0 =>
        /\ channel.run # 0 => channel.lease = "live"
        /\ worker.pc # "idle" => /\ channel.run # 0
                                 /\ \A q \in FinalKeys : outbox[q].status = "absent"
        /\ worker.pc = "idle" /\ channel.run # 0 =>
             \E q \in FinalKeys : outbox[q].status = "pending"
        /\ turn.explicit => worker.pc # "fail"

IInv == Documents /\ Attending /\ Untroubled

-----------------------------------------------------------------------------
(* The worker's decisions. *)

LEMMA PassIsResearch ==
  ASSUME NEW p \in Passes
  PROVE  <<"sol", p>> \in Stages /\ <<"resume", p>> \in Stages
  BY DEF Stages

LEMMA NothingTyped ==
  /\ NoContext \in Contexts /\ NoText \in Texts /\ NoResume \in Resumes
  /\ NoRecovery \in Recoveries /\ NoReply \in Replies /\ NoJob \in Jobs
  /\ NoArtifact \in Artifacts /\ <<"plan", 1>> \in Stages
  BY TurnBoundsAssumption
  DEF NoContext, NoText, NoResume, NoRecovery, NoReply, NoJob, NoArtifact, Contexts,
      Texts, Resumes, Recoveries, Replies, Jobs, Artifacts, Stages, Sources, Passes,
      Researches

LEMMA IdleTyped == Idle \in Workers /\ Idle.newest = NoContext /\ Idle.pc = "idle"
  BY NothingTyped DEF Idle, Workers, Plans, Passes, Researches

(* A failure leads to the failure path, which forgets the turn. *)
LEMMA OnErrorForgets ==
  ASSUME worker \in Workers, NEW r \in BOOLEAN
  PROVE  /\ OnError(r) \in Workers
         /\ OnError(r).newest = NoContext
         /\ OnError(r).plan = "none"
         /\ OnError(r).pc \in Failing
         /\ OnError(r).pc = "idle" => worker.pc = "fail"
         /\ OnError(r).pc = "fail" => worker.pc \in {"close", "quiet"}
         /\ OnError(r).pc = "quiet" => ~worker.explicit
         /\ OnError(r).pc # "idle" => /\ OnError(r).generation = worker.generation
                                      /\ OnError(r).explicit = worker.explicit
  <1> DEFINE caught == [Idle EXCEPT !.generation = worker.generation,
                                    !.explicit = worker.explicit]
  <1>1. /\ worker.generation \in Nat /\ worker.explicit \in BOOLEAN
    BY DEF Workers
  <1>2. /\ caught \in Workers /\ caught.newest = NoContext /\ caught.plan = "none"
        /\ caught.generation = worker.generation /\ caught.explicit = worker.explicit
    BY <1>1, IdleTyped DEF Workers, Idle
  <1> HIDE DEF caught
  <1>3. OnError(r) = CASE worker.pc = "fail" -> Idle
                       [] worker.pc \in {"close", "quiet"} ->
                            [caught EXCEPT !.pc = "fail", !.retryable = r]
                       [] OTHER ->
                            [caught EXCEPT !.pc = IF worker.explicit THEN "close"
                                                  ELSE "quiet"]
    BY DEF OnError, caught
  <1>4. CASE worker.pc = "fail"
    <2>1. OnError(r) = Idle
      BY <1>3, <1>4
    <2> QED BY <2>1, <1>4, IdleTyped DEF Failing, Idle
  <1>5. CASE worker.pc \in {"close", "quiet"}
    <2>1. OnError(r) = [caught EXCEPT !.pc = "fail", !.retryable = r]
      BY <1>3, <1>5
    <2> QED BY <2>1, <1>2, <1>5 DEF Failing, Workers
  <1>6. CASE worker.pc \notin {"fail", "close", "quiet"}
    <2>1. OnError(r) = [caught EXCEPT !.pc = IF worker.explicit THEN "close" ELSE "quiet"]
      BY <1>3, <1>6
    <2> QED BY <2>1, <1>1, <1>2, <1>6 DEF Failing, Workers
  <1> QED BY <1>4, <1>5, <1>6

LEMMA FailureAttended ==
  ASSUME Shaped, Attending, worker.pc # "idle", NEW r \in BOOLEAN, worker' = OnError(r),
         turn'.explicit = turn.explicit, channel' \in Channels,
         channel'.generation = channel.generation
  PROVE  Attending'
  <1>1. /\ worker' \in Workers /\ worker'.newest = NoContext /\ worker'.plan = "none"
        /\ worker'.pc \in Failing
        /\ worker'.pc = "quiet" => ~worker.explicit
        /\ worker'.pc # "idle" => /\ worker'.generation = worker.generation
                                  /\ worker'.explicit = worker.explicit
    BY OnErrorForgets DEF Attending
  <1>2. channel'.latest \in Nat /\ NoContext.through = 0
    BY TurnBoundsAssumption DEF Channels, NoContext
  <1>3. worker'.newest.through <= channel'.latest
    BY <1>1, <1>2
  <1>4. worker'.pc # "idle" => worker'.generation = channel'.generation
    BY <1>1 DEF Attending
  <1>5. Follows(worker', turn')
    BY <1>1 DEF Follows, Failing, Attending, Workers
  <1> QED BY <1>1, <1>3, <1>4, <1>5 DEF Attending

(* What a decision leaves alone. *)
Keeps(w, v) == /\ w.newest = v.newest /\ w.generation = v.generation
               /\ w.explicit = v.explicit /\ w.pc \notin {"idle", "fail"}

(* The worker w knows of the turn t what a claim has told it. *)
Informed(w, t) ==
    /\ w \in Workers /\ t \in Turns /\ Coherent(t)
    /\ w.explicit = t.explicit
    /\ w.recovered.resume.pass <= w.pass
    /\ w.recovered.resume.pass = w.pass => w.recovered.resume = t.resume
    /\ w.recovered.research = t.artifact[w.pass].status
    /\ w.pass = 1 => t.artifact[2].status = "none"

LEMMA EnterPassFollows ==
  ASSUME NEW w, NEW t, Informed(w, t), w.plan = "research", t.plan = "research"
  PROVE  EnterPass(w) \in Workers /\ Keeps(EnterPass(w), w) /\ Follows(EnterPass(w), t)
  <1>1. w \in Workers /\ w.recovered.research \in Researches
    BY DEF Informed, Workers, Recoveries
  <1>2. CASE w.recovered.research \in Results
    <2>1. EnterPass(w) = [w EXCEPT !.pc = "newest", !.research = w.recovered.research]
      BY <1>2 DEF EnterPass
    <2> DEFINE v == [w EXCEPT !.pc = "newest", !.research = w.recovered.research]
    <2>2. /\ v \in Workers /\ Keeps(v, w) /\ v.pc = "newest" /\ v.plan = "research"
          /\ v.pass = w.pass /\ v.recovered = w.recovered
          /\ v.research = w.recovered.research
      BY <1>1 DEF Workers, Keeps
    <2> HIDE DEF v
    <2>3. v.explicit = w.explicit
      BY <2>2 DEF Keeps
    <2>4. Along(v, t)
      BY <2>2, <1>2
      DEF Informed, Along, PlanFits, RecoveryFits, ResearchFits, DraftFits, AtJob,
          BeforeDraft, BeforeResearch, Drafting
    <2>5. Follows(v, t)
      BY <2>2, <2>3, <2>4 DEF Follows, Informed
    <2> QED BY <2>1, <2>2, <2>5 DEF v
  <1>3. CASE w.recovered.research \notin Results
    <2>1. EnterPass(w) = [w EXCEPT !.pc = "start"]
      BY <1>3 DEF EnterPass
    <2> DEFINE v == [w EXCEPT !.pc = "start"]
    <2>2. /\ v \in Workers /\ Keeps(v, w) /\ v.pc = "start" /\ v.plan = "research"
          /\ v.pass = w.pass /\ v.recovered = w.recovered
      BY <1>1 DEF Workers, Keeps
    <2> HIDE DEF v
    <2>3. v.explicit = w.explicit
      BY <2>2 DEF Keeps
    <2>4. Along(v, t)
      BY <2>2, <1>3
      DEF Informed, Along, PlanFits, RecoveryFits, ResearchFits, DraftFits, AtJob,
          BeforeDraft, BeforeResearch, Drafting
    <2>5. Follows(v, t)
      BY <2>2, <2>3, <2>4 DEF Follows, Informed
    <2> QED BY <2>1, <2>2, <2>5 DEF v
  <1> QED BY <1>2, <1>3

LEMMA PlannedFollows ==
  ASSUME NEW w, NEW t, Informed(w, t), w.plan = t.plan, w.plan # "none"
  PROVE  Planned(w) \in Workers /\ Keeps(Planned(w), w) /\ Follows(Planned(w), t)
  <1>1. /\ w \in Workers /\ w.plan \in {"silent", "reply", "research"}
        /\ w.explicit \in BOOLEAN /\ (w.explicit => w.plan # "silent")
    BY DEF Informed, Workers, Plans, Coherent
  <1>2. CASE w.plan = "research" /\ ~w.explicit
    <2>1. Planned(w) = EnterPass(w)
      BY <1>2 DEF Planned
    <2> QED BY <2>1, <1>2, EnterPassFollows
  <1>3. CASE ~(w.plan = "research" /\ ~w.explicit)
    <2> DEFINE p == IF w.plan = "silent" THEN "silent"
                    ELSE IF w.plan = "reply" THEN "newest" ELSE "acknowledge"
               v == [w EXCEPT !.pc = p]
    <2>1. Planned(w) = v
      BY <1>1, <1>3 DEF Planned
    <2>2. /\ v \in Workers /\ Keeps(v, w) /\ v.pc = p /\ v.plan = w.plan
          /\ v.pass = w.pass /\ v.recovered = w.recovered /\ v.explicit = w.explicit
      BY <1>1 DEF Workers, Keeps
    <2> HIDE DEF v
    <2>3. Along(v, t)
      BY <2>2, <1>1, <1>3
      DEF Informed, Along, PlanFits, RecoveryFits, ResearchFits, DraftFits, AtJob,
          BeforeDraft, BeforeResearch, Drafting
    <2>4. Follows(v, t)
      BY <2>2, <2>3, <1>1 DEF Follows, Informed
    <2> QED BY <2>1, <2>2, <2>4
  <1> QED BY <1>2, <1>3

(* A claim starts the worker where the record ends. *)
LEMMA StartedFollows ==
  ASSUME NEW t \in Turns, Coherent(t), channel.generation \in Nat
  PROVE  /\ Started(t) \in Workers /\ Follows(Started(t), t)
         /\ Started(t).generation = channel.generation + 1
         /\ Started(t).newest = NoContext
         /\ Started(t).pc \notin {"idle", "fail"}
  <1> DEFINE r == durableTurnRecoveryPayload(t)
             w == [Idle EXCEPT !.generation = channel.generation + 1,
                               !.explicit = t.explicit, !.plan = t.plan,
                               !.pass = r.pass, !.recovered = r]
  <1>1. /\ r \in Recoveries /\ r.pass \in Passes
        /\ r.research = t.artifact[r.pass].status
        /\ r.resume = t.resume
        /\ r.pass = 1 => t.artifact[2].status = "none"
        /\ t.artifact[2].status # "none" => r.pass = 2
    BY DEF durableTurnRecoveryPayload, Recoveries, Turns, Artifacts, Passes
  <1>2. t.resume.pass <= r.pass
    BY <1>1 DEF Coherent, Turns, Resumes, Passes
  <1> HIDE DEF r
  <1>3. /\ w \in Workers /\ w.explicit = t.explicit /\ w.plan = t.plan
        /\ w.pass = r.pass /\ w.recovered = r /\ w.newest = NoContext
        /\ w.generation = channel.generation + 1 /\ w.stage = <<"plan", 1>>
    <2>1. channel.generation + 1 \in Nat /\ t.explicit \in BOOLEAN /\ t.plan \in Plans
      BY DEF Turns
    <2> QED BY <2>1, <1>1, IdleTyped DEF Workers, Idle
  <1> HIDE DEF w
  <1>4. Informed(w, t)
    BY <1>1, <1>2, <1>3 DEF Informed
  <1>5. CASE t.plan = "none"
    <2> DEFINE v == [w EXCEPT !.pc = "submit"]
    <2>1. Started(t) = v
      BY <1>5 DEF Started, r, w
    <2>2. /\ v \in Workers /\ v.pc = "submit" /\ v.plan = "none"
          /\ v.pass = w.pass /\ v.recovered = w.recovered /\ v.explicit = w.explicit
          /\ v.newest = NoContext /\ v.generation = channel.generation + 1
          /\ v.stage = <<"plan", 1>>
      BY <1>3, <1>5 DEF Workers
    <2> HIDE DEF v
    <2>3. v.stage[1] = "plan"
      BY <2>2
    <2>4. Along(v, t)
      BY <2>2, <2>3, <1>4
      DEF Informed, Along, PlanFits, RecoveryFits, ResearchFits, DraftFits, AtJob,
          BeforeDraft, BeforeResearch, Drafting
    <2>5. Follows(v, t)
      BY <2>2, <2>4, <1>4 DEF Follows, Informed
    <2> QED BY <2>1, <2>2, <2>5
  <1>6. CASE t.plan # "none"
    <2>1. Started(t) = Planned(w)
      BY <1>6 DEF Started, r, w
    <2>2. Planned(w) \in Workers /\ Keeps(Planned(w), w) /\ Follows(Planned(w), t)
      BY <1>3, <1>4, <1>6, PlannedFollows
    <2> QED BY <2>1, <2>2, <1>3 DEF Keeps
  <1> QED BY <1>5, <1>6

(* A draft the turn records leads to its second pass or to the end. *)
LEMMA DecidedFollows ==
  ASSUME NEW w \in Workers, NEW t \in Turns, Coherent(t), w.explicit = t.explicit,
         w.plan = "research", t.plan = "research",
         w.recovered.resume.pass <= w.pass,
         w.pass = 1 => t.artifact[2].status = "none",
         t.resume # NoResume, t.resume.pass = w.pass
  PROVE  /\ Decided(w, t.resume) \in Workers
         /\ Keeps(Decided(w, t.resume), w)
         /\ Follows(Decided(w, t.resume), t)
  <1>1. /\ t.resume \in Resumes /\ t.resume.action \in {"send", "suppress", "recheck"}
        /\ t.resume.action = "recheck" => w.pass = 1
        /\ w.pass \in Passes /\ w.recovered.resume.pass \in 0..2
    BY DEF Coherent, Made, Turns, Workers, Recoveries, Resumes
  <1>2. CASE t.resume.action = "recheck"
    <2> DEFINE v == [w EXCEPT !.pc = "start", !.pass = 2, !.resume = t.resume]
    <2>1. Decided(w, t.resume) = v
      BY <1>2 DEF Decided
    <2>2. /\ v \in Workers /\ Keeps(v, w) /\ v.pc = "start" /\ v.plan = "research"
          /\ v.pass = 2 /\ v.recovered = w.recovered /\ v.explicit = w.explicit
      <3>1. 2 \in Passes
        BY DEF Passes
      <3> QED BY <1>1, <3>1 DEF Workers, Keeps
    <2> HIDE DEF v
    <2>3. w.recovered.resume.pass < 2
      BY <1>1, <1>2 DEF Passes
    <2>4. Along(v, t)
      BY <2>2, <2>3, <1>1, <1>2
      DEF Along, PlanFits, RecoveryFits, ResearchFits, DraftFits, AtJob,
          BeforeDraft, BeforeResearch, Drafting, Results
    <2>5. Follows(v, t)
      BY <2>2, <2>4 DEF Follows
    <2> QED BY <2>1, <2>2, <2>5
  <1>3. CASE t.resume.action # "recheck"
    <2> DEFINE p == IF t.resume.action = "suppress" THEN "suppress" ELSE "queue"
               v == [w EXCEPT !.pc = p, !.resume = t.resume]
    <2>1. Decided(w, t.resume) = v
      BY <1>1, <1>3 DEF Decided
    <2>2. /\ v \in Workers /\ Keeps(v, w) /\ v.pc = p /\ v.plan = "research"
          /\ v.pass = w.pass /\ v.recovered = w.recovered /\ v.explicit = w.explicit
          /\ v.resume = t.resume
      BY <1>1 DEF Workers, Keeps
    <2> HIDE DEF v
    <2>3. Along(v, t)
      BY <2>2, <1>1, <1>3
      DEF Along, PlanFits, RecoveryFits, ResearchFits, DraftFits, AtJob,
          BeforeDraft, BeforeResearch, Drafting
    <2>4. Follows(v, t)
      BY <2>2, <2>3 DEF Follows
    <2> QED BY <2>1, <2>2, <2>4
  <1> QED BY <1>2, <1>3

LEMMA CaughtUpFollows ==
  ASSUME NEW w \in Workers, NEW t \in Turns, Coherent(t), Follows(w, t),
         w.pc = "newest"
  PROVE  CaughtUp(w) \in Workers /\ Keeps(CaughtUp(w), w) /\ Follows(CaughtUp(w), t)
  <1>1. /\ Along(w, t) /\ w.explicit = t.explicit /\ w.plan \in {"reply", "research"}
        /\ t.plan = w.plan /\ (w.explicit => w.plan # "silent")
    BY DEF Follows, Failing, Along, PlanFits, AtJob
  <1>2. CASE w.plan = "reply"
    <2> DEFINE v == [w EXCEPT !.pc = "queue"]
    <2>1. CaughtUp(w) = v
      BY <1>2 DEF CaughtUp
    <2>2. /\ v \in Workers /\ Keeps(v, w) /\ v.pc = "queue" /\ v.plan = "reply"
          /\ v.pass = w.pass /\ v.recovered = w.recovered /\ v.explicit = w.explicit
      BY <1>2 DEF Workers, Keeps
    <2> HIDE DEF v
    <2>3. Along(v, t)
      BY <2>2, <1>1, <1>2
      DEF Along, PlanFits, RecoveryFits, ResearchFits, DraftFits, AtJob,
          BeforeDraft, BeforeResearch, Drafting
    <2>4. Follows(v, t)
      BY <2>2, <2>3, <1>1 DEF Follows
    <2> QED BY <2>1, <2>2, <2>4
  <1>3. CASE w.plan = "research" /\ RecoveredResumeIsCurrent(w)
    <2>1. CaughtUp(w) = Decided(w, w.recovered.resume)
      BY <1>3 DEF CaughtUp
    <2>2. w.recovered.resume = t.resume /\ t.resume.pass = w.pass
      BY <1>1, <1>3 DEF Along, RecoveryFits, BeforeDraft, RecoveredResumeIsCurrent
    <2>3. t.resume # NoResume
      BY <2>2 DEF NoResume, Workers, Passes
    <2>4. /\ w.recovered.resume.pass <= w.pass
          /\ w.pass = 1 => t.artifact[2].status = "none"
      BY <1>1 DEF Along, RecoveryFits, ResearchFits
    <2> QED BY <2>1, <2>2, <2>3, <2>4, <1>1, <1>3, DecidedFollows
  <1>4. CASE w.plan = "research" /\ ~RecoveredResumeIsCurrent(w)
    <2> DEFINE v == [w EXCEPT !.pc = "submit", !.stage = <<"resume", w.pass>>,
                              !.resubmitted = FALSE]
    <2>1. CaughtUp(w) = v
      BY <1>4 DEF CaughtUp
    <2>2. <<"resume", w.pass>> \in Stages
      BY PassIsResearch DEF Workers
    <2>3. /\ v \in Workers /\ Keeps(v, w) /\ v.pc = "submit" /\ v.plan = "research"
          /\ v.pass = w.pass /\ v.recovered = w.recovered /\ v.explicit = w.explicit
          /\ v.research = w.research /\ v.stage = <<"resume", w.pass>>
      BY <1>4, <2>2 DEF Workers, Keeps
    <2> HIDE DEF v
    <2>4. v.stage[1] = "resume"
      BY <2>3
    <2>5. Along(v, t)
      BY <2>3, <2>4, <1>1, <1>4
      DEF Along, PlanFits, RecoveryFits, ResearchFits, DraftFits, AtJob,
          BeforeDraft, BeforeResearch, Drafting
    <2>6. Follows(v, t)
      BY <2>3, <2>5, <1>1 DEF Follows
    <2> QED BY <2>1, <2>3, <2>6
  <1> QED BY <1>1, <1>2, <1>3, <1>4

(* What follows a turn follows every turn with the same record. *)
LEMMA FollowsRecord ==
  ASSUME NEW w, NEW t, NEW u, Follows(w, t), u.explicit = t.explicit, u.plan = t.plan,
         u.artifact = t.artifact, u.resume = t.resume
  PROVE  Follows(w, u)
  BY DEF Follows, Along, PlanFits, RecoveryFits, ResearchFits, DraftFits

LEMMA CoherentRecord ==
  ASSUME NEW t, NEW u, Coherent(t), u.explicit = t.explicit, u.plan = t.plan,
         u.artifact = t.artifact, u.resume = t.resume, u.attempts = t.attempts
  PROVE  Coherent(u)
  BY DEF Coherent

LEMMA PiFailedAttended ==
  ASSUME Shaped, Attending, worker.pc \in {"submit", "wait"}, NEW r \in BOOLEAN,
         worker' = PiFailed(r), UNCHANGED convex
  PROVE  Attending' /\ worker'.pc \notin {"idle", "fail"}
  <1>1. CASE worker.stage[1] # "sol"
    <2>1. worker' = OnError(r)
      BY <1>1 DEF PiFailed
    <2>2. Attending'
      BY <2>1, FailureAttended DEF Shaped, convex
    <2>3. worker'.pc \notin {"idle", "fail"}
      BY <2>1, OnErrorForgets DEF Attending
    <2> QED BY <2>2, <2>3
  <1>2. CASE worker.stage[1] = "sol"
    <2>1. worker' = [worker EXCEPT !.pc = "recordResearch", !.research = "failed"]
      BY <1>2 DEF PiFailed
    <2>2. /\ worker' \in Workers /\ worker'.pc = "recordResearch"
          /\ worker'.research = "failed" /\ worker'.plan = worker.plan
          /\ worker'.pass = worker.pass /\ worker'.recovered = worker.recovered
          /\ worker'.explicit = worker.explicit /\ worker'.newest = worker.newest
          /\ worker'.generation = worker.generation
      BY <2>1 DEF Attending, Workers, Researches
    <2>3. Along(worker, turn) /\ worker.explicit = turn.explicit
      BY DEF Attending, Follows, Failing
    <2>4. Along(worker', turn)
      BY <2>2, <2>3, <1>2
      DEF Along, PlanFits, RecoveryFits, ResearchFits, DraftFits, AtJob,
          BeforeDraft, BeforeResearch, Drafting, Results
    <2>5. Follows(worker', turn)
      BY <2>2, <2>3, <2>4 DEF Follows, Attending
    <2> QED BY <2>2, <2>5 DEF Attending, convex
  <1> QED BY <1>1, <1>2

-----------------------------------------------------------------------------
(* What a step does to the documents. *)

Counted == faults' = faults \/ Fault

LEMMA CountedTyped ==
  ASSUME faults \in 0..MaxFaults, Counted
  PROVE  faults' \in 0..MaxFaults /\ faults <= faults' /\ (Fault => faults' # 0)
  BY TurnBoundsAssumption DEF Counted, Fault

LEMMA FenceIsOpen ==
  ASSUME Documents, Fence
  PROVE  channel.run # 0 /\ Open /\ worker.generation = channel.generation
  BY DEF Fence, Documents, Fenced

LEMMA UntroubledFence ==
  ASSUME Documents, Attending, Untroubled, faults = 0, worker.pc # "idle"
  PROVE  Fence /\ \A q \in FinalKeys : outbox[q].status = "absent"
  BY DEF Fence, Untroubled, Attending

LEMMA DocumentsKept ==
  ASSUME Documents, UNCHANGED convex, jobs' \in [Stages -> Jobs], Counted
  PROVE  Documents'
  <1>1. Shaped'
    BY CountedTyped DEF Documents, Shaped, convex
  <1>2. Coherent(turn')
    BY DEF Documents, convex
  <1>3. Fenced'
    BY DEF Documents, Fenced, Open, convex
  <1>4. ReplyIsCommitted'
    BY DEF Documents, ReplyIsCommitted, convex
  <1>5. ExplicitTurnsAreAnswered'
    <2>1. faults > 0 => faults' > 0
      BY CountedTyped DEF Documents, Shaped
    <2> QED BY <2>1 DEF Documents, ExplicitTurnsAreAnswered, Open, convex
  <1> QED BY <1>1, <1>2, <1>3, <1>4, <1>5 DEF Documents

(* The turn records more under the fence. *)
LEMMA TurnRecorded ==
  ASSUME Documents, Fence, NEW t \in Turns, OnlyTurn(t),
         t.eligible.through <= channel.latest, Coherent(t),
         t.explicit = turn.explicit, t.plan = turn.plan \/ turn.plan = "none",
         t.resume = turn.resume \/ turn.resume.action # "send",
         t.stage = "failed" => turn.stage = "failed",
         jobs' \in [Stages -> Jobs], Counted
  PROVE  Documents'
  <1> USE DEF OnlyTurn
  <1>1. Shaped'
    BY CountedTyped DEF Documents, Shaped
  <1>2. Coherent(turn')
    OBVIOUS
  <1>3. Fenced'
    BY DEF Documents, Fenced, Open
  <1>4. ReplyIsCommitted'
    BY DEF Documents, ReplyIsCommitted
  <1>5. ExplicitTurnsAreAnswered'
    <2>1. faults > 0 => faults' > 0
      BY CountedTyped DEF Documents, Shaped
    <2>2. Open'
      BY FenceIsOpen DEF Open
    <2> QED BY <2>1, <2>2 DEF Documents, ExplicitTurnsAreAnswered
  <1> QED BY <1>1, <1>2, <1>3, <1>4, <1>5 DEF Documents

(* A row is written where there was none. *)
LEMMA RowWritten ==
  ASSUME Documents, Fence, NEW q \in Keys, NEW o \in Replies, OnlyReply(q, o),
         o.status = "pending", o.generation = channel.generation,
         q \in FinalKeys => \A p \in FinalKeys : outbox[p].status # "pending",
         q = "reply" => \/ o.text.source = "plan" /\ turn.plan = "reply"
                        \/ o.text = turn.resume.text /\ turn.resume.action = "send"
                        \/ o.text.source = "apology",
         UNCHANGED jobs, Counted
  PROVE  Documents'
  <1> USE DEF OnlyReply
  <1>1. Shaped'
    BY CountedTyped DEF Documents, Shaped
  <1>2. Coherent(turn')
    BY DEF Documents
  <1>3. outbox' = [outbox EXCEPT ![q] = o] /\ outbox \in [Keys -> Replies]
    BY DEF Documents, Shaped
  <1>4. channel.run # 0 /\ Open
    BY FenceIsOpen
  <1>5. \A p \in FinalKeys : outbox[p].status # "sent"
    BY <1>4 DEF Documents, Fenced
  <1>6. Fenced'
    BY <1>3, <1>4 DEF Documents, Fenced, Open, Keys
  <1>7. ReplyIsCommitted'
    <2>1. "reply" \in FinalKeys /\ "failure-closure" \in FinalKeys
      BY DEF FinalKeys
    <2>2. CASE q = "ack"
      <3>1. outbox'["reply"] = outbox["reply"]
            /\ outbox'["failure-closure"] = outbox["failure-closure"]
        BY <1>3, <2>1, <2>2 DEF Keys
      <3> QED BY <3>1 DEF Documents, ReplyIsCommitted
    <2>3. CASE q = "reply"
      <3>1. outbox'["reply"] = o /\ outbox'["failure-closure"] = outbox["failure-closure"]
        BY <1>3, <2>1, <2>3 DEF Keys
      <3> QED BY <3>1, <2>1, <2>3, <1>5 DEF ReplyIsCommitted
    <2>4. CASE q = "failure-closure"
      <3>1. outbox'["reply"] = outbox["reply"]
        BY <1>3, <2>1, <2>4 DEF Keys
      <3>2. outbox["reply"].status \notin {"pending", "sent"}
        BY <2>1, <2>4, <1>5
      <3> QED BY <3>1, <3>2 DEF ReplyIsCommitted
    <2> QED BY <2>2, <2>3, <2>4 DEF Keys, FinalKeys
  <1>8. ExplicitTurnsAreAnswered'
    <2>1. faults > 0 => faults' > 0
      BY CountedTyped DEF Documents, Shaped
    <2> QED BY <2>1, <1>4 DEF Documents, ExplicitTurnsAreAnswered, Open
  <1> QED BY <1>1, <1>2, <1>6, <1>7, <1>8 DEF Documents

LEMMA InvalidatedTyped ==
  ASSUME NEW o \in Replies
  PROVE  Invalidated(o) \in Replies /\ Invalidated(o).status # "pending"
         /\ (Invalidated(o).status = "sent" => o.status = "sent")
  BY DEF Invalidated, Replies

(* A run ends with no word left to say. *)
LEMMA RunEnds ==
  ASSUME Documents, Fence, NEW t \in Turns, turn' = t, Coherent(t),
         t.eligible.through <= channel.latest,
         channel' \in Channels, channel'.run = 0, channel'.lease = "none",
         channel'.generation = channel.generation, channel'.latest = channel.latest,
         channel'.trigger = channel.trigger, channel'.windowEnd = channel.windowEnd,
         outbox' = [q \in Keys |-> Invalidated(outbox[q])],
         UNCHANGED <<mentions, jobs>>, Counted,
         t.explicit =>
           /\ ~Open' => /\ t.resume.action = "suppress"
                        /\ t.artifact[t.resume.pass].status = "packet"
           /\ t.stage = "failed" => faults' > 0
  PROVE  Documents'
  <1>1. outbox' \in [Keys -> Replies]
    BY InvalidatedTyped DEF Documents, Shaped
  <1>2. Shaped'
    BY <1>1, CountedTyped DEF Documents, Shaped
  <1>3. \A q \in Keys : outbox'[q].status # "pending"
    BY InvalidatedTyped DEF Documents, Shaped
  <1>4. \A q \in FinalKeys : outbox'[q].status # "sent"
    <2>1. \A q \in FinalKeys : outbox[q].status # "sent"
      BY FenceIsOpen DEF Documents, Fenced
    <2> QED BY <2>1, InvalidatedTyped DEF Documents, Shaped, Keys
  <1>5. Fenced'
    <2>1. channel'.run <= channel'.generation
      BY DEF Channels
    <2> QED BY <2>1, <1>3, <1>4 DEF Fenced
  <1>6. ReplyIsCommitted'
    BY <1>3, <1>4 DEF ReplyIsCommitted, Keys, FinalKeys
  <1>7. ExplicitTurnsAreAnswered'
    BY DEF ExplicitTurnsAreAnswered, Open
  <1> QED BY <1>2, <1>5, <1>6, <1>7 DEF Documents

-----------------------------------------------------------------------------
(* Calls to Convex. *)

(* A call that was refused or lost. *)
LEMMA Refused ==
  ASSUME IInv, worker.pc # "idle", UNCHANGED <<convex, jobs>>,
         NEW r \in BOOLEAN, worker' = OnError(r),
         \/ Fault
         \/ faults' = faults /\ (faults = 0 => worker.pc \notin {"close", "fail"})
  PROVE  IInv'
  <1>1. Counted
    BY DEF Counted
  <1>2. Documents'
    BY <1>1, DocumentsKept DEF IInv, Documents, Shaped
  <1>3. Attending'
    BY FailureAttended DEF IInv, Documents, Shaped, convex
  <1>4. Untroubled'
    <2>1. CASE Fault
      BY <2>1, <1>1, CountedTyped DEF Untroubled, IInv, Documents, Shaped
    <2>2. CASE faults' = faults /\ (faults = 0 => worker.pc \notin {"close", "fail"})
      <3>1. turn.explicit => worker.pc # "quiet"
        BY DEF IInv, Attending, Follows
      <3>2. faults = 0 => worker'.pc # "idle" /\ (turn.explicit => worker'.pc # "fail")
        BY <2>2, <3>1, OnErrorForgets DEF IInv, Attending
      <3> QED BY <2>2, <3>2 DEF Untroubled, IInv, convex
    <2> QED BY <2>1, <2>2
  <1> QED BY <1>2, <1>3, <1>4 DEF IInv

NotAnswered ==
    /\ UNCHANGED <<convex, jobs>>
    /\ \E r \in BOOLEAN : worker' = OnError(r)
    /\ faults' = faults \/ Fault

LEMMA NotAnsweredStep ==
  ASSUME IInv, worker.pc \notin {"idle", "close", "fail"}, NotAnswered
  PROVE  IInv'
  <1>1. PICK r \in BOOLEAN : worker' = OnError(r)
    BY DEF NotAnswered
  <1>2. UNCHANGED <<convex, jobs>> /\ (faults' = faults \/ Fault)
    BY DEF NotAnswered
  <1> QED BY <1>1, <1>2, Refused

LEMMA NotAnsweredCases ==
  /\ CallFails({OnError(retryable) : retryable \in BOOLEAN}) => NotAnswered
  /\ worker' = OnError(FALSE) /\ UNCHANGED <<convex, jobs, faults>> => NotAnswered
  <1>1. ASSUME CallFails({OnError(retryable) : retryable \in BOOLEAN})
        PROVE  NotAnswered
    <2>1. /\ Fault /\ UNCHANGED <<convex, jobs>>
          /\ worker' \in {OnError(retryable) : retryable \in BOOLEAN}
      BY <1>1 DEF CallFails
    <2>2. PICK r \in BOOLEAN : worker' = OnError(r)
      BY <2>1
    <2> QED BY <2>1, <2>2 DEF NotAnswered
  <1>2. ASSUME worker' = OnError(FALSE), UNCHANGED <<convex, jobs, faults>>
        PROVE  NotAnswered
    BY <1>2 DEF NotAnswered
  <1> QED BY <1>1, <1>2

(* A call whose effect is recorded while its answer is lost. *)
LEMMA AnswerLost ==
  ASSUME IInv, Documents', worker.pc # "idle", worker' = OnError(TRUE), Fault,
         turn'.explicit = turn.explicit, channel'.generation = channel.generation
  PROVE  IInv'
  <1>1. Attending'
    <2>1. channel' \in Channels
      BY DEF Documents, Shaped
    <2> QED BY <2>1, FailureAttended DEF IInv, Documents
  <1>2. Untroubled'
    BY CountedTyped DEF Counted, Untroubled, IInv, Documents, Shaped
  <1> QED BY <1>1, <1>2 DEF IInv

(* A call that was answered, by which no run ends and no final is queued. *)
LEMMA UntroubledOn ==
  ASSUME IInv, worker.pc # "idle", worker'.pc \notin {"idle", "fail"},
         faults' = faults, UNCHANGED channel,
         \A q \in FinalKeys : outbox'[q] = outbox[q]
  PROVE  Untroubled'
  BY DEF Untroubled, IInv

LEMMA PlanRecorded ==
  ASSUME IInv, recordFrontmanPlan
  PROVE  IInv'
  <1> DEFINE t == [turn EXCEPT !.plan = worker.plan]
             accepts == Fence /\ turn.plan \in {"none", worker.plan}
  <1>1. worker.pc = "recordPlan" /\ worker.pc # "idle"
    BY DEF recordFrontmanPlan
  <1>2. CASE /\ accepts /\ OnlyTurn(t) /\ UNCHANGED jobs /\ Counted
             /\ \/ worker' = Planned(worker) /\ faults' = faults
                \/ worker' = OnError(TRUE) /\ Fault
    <2>1. /\ worker \in Workers /\ turn \in Turns /\ Coherent(turn)
          /\ worker.explicit = turn.explicit /\ Along(worker, turn)
          /\ worker.plan # "none" /\ (worker.explicit => worker.plan # "silent")
      BY <1>1 DEF IInv, Attending, Documents, Shaped, Follows, Failing, Along, PlanFits, AtJob
    <2>2. /\ t \in Turns /\ t.plan = worker.plan /\ t.explicit = turn.explicit
          /\ t.resume = turn.resume /\ t.artifact = turn.artifact /\ t.stage = turn.stage
          /\ t.eligible = turn.eligible /\ t.attempts = turn.attempts
      BY <2>1 DEF Turns, Workers
    <2>3. Coherent(t)
      BY <2>1, <2>2 DEF Coherent
    <2>4. jobs' \in [Stages -> Jobs] /\ t.eligible.through <= channel.latest
      BY <1>2, <2>2 DEF IInv, Documents, Shaped
    <2> HIDE DEF t
    <2>5. Documents'
      BY <1>2, <2>2, <2>3, <2>4, TurnRecorded DEF IInv
    <2>6. turn' = t /\ UNCHANGED <<channel, outbox>>
      BY <1>2 DEF OnlyTurn
    <2>7. CASE worker' = OnError(TRUE) /\ Fault
      BY <2>7, <1>1, <2>2, <2>5, <2>6, AnswerLost
    <2>8. CASE worker' = Planned(worker) /\ faults' = faults
      <3>1. Informed(worker, t)
        BY <1>1, <2>1, <2>2, <2>3
        DEF Informed, Along, RecoveryFits, ResearchFits, BeforeDraft, BeforeResearch
      <3>2. worker' \in Workers /\ Keeps(worker', worker) /\ Follows(worker', t)
        BY <2>1, <2>2, <2>8, <3>1, PlannedFollows
      <3>3. Attending'
        BY <1>1, <2>6, <3>2 DEF Attending, IInv, Keeps
      <3>4. Untroubled'
        BY <1>1, <2>6, <2>8, <3>2, UntroubledOn DEF Keeps
      <3> QED BY <2>5, <3>3, <3>4 DEF IInv
    <2> QED BY <1>2, <2>7, <2>8
  <1>3. CASE NotAnswered
    BY <1>1, <1>3, NotAnsweredStep
  <1> QED
    BY <1>2, <1>3, NotAnsweredCases DEF recordFrontmanPlan, Call, Counted

LEMMA AcknowledgementEnqueued ==
  ASSUME IInv, enqueueAcknowledgement
  PROVE  IInv'
  <1> DEFINE o == outbox["ack"]
             n == IF o.status # "absent" THEN o
                  ELSE [NoReply EXCEPT !.status = "pending",
                                       !.generation = worker.generation]
  <1>1. worker.pc = "acknowledge" /\ worker.pc # "idle"
    BY DEF enqueueAcknowledgement
  <1>2. CASE /\ Fence /\ OnlyReply("ack", n) /\ UNCHANGED jobs /\ Counted
             /\ \/ worker' = EnterPass(worker) /\ faults' = faults
                \/ worker' = OnError(TRUE) /\ Fault
    <2>1. "ack" \in Keys /\ "ack" \notin FinalKeys /\ "ack" # "reply"
      BY DEF Keys, FinalKeys
    <2>2. outbox \in [Keys -> Replies] /\ jobs \in [Stages -> Jobs] /\ worker.generation \in Nat
      BY DEF IInv, Documents, Shaped, Attending, Workers
    <2>3. worker.generation = channel.generation
      BY <1>2, FenceIsOpen DEF IInv
    <2>4. Documents'
      <3>1. CASE o.status # "absent"
        <4>1. n = outbox["ack"]
          BY <3>1
        <4> HIDE DEF n
        <4>2. outbox' = outbox
          BY <1>2, <2>1, <2>2, <4>1 DEF OnlyReply
        <4> QED BY <1>2, <2>2, <4>2, DocumentsKept DEF OnlyReply, convex, IInv
      <3>2. CASE o.status = "absent"
        <4>1. n = [NoReply EXCEPT !.status = "pending", !.generation = worker.generation]
          BY <3>2
        <4>2. n \in Replies /\ n.status = "pending" /\ n.generation = channel.generation
          BY <4>1, <2>2, <2>3, NothingTyped DEF Replies, NoReply
        <4> HIDE DEF n
        <4> QED BY <1>2, <2>1, <2>2, <4>2, RowWritten DEF IInv
      <3> QED BY <3>1, <3>2
    <2>5. UNCHANGED <<channel, turn>> /\ \A q \in FinalKeys : outbox'[q] = outbox[q]
      BY <1>2, <2>1, <2>2 DEF OnlyReply, Keys
    <2>6. CASE worker' = OnError(TRUE) /\ Fault
      BY <2>6, <1>1, <2>4, <2>5, AnswerLost
    <2>7. CASE worker' = EnterPass(worker) /\ faults' = faults
      <3>1. Informed(worker, turn) /\ worker.plan = "research" /\ turn.plan = "research"
        BY <1>1
        DEF IInv, Attending, Documents, Shaped, Follows, Failing, Along, PlanFits, AtJob,
            Informed, RecoveryFits, ResearchFits, BeforeDraft, BeforeResearch
      <3>2. worker' \in Workers /\ Keeps(worker', worker) /\ Follows(worker', turn)
        BY <2>7, <3>1, EnterPassFollows
      <3>3. Attending'
        BY <1>1, <2>5, <3>2 DEF Attending, IInv, Keeps
      <3>4. Untroubled'
        BY <1>1, <2>5, <2>7, <3>2, UntroubledOn DEF Keeps
      <3> QED BY <2>4, <3>3, <3>4 DEF IInv
    <2> QED BY <1>2, <2>6, <2>7
  <1>3. CASE NotAnswered
    BY <1>1, <1>3, NotAnsweredStep
  <1> QED
    BY <1>2, <1>3, NotAnsweredCases DEF enqueueAcknowledgement, Call, Counted

(* A call by which the turn t is recorded, and the worker goes on as w. *)
LEMMA TurnCall ==
  ASSUME IInv, worker.pc # "idle", Fence, NEW t \in Turns, OnlyTurn(t),
         t.eligible.through <= channel.latest, Coherent(t),
         t.explicit = turn.explicit, t.plan = turn.plan,
         t.resume = turn.resume \/ turn.resume.action # "send",
         t.stage = "failed" => turn.stage = "failed",
         UNCHANGED jobs,
         NEW w \in Workers, w.generation = worker.generation,
         w.newest.through <= channel.latest, w.pc \notin {"idle", "fail"},
         Follows(w, t),
         \/ worker' = w /\ faults' = faults
         \/ worker' = OnError(TRUE) /\ Fault
  PROVE  IInv'
  <1>1. Documents'
    BY TurnRecorded DEF IInv, Counted, Documents, Shaped
  <1>2. turn' = t /\ UNCHANGED <<channel, outbox>>
    BY DEF OnlyTurn
  <1>3. CASE worker' = OnError(TRUE) /\ Fault
    BY <1>1, <1>2, <1>3, AnswerLost
  <1>4. CASE worker' = w /\ faults' = faults
    <2>1. Attending'
      BY <1>2, <1>4 DEF Attending, IInv
    <2>2. Untroubled'
      BY <1>2, <1>4, UntroubledOn
    <2> QED BY <1>1, <2>1, <2>2 DEF IInv
  <1> QED BY <1>3, <1>4

LEMMA ResearchStarted ==
  ASSUME IInv, recordResearchStarted
  PROVE  IInv'
  <1> DEFINE p == worker.pass
             a == turn.artifact[p]
             b == IF a.status = "none" THEN [status |-> "pending", input |-> ResearchInput]
                  ELSE a
             t == [turn EXCEPT !.artifact[p] = b]
             w == [worker EXCEPT !.pc = "submit", !.stage = <<"sol", p>>,
                                 !.resubmitted = FALSE]
  <1>1. worker.pc = "start"
    BY DEF recordResearchStarted
  <1>2. CASE /\ Fence /\ OnlyTurn(t) /\ UNCHANGED jobs
             /\ \/ worker' = w /\ faults' = faults
                \/ worker' = OnError(TRUE) /\ Fault
    <2>1. /\ worker \in Workers /\ turn \in Turns /\ Coherent(turn)
          /\ worker.explicit = turn.explicit /\ Along(worker, turn)
          /\ worker.plan = "research" /\ turn.plan = "research"
          /\ p \in Passes /\ a \in Artifacts /\ a.status \notin Results
          /\ p = 1 => turn.artifact[2].status = "none"
      BY <1>1
      DEF IInv, Attending, Documents, Shaped, Follows, Failing, Along, PlanFits,
          ResearchFits, AtJob, Turns, Workers
    <2>2. ResearchInput \in 0..MaxSequence
      BY DEF ResearchInput, IInv, Documents, Shaped, Channels, Attending, Workers, Contexts
    <2>3. b \in Artifacts /\ b.status = "pending"
      BY <2>1, <2>2 DEF Artifacts, Researches, Results
    <2> HIDE DEF b
    <2>4. /\ t \in Turns /\ t.plan = turn.plan /\ t.explicit = turn.explicit
          /\ t.resume = turn.resume /\ t.stage = turn.stage
          /\ t.eligible = turn.eligible /\ t.attempts = turn.attempts
          /\ t.artifact = [turn.artifact EXCEPT ![p] = b]
      BY <2>1, <2>3 DEF Turns
    <2>5. /\ t.artifact[p] = b
          /\ \A q \in Passes : q # p => t.artifact[q] = turn.artifact[q]
      BY <2>1, <2>4 DEF Turns
    <2> HIDE DEF t
    <2>6. Coherent(t)
      <3>1. t.resume # NoResume =>
              Made(t.resume, t.explicit, t.artifact[t.resume.pass].status)
        BY <2>1, <2>4, <2>5 DEF Coherent, Made, Results
      <3>2. t.resume.pass = 2 => t.artifact[2].status # "none"
        BY <2>1, <2>3, <2>4, <2>5 DEF Coherent, Passes
      <3> QED BY <2>1, <2>4, <3>1, <3>2 DEF Coherent
    <2>7. /\ w \in Workers /\ w.pc = "submit" /\ w.stage = <<"sol", p>> /\ w.pass = p
          /\ w.generation = worker.generation /\ w.newest = worker.newest
          /\ w.recovered = worker.recovered /\ w.plan = "research"
          /\ w.explicit = worker.explicit
      <3>1. <<"sol", p>> \in Stages
        BY <2>1, PassIsResearch
      <3> QED BY <2>1, <3>1 DEF Workers
    <2> HIDE DEF w
    <2>8. w.stage[1] = "sol"
      BY <2>7
    <2>9. p = 1 => t.artifact[2].status = "none"
      BY <2>1, <2>5 DEF Passes
    <2>10. Along(w, t)
      BY <1>1, <2>1, <2>3, <2>4, <2>5, <2>7, <2>8, <2>9
      DEF Along, PlanFits, RecoveryFits, ResearchFits, DraftFits, AtJob,
          BeforeDraft, BeforeResearch, Drafting
    <2>11. Follows(w, t)
      BY <2>1, <2>4, <2>7, <2>10 DEF Follows
    <2>12. /\ t.eligible.through <= channel.latest
           /\ w.newest.through <= channel.latest
      BY <2>4, <2>7 DEF IInv, Documents, Shaped, Attending
    <2> QED BY <1>1, <1>2, <2>4, <2>6, <2>7, <2>11, <2>12, TurnCall
  <1>3. CASE NotAnswered
    BY <1>1, <1>3, NotAnsweredStep
  <1> QED
    BY <1>2, <1>3, NotAnsweredCases DEF recordResearchStarted, Call

LEMMA ResearchRecorded ==
  ASSUME IInv, recordResearchResult
  PROVE  IInv'
  <1> DEFINE p == worker.pass
             a == turn.artifact[p]
             t == [turn EXCEPT !.artifact[p].status = worker.research]
             w == [worker EXCEPT !.pc = "newest"]
  <1>1. worker.pc = "recordResearch"
    BY DEF recordResearchResult
  <1>2. CASE /\ Fence /\ a.status \in {"pending", worker.research}
             /\ OnlyTurn(t) /\ UNCHANGED jobs
             /\ \/ worker' = w /\ faults' = faults
                \/ worker' = OnError(TRUE) /\ Fault
    <2>1. /\ worker \in Workers /\ turn \in Turns /\ Coherent(turn)
          /\ worker.explicit = turn.explicit /\ Along(worker, turn)
          /\ worker.plan = "research" /\ turn.plan = "research"
          /\ p \in Passes /\ a \in Artifacts /\ worker.research \in Results
          /\ p = 1 => turn.artifact[2].status = "none"
      BY <1>1
      DEF IInv, Attending, Documents, Shaped, Follows, Failing, Along, PlanFits,
          ResearchFits, AtJob, Turns, Workers
    <2> DEFINE b == [a EXCEPT !.status = worker.research]
    <2>2. b \in Artifacts /\ b.status = worker.research
      BY <2>1 DEF Artifacts, Researches, Results
    <2>3. t = [turn EXCEPT !.artifact = [turn.artifact EXCEPT ![p] = b]]
      BY <2>1 DEF Turns
    <2> HIDE DEF b
    <2>4. /\ t \in Turns /\ t.plan = turn.plan /\ t.explicit = turn.explicit
          /\ t.resume = turn.resume /\ t.stage = turn.stage
          /\ t.eligible = turn.eligible /\ t.attempts = turn.attempts
          /\ t.artifact = [turn.artifact EXCEPT ![p] = b]
      BY <2>1, <2>2, <2>3 DEF Turns
    <2>5. /\ t.artifact[p] = b
          /\ \A q \in Passes : q # p => t.artifact[q] = turn.artifact[q]
      BY <2>1, <2>4 DEF Turns
    <2> HIDE DEF t
    <2>6. Coherent(t)
      <3>1. t.resume # NoResume =>
              Made(t.resume, t.explicit, t.artifact[t.resume.pass].status)
        BY <1>2, <2>1, <2>2, <2>4, <2>5 DEF Coherent, Made, Results
      <3>2. t.resume.pass = 2 => t.artifact[2].status # "none"
        BY <2>1, <2>2, <2>4, <2>5 DEF Coherent, Passes, Results
      <3> QED BY <2>1, <2>4, <3>1, <3>2 DEF Coherent
    <2>7. /\ w \in Workers /\ w.pc = "newest" /\ w.pass = p
          /\ w.generation = worker.generation /\ w.newest = worker.newest
          /\ w.recovered = worker.recovered /\ w.plan = "research"
          /\ w.explicit = worker.explicit /\ w.research = worker.research
      BY <2>1 DEF Workers
    <2> HIDE DEF w
    <2>8. p = 1 => t.artifact[2].status = "none"
      BY <2>1, <2>5 DEF Passes
    <2>9. Along(w, t)
      BY <1>1, <2>1, <2>2, <2>4, <2>5, <2>7, <2>8
      DEF Along, PlanFits, RecoveryFits, ResearchFits, DraftFits, AtJob,
          BeforeDraft, BeforeResearch, Drafting
    <2>10. Follows(w, t)
      BY <2>1, <2>4, <2>7, <2>9 DEF Follows
    <2>11. /\ t.eligible.through <= channel.latest
           /\ w.newest.through <= channel.latest
      BY <2>4, <2>7 DEF IInv, Documents, Shaped, Attending
    <2> QED BY <1>1, <1>2, <2>4, <2>6, <2>7, <2>10, <2>11, TurnCall
  <1>3. CASE NotAnswered
    BY <1>1, <1>3, NotAnsweredStep
  <1> QED
    BY <1>2, <1>3, NotAnsweredCases DEF recordResearchResult, Call

LEMMA LeastNatural ==
  ASSUME NEW T, T \subseteq Nat, T # {}
  PROVE  \E m \in T : \A n \in T : m <= n
  <1> DEFINE R == OpToRel(<, Nat)
  <1>1. IsWellFoundedOn(R, Nat)
    BY NatLessThanWellFounded
  <1>2. R = {ss \in Nat \X Nat : ss[1] < ss[2]}
    BY DEF OpToRel
  <1> HIDE DEF R
  <1>3. PICK m \in T : \A n \in T : ~ (<<n, m>> \in R)
    BY <1>1, WFMin
  <1>4. ASSUME NEW n \in T PROVE m <= n
    <2>1. n \in Nat /\ m \in Nat
      OBVIOUS
    <2>2. <<n, m>> \in Nat \X Nat => (<<n, m>> \in R <=> n < m)
      BY <1>2
    <2> QED BY <1>3, <2>1, <2>2
  <1> QED BY <1>4

(* Eligible are messages of the channel. *)
LEMMA EligibleTyped ==
  ASSUME Shaped
  PROVE  EligibleContext \in Contexts /\ EligibleContext.through <= channel.latest
  <1> DEFINE later == {m \in mentions : m > channel.windowEnd}
  <1>1. /\ channel.latest \in 1..MaxSequence /\ channel.windowEnd \in Nat
        /\ mentions \subseteq 1..channel.latest
    BY DEF Shaped, Channels
  <1>2. CASE later = {}
    <2>1. EligibleContext = [through |-> channel.latest, next |-> 0]
      BY <1>2 DEF EligibleContext
    <2> QED BY <2>1, <1>1, TurnBoundsAssumption DEF Contexts
  <1>3. CASE later # {}
    <2>1. \E m \in later : \A n \in later : m <= n
      <3>1. later \subseteq Nat
        <4>1. \A m \in mentions : m \in 1..channel.latest
          BY <1>1
        <4>2. \A m \in 1..channel.latest : m \in Nat
          BY <1>1, TurnBoundsAssumption
        <4>3. \A m \in later : m \in mentions
          OBVIOUS
        <4> HIDE DEF later
        <4> QED BY <4>1, <4>2, <4>3
      <3>2. later # {}
        BY <1>3
      <3> HIDE DEF later
      <3> QED BY <3>1, <3>2, LeastNatural
    <2> DEFINE next == CHOOSE m \in later : \A n \in later : m <= n
    <2>2. next \in later
      BY <2>1
    <2>3. EligibleContext = [through |-> next - 1, next |-> next]
      BY <1>3 DEF EligibleContext
    <2> HIDE DEF next
    <2>4. next \in 1..MaxSequence /\ next <= channel.latest
      BY <1>1, <2>2, TurnBoundsAssumption
    <2> HIDE DEF later
    <2> QED BY <2>3, <2>4, <1>1, TurnBoundsAssumption DEF Contexts
  <1> QED BY <1>2, <1>3

(* Research is done, and the newest messages cannot be read. *)
LEMMA NotCaughtUpFollows ==
  ASSUME Documents, Attending, worker.pc = "newest", NEW r \in BOOLEAN
  PROVE  \/ worker.plan = "reply" /\ NotCaughtUp(r) = OnError(r)
         \/ /\ NotCaughtUp(r) \in Workers
            /\ Keeps(NotCaughtUp(r), worker)
            /\ Follows(NotCaughtUp(r), turn)
  <1>1. /\ worker \in Workers /\ Along(worker, turn) /\ worker.explicit = turn.explicit
        /\ (worker.explicit => worker.plan # "silent") /\ worker.explicit \in BOOLEAN
    BY DEF Attending, Follows, Failing, Workers
  <1>2. CASE worker.plan = "reply"
    BY <1>2 DEF NotCaughtUp
  <1>3. CASE worker.plan # "reply"
    <2> DEFINE q == IF worker.explicit THEN "apologise" ELSE "abandon"
               v == [worker EXCEPT !.pc = q]
    <2>1. NotCaughtUp(r) = v
      BY <1>1, <1>3 DEF NotCaughtUp
    <2>2. /\ v \in Workers /\ Keeps(v, worker) /\ v.pc = q /\ v.plan = worker.plan
          /\ v.pass = worker.pass /\ v.recovered = worker.recovered
          /\ v.explicit = worker.explicit
      BY <1>1 DEF Workers, Keeps
    <2> HIDE DEF v
    <2>3. Along(v, turn)
      BY <2>2, <1>1
      DEF Along, PlanFits, RecoveryFits, ResearchFits, DraftFits, AtJob,
          BeforeDraft, BeforeResearch, Drafting
    <2>4. Follows(v, turn)
      BY <2>2, <2>3, <1>1 DEF Follows
    <2> QED BY <2>1, <2>2, <2>4
  <1> QED BY <1>2, <1>3

(* The worker gives up catching up, answered or not. *)
LEMMA NotCaughtUpStep ==
  ASSUME IInv, Documents', worker.pc = "newest", NEW r \in BOOLEAN,
         worker' = NotCaughtUp(r), Counted,
         UNCHANGED <<channel, outbox>>, Follows(worker, turn'),
         turn'.explicit = turn.explicit, turn'.plan = turn.plan,
         turn'.artifact = turn.artifact, turn'.resume = turn.resume
  PROVE  IInv'
  <1>1. CASE worker.plan = "reply" /\ worker' = OnError(r)
    <2>1. Attending'
      BY <1>1, FailureAttended DEF IInv, Documents, Shaped
    <2>2. worker'.pc \notin {"idle", "fail"}
      BY <1>1, OnErrorForgets DEF IInv, Attending
    <2>3. Untroubled'
      BY <2>2, UntroubledOn, CountedTyped DEF Untroubled, Counted, IInv, Documents, Shaped
    <2> QED BY <2>1, <2>3 DEF IInv
  <1>2. CASE /\ worker' \in Workers /\ Keeps(worker', worker) /\ Follows(worker', turn)
    <2>1. Follows(worker', turn')
      BY <1>2, FollowsRecord
    <2>2. Attending'
      BY <1>2, <2>1 DEF IInv, Attending, Keeps
    <2>3. Untroubled'
      BY <1>2, UntroubledOn, CountedTyped
      DEF Untroubled, Counted, IInv, Documents, Shaped, Keeps
    <2> QED BY <2>2, <2>3 DEF IInv
  <1> QED BY <1>1, <1>2, NotCaughtUpFollows DEF IInv

LEMMA NewestContextRead ==
  ASSUME IInv, newestContext
  PROVE  IInv'
  <1> DEFINE t == [turn EXCEPT !.eligible = EligibleContext]
             v == [worker EXCEPT !.newest = EligibleContext]
  <1>1. worker.pc = "newest"
    BY DEF newestContext
  <1>2. /\ worker \in Workers /\ turn \in Turns /\ Coherent(turn)
        /\ Follows(worker, turn) /\ jobs \in [Stages -> Jobs]
        /\ EligibleContext \in Contexts /\ EligibleContext.through <= channel.latest
    BY EligibleTyped DEF IInv, Attending, Documents, Shaped
  <1>3. /\ t \in Turns /\ t.eligible = EligibleContext /\ t.explicit = turn.explicit
        /\ t.plan = turn.plan /\ t.artifact = turn.artifact /\ t.resume = turn.resume
        /\ t.attempts = turn.attempts /\ t.stage = turn.stage
    BY <1>2 DEF Turns
  <1>4. /\ v \in Workers /\ v.newest = EligibleContext /\ v.pc = "newest"
        /\ v.generation = worker.generation /\ v.explicit = worker.explicit
        /\ v.plan = worker.plan /\ v.pass = worker.pass /\ v.research = worker.research
        /\ v.recovered = worker.recovered /\ v.stage = worker.stage
        /\ v.resume = worker.resume
    BY <1>1, <1>2 DEF Workers
  <1> HIDE DEF t, v
  <1>5. Coherent(t) /\ Follows(worker, t)
    BY <1>2, <1>3, FollowsRecord, CoherentRecord
  <1>6. Follows(v, t)
    BY <1>1, <1>4, <1>5
    DEF Follows, Along, PlanFits, RecoveryFits, ResearchFits, DraftFits, AtJob,
        BeforeDraft, BeforeResearch, Drafting
  <1>7. CASE Fence /\ OnlyTurn(t) /\ worker' = CaughtUp(v) /\ UNCHANGED <<faults, jobs>>
    <2>1. /\ CaughtUp(v) \in Workers /\ Keeps(CaughtUp(v), v) /\ Follows(CaughtUp(v), t)
      BY <1>3, <1>4, <1>5, <1>6, CaughtUpFollows
    <2>2. /\ CaughtUp(v).generation = worker.generation
          /\ CaughtUp(v).newest.through <= channel.latest
          /\ CaughtUp(v).pc \notin {"idle", "fail"}
      BY <2>1, <1>2, <1>4 DEF Keeps
    <2> QED BY <1>1, <1>2, <1>3, <1>5, <1>7, <2>1, <2>2, TurnCall
  <1>8. CASE Fence /\ OnlyTurn(t) /\ Fault /\ worker' = NotCaughtUp(TRUE) /\ UNCHANGED jobs
    <2>1. Documents'
      BY <1>2, <1>3, <1>5, <1>8, TurnRecorded DEF IInv, Counted
    <2>2. turn' = t /\ UNCHANGED <<channel, outbox>> /\ Counted
      BY <1>8 DEF OnlyTurn, Counted
    <2>3. faults' # faults
      BY <1>8 DEF Fault, IInv, Documents, Shaped
    <2> QED BY <1>1, <1>3, <1>5, <1>8, <2>1, <2>2, <2>3, NotCaughtUpStep
  <1>9. ASSUME NEW r \in BOOLEAN, worker' = NotCaughtUp(r), UNCHANGED <<convex, jobs>>,
               Counted
        PROVE  IInv'
    <2>1. Documents'
      BY <1>2, <1>9, DocumentsKept DEF IInv
    <2>2. UNCHANGED <<channel, turn, outbox>>
      BY <1>9 DEF convex
    <2> QED BY <1>1, <1>2, <1>9, <2>1, <2>2, NotCaughtUpStep
  <1> QED
    <2>1. \/ Fence /\ OnlyTurn(t) /\ worker' = CaughtUp(v) /\ UNCHANGED <<faults, jobs>>
          \/ Fence /\ OnlyTurn(t) /\ Fault /\ worker' = NotCaughtUp(TRUE) /\ UNCHANGED jobs
          \/ worker' = NotCaughtUp(FALSE) /\ UNCHANGED <<convex, jobs, faults>>
          \/ CallFails({NotCaughtUp(retryable) : retryable \in BOOLEAN})
      BY DEF newestContext, t, v
    <2>2. CASE worker' = NotCaughtUp(FALSE) /\ UNCHANGED <<convex, jobs, faults>>
      BY <1>9, <2>2 DEF Counted
    <2>3. CASE CallFails({NotCaughtUp(retryable) : retryable \in BOOLEAN})
      <3>1. PICK r \in BOOLEAN : worker' = NotCaughtUp(r)
        BY <2>3 DEF CallFails
      <3> QED BY <1>9, <2>3, <3>1 DEF CallFails, Counted
    <2> QED BY <1>7, <1>8, <2>1, <2>2, <2>3

LEMMA ResumeRecorded ==
  ASSUME IInv, recordFrontmanResume
  PROVE  IInv'
  <1> DEFINE duplicate == turn.resume = worker.resume
             first == turn.resume = NoResume
             again == turn.resume.action = "recheck" /\ turn.attempts < 2
             stage == IF worker.resume.action = "suppress" THEN "suppressed" ELSE turn.stage
             u == [turn EXCEPT !.resume = worker.resume, !.attempts = @ + 1,
                               !.eligible = worker.newest,
                               !.stage = IF worker.resume.action = "suppress"
                                         THEN "suppressed" ELSE @]
             t == IF duplicate THEN turn ELSE u
             w == Decided(worker, worker.resume)
  <1>1. worker.pc = "recordResume"
    BY DEF recordFrontmanResume
  <1>2. CASE /\ Fence /\ (duplicate \/ first \/ again)
             /\ OnlyTurn(t) /\ UNCHANGED jobs
             /\ \/ worker' = w /\ faults' = faults
                \/ worker' = OnError(TRUE) /\ Fault
    <2>1. /\ worker \in Workers /\ turn \in Turns /\ Coherent(turn)
          /\ worker.explicit = turn.explicit /\ Along(worker, turn)
          /\ worker.plan = "research" /\ turn.plan = "research"
          /\ worker.pass \in Passes /\ worker.research \in Results
          /\ turn.artifact[worker.pass].status = worker.research
          /\ worker.resume \in Resumes /\ worker.resume.pass = worker.pass
          /\ Made(worker.resume, worker.explicit, worker.research)
      BY <1>1
      DEF IInv, Attending, Documents, Shaped, Follows, Failing, Along, PlanFits,
          ResearchFits, DraftFits, Drafting, AtJob, Workers
    <2>2. worker.resume # NoResume
      BY <2>1 DEF NoResume, Passes
    <2>3. /\ t \in Turns /\ t.resume = worker.resume /\ t.plan = turn.plan
          /\ t.explicit = turn.explicit /\ t.artifact = turn.artifact
          /\ t.stage = "failed" => turn.stage = "failed"
          /\ t.eligible \in {turn.eligible, worker.newest}
      <3>1. CASE duplicate
        BY <2>1, <3>1
      <3>2. CASE ~duplicate
        <4>1. turn.attempts \in 0..1
          BY <1>2, <2>1, <3>2 DEF Coherent, Turns
        <4>2. turn.attempts + 1 \in 0..2 /\ worker.newest \in Contexts
              /\ stage \in {"none", "open", "suppressed", "completed", "failed"}
          BY <2>1, <4>1 DEF Turns, Workers
        <4>3. u = [turn EXCEPT !.resume = worker.resume, !.attempts = turn.attempts + 1,
                               !.eligible = worker.newest, !.stage = stage]
          BY <2>1 DEF Turns
        <4>4. u \in Turns /\ u.resume = worker.resume /\ u.plan = turn.plan
              /\ u.explicit = turn.explicit /\ u.artifact = turn.artifact
              /\ u.stage = stage /\ u.eligible = worker.newest
          <5> HIDE DEF u, stage
          <5> QED BY <2>1, <4>2, <4>3 DEF Turns
        <4> HIDE DEF u
        <4> QED BY <3>2, <4>4
      <3> QED BY <3>1, <3>2
    <2> HIDE DEF t
    <2>4. Coherent(t)
      <3>1. t.resume.pass = 2 => t.artifact[2].status # "none"
        BY <2>1, <2>3 DEF Results
      <3> QED BY <2>1, <2>2, <2>3, <3>1 DEF Coherent
    <2>5. t.resume = turn.resume \/ turn.resume.action # "send"
      BY <1>2, <2>3 DEF NoResume
    <2>6. /\ worker.recovered.resume.pass <= worker.pass
          /\ worker.pass = 1 => t.artifact[2].status = "none"
      BY <2>1, <2>3 DEF Along, RecoveryFits, ResearchFits
    <2>7. w \in Workers /\ Keeps(w, worker) /\ Follows(w, t)
      BY <2>1, <2>2, <2>3, <2>4, <2>6, DecidedFollows
    <2> HIDE DEF w
    <2>8. /\ t.eligible.through <= channel.latest
          /\ w.newest.through <= channel.latest
          /\ w.generation = worker.generation /\ w.pc \notin {"idle", "fail"}
      BY <2>3, <2>7 DEF IInv, Documents, Shaped, Attending, Keeps
    <2> QED BY <1>1, <1>2, <2>3, <2>4, <2>5, <2>7, <2>8, TurnCall
  <1>3. CASE NotAnswered
    BY <1>1, <1>3, NotAnsweredStep
  <1> QED
    BY <1>2, <1>3, NotAnsweredCases DEF recordFrontmanResume, Call

LEMMA HeartbeatKeeps ==
  ASSUME IInv, heartbeat
  PROVE  IInv'
  <1> DEFINE t == [turn EXCEPT !.stage = "open"]
  <1>1. turn \in Turns /\ Coherent(turn) /\ turn.eligible.through <= channel.latest
        /\ jobs' \in [Stages -> Jobs]
    BY DEF IInv, Documents, Shaped, heartbeat
  <1>2. /\ t \in Turns /\ t.eligible = turn.eligible /\ t.explicit = turn.explicit
        /\ t.plan = turn.plan /\ t.artifact = turn.artifact /\ t.resume = turn.resume
        /\ t.attempts = turn.attempts /\ t.stage = "open"
    BY <1>1 DEF Turns
  <1>3. OnlyTurn(t) /\ Fence /\ Counted /\ UNCHANGED <<channel, outbox, worker, faults>>
    BY DEF heartbeat, OnlyTurn, Counted
  <1> HIDE DEF t
  <1>4. Coherent(t)
    BY <1>1, <1>2, CoherentRecord
  <1>5. Documents'
    BY <1>1, <1>2, <1>3, <1>4, TurnRecorded DEF IInv
  <1>6. Attending'
    BY <1>2, <1>3, FollowsRecord DEF OnlyTurn, IInv, Attending
  <1>7. Untroubled'
    BY <1>2, <1>3 DEF OnlyTurn, IInv, Untroubled
  <1> QED BY <1>5, <1>6, <1>7 DEF IInv

-----------------------------------------------------------------------------
(* Finals and the end of a run. *)

LEMMA IdleAttended ==
  ASSUME channel' \in Channels, worker' = Idle
  PROVE  Attending'
  <1>1. Follows(worker', turn')
    BY DEF Follows, Idle, Failing
  <1>2. worker'.newest.through = 0 /\ channel'.latest \in Nat
    BY IdleTyped, TurnBoundsAssumption DEF Channels, NoContext
  <1> QED BY <1>1, <1>2, IdleTyped DEF Attending

LEMMA FinalQueued ==
  ASSUME IInv, worker.pc \in {"queue", "apologise", "close"}, NEW q \in FinalKeys,
         NEW text \in Texts, NEW cut \in 0..MaxSequence,
         q = "reply" => \/ text.source = "plan" /\ turn.plan = "reply"
                        \/ text = turn.resume.text /\ turn.resume.action = "send"
                        \/ text.source = "apology",
         EnqueueFinal(q, text, cut)
  PROVE  IInv'
  <1> DEFINE o == outbox[q]
             new == [status |-> "pending", generation |-> worker.generation,
                     text |-> text, consumes |-> cut]
             n == IF o.status = "absent" THEN new ELSE o
             accepts == /\ Fence
                        /\ IF o.status = "absent" THEN ~FinalEnqueued
                           ELSE [o EXCEPT !.status = "pending"] = new
  <1>1. /\ q \in Keys /\ outbox \in [Keys -> Replies] /\ jobs \in [Stages -> Jobs]
        /\ worker \in Workers /\ channel \in Channels
    BY DEF Keys, IInv, Documents, Shaped, Attending
  <1>2. CASE /\ accepts /\ OnlyReply(q, n) /\ UNCHANGED jobs
             /\ \/ worker' = Idle /\ faults' = faults
                \/ worker' = OnError(TRUE) /\ Fault
    <2>1. Fence /\ worker.generation = channel.generation /\ Counted
      BY <1>2, FenceIsOpen DEF IInv, Counted
    <2>2. Documents'
      <3>1. CASE o.status # "absent"
        <4>1. n = outbox[q]
          BY <3>1
        <4> HIDE DEF n
        <4>2. outbox' = outbox
          BY <1>1, <1>2, <4>1 DEF OnlyReply
        <4> QED BY <1>1, <1>2, <2>1, <4>2, DocumentsKept DEF OnlyReply, convex, IInv
      <3>2. CASE o.status = "absent"
        <4>1. n = new /\ ~FinalEnqueued
          BY <1>2, <3>2
        <4>2. \A p \in FinalKeys : outbox[p].status # "pending"
          BY <2>1, <4>1 DEF FinalEnqueued, IInv, Documents, Fenced, Keys
        <4>3. new \in Replies /\ new.status = "pending" /\ new.text = text
              /\ new.generation = channel.generation
          BY <1>1, <2>1 DEF Replies, Workers
        <4>4. OnlyReply(q, new)
          BY <1>2, <4>1
        <4> HIDE DEF new, n
        <4> QED BY <1>1, <1>2, <2>1, <4>2, <4>3, <4>4, RowWritten DEF IInv
      <3> QED BY <3>1, <3>2
    <2>3. UNCHANGED <<channel, turn>>
      BY <1>2 DEF OnlyReply
    <2>4. CASE worker' = OnError(TRUE) /\ Fault
      BY <2>2, <2>3, <2>4, AnswerLost
    <2>5. CASE worker' = Idle /\ faults' = faults
      <3>1. Attending'
        BY <1>1, <2>3, <2>5, IdleAttended
      <3>2. faults = 0 => outbox'[q].status = "pending"
        <4>1. ASSUME faults = 0 PROVE o.status = "absent"
          BY <4>1, UntroubledFence DEF IInv
        <4>2. o.status = "absent" => outbox'[q] = new
          BY <1>1, <1>2 DEF OnlyReply
        <4> QED BY <4>1, <4>2
      <3>3. faults = 0 /\ channel.run # 0 => channel.lease = "live"
        BY DEF IInv, Untroubled
      <3>4. worker'.pc = "idle"
        BY <2>5, IdleTyped
      <3>5. Untroubled'
        BY <2>3, <2>5, <3>2, <3>3, <3>4 DEF Untroubled
      <3> QED BY <2>2, <3>1, <3>5 DEF IInv
    <2> QED BY <1>2, <2>4, <2>5
  <1>3. CASE Fault /\ NotAnswered
    <2>1. PICK r \in BOOLEAN : worker' = OnError(r)
      BY <1>3 DEF NotAnswered
    <2> QED BY <1>3, <2>1, Refused DEF NotAnswered
  <1>4. CASE ~accepts /\ worker' = OnError(FALSE) /\ UNCHANGED <<convex, jobs, faults>>
    <2>1. faults # 0
      <3>1. ASSUME faults = 0 PROVE FALSE
        <4>1. Fence /\ \A p \in FinalKeys : outbox[p].status = "absent"
          BY <3>1, UntroubledFence DEF IInv
        <4>2. ~FinalEnqueued
          BY <4>1 DEF FinalEnqueued
        <4> QED BY <1>4, <4>1, <4>2
      <3> QED BY <3>1
    <2> QED BY <1>4, <2>1, Refused
  <1> QED
    <2>1. \/ accepts /\ OnlyReply(q, n) /\ worker' = Idle /\ UNCHANGED <<jobs, faults>>
          \/ accepts /\ OnlyReply(q, n) /\ Fault /\ worker' = OnError(TRUE) /\ UNCHANGED jobs
          \/ ~accepts /\ worker' = OnError(FALSE) /\ UNCHANGED <<convex, jobs, faults>>
          \/ CallFails({OnError(retryable) : retryable \in BOOLEAN})
      BY DEF EnqueueFinal, Call
    <2>2. CallFails({OnError(retryable) : retryable \in BOOLEAN}) => Fault /\ NotAnswered
      BY NotAnsweredCases DEF CallFails
    <2> QED BY <1>2, <1>3, <1>4, <2>1, <2>2

LEMMA FinalsQueued ==
  ASSUME IInv, enqueueReply \/ enqueueApology \/ enqueueClosure
  PROVE  IInv'
  <1>1. /\ worker \in Workers /\ turn \in Turns /\ channel \in Channels
        /\ channel.windowEnd \in 0..MaxSequence /\ worker.newest.through \in 0..MaxSequence
        /\ worker.resume.text \in Texts
    BY DEF IInv, Documents, Shaped, Attending, Channels, Workers, Contexts, Resumes
  <1>2. CASE enqueueReply
    <2> DEFINE text == IF worker.plan = "reply"
                       THEN [source |-> "plan", through |-> channel.windowEnd]
                       ELSE worker.resume.text
    <2>1. worker.pc = "queue" /\ EnqueueFinal("reply", text, worker.newest.through)
      BY <1>2 DEF enqueueReply
    <2>2. text \in Texts
      BY <1>1 DEF Texts, Sources
    <2>3. Along(worker, turn)
      BY <2>1 DEF IInv, Attending, Follows, Failing
    <2>4. \/ text.source = "plan" /\ turn.plan = "reply"
          \/ text = turn.resume.text /\ turn.resume.action = "send"
      BY <2>1, <2>3 DEF Along, PlanFits, DraftFits, AtJob
    <2> HIDE DEF text
    <2> QED BY <1>1, <2>1, <2>2, <2>4, FinalQueued DEF FinalKeys
  <1>3. CASE enqueueApology
    <2> DEFINE text == [source |-> "apology", through |-> 0]
    <2>1. worker.pc = "apologise" /\ EnqueueFinal("reply", text, channel.windowEnd)
      BY <1>3 DEF enqueueApology
    <2>2. text \in Texts /\ text.source = "apology"
      BY TurnBoundsAssumption DEF Texts, Sources
    <2> HIDE DEF text
    <2> QED BY <1>1, <2>1, <2>2, FinalQueued DEF FinalKeys
  <1>4. CASE enqueueClosure
    <2> DEFINE text == [source |-> "closure", through |-> 0]
    <2>1. worker.pc = "close" /\ EnqueueFinal("failure-closure", text, channel.windowEnd)
      BY <1>4 DEF enqueueClosure
    <2>2. text \in Texts
      BY TurnBoundsAssumption DEF Texts, Sources
    <2> HIDE DEF text
    <2> QED BY <1>1, <2>1, <2>2, FinalQueued DEF FinalKeys
  <1> QED BY <1>2, <1>3, <1>4

LEMMA ConsumedTyped ==
  ASSUME channel \in Channels, NEW through \in 0..MaxSequence
  PROVE  LET c == Consumed(through)
         IN /\ c \in Channels /\ c.run = 0 /\ c.lease = "none"
            /\ c.generation = channel.generation /\ c.latest = channel.latest
            /\ c.trigger = channel.trigger /\ c.windowEnd = channel.windowEnd
            /\ c.completed = Larger(channel.completed, through)
  <1> DEFINE done == Larger(channel.completed, through)
             status == IF channel.trigger > through THEN "catching_up" ELSE "idle"
             cleared == ClearedLoop(channel)
  <1>1. done \in 0..MaxSequence
    BY DEF Larger, Channels
  <1>2. /\ cleared \in Channels /\ cleared.run = 0 /\ cleared.lease = "none"
        /\ cleared.generation = channel.generation /\ cleared.latest = channel.latest
        /\ cleared.trigger = channel.trigger /\ cleared.windowEnd = channel.windowEnd
        /\ cleared.completed = channel.completed
    BY DEF ClearedLoop, Channels
  <1> HIDE DEF cleared
  <1>3. Consumed(through) = [cleared EXCEPT !.status = status, !.completed = done,
                                            !.errors = 0]
    BY <1>2 DEF Consumed, cleared, Channels
  <1>4. status \in {"idle", "running", "catching_up", "error"}
    OBVIOUS
  <1> HIDE DEF status, done
  <1>5. Larger(channel.completed, through) = done
    BY DEF done
  <1> QED BY <1>1, <1>2, <1>3, <1>4, <1>5 DEF Channels

(* Whoever ends a run leaves nothing behind and goes idle. *)
LEMMA IdleUntroubled ==
  ASSUME worker' = Idle, channel'.run = 0
  PROVE  Untroubled'
  BY IdleTyped DEF Untroubled

LEMMA RunEnded ==
  ASSUME IInv, worker.pc # "idle", Documents', channel'.run = 0,
         channel'.generation = channel.generation, turn'.explicit = turn.explicit,
         \/ worker' = Idle /\ faults' = faults
         \/ worker' = OnError(TRUE) /\ Fault
  PROVE  IInv'
  <1>1. CASE worker' = OnError(TRUE) /\ Fault
    BY <1>1, AnswerLost
  <1>2. CASE worker' = Idle
    BY <1>2, IdleAttended, IdleUntroubled DEF IInv, Documents, Shaped
  <1> QED BY <1>1, <1>2

LEMMA EndedDocuments ==
  ASSUME IInv, Fence, NEW through \in 0..MaxSequence,
         NEW stage \in {"completed", "suppressed"}, Ended(stage, through),
         turn.explicit => turn.resume.action = "suppress",
         UNCHANGED jobs, Counted
  PROVE  /\ Documents' /\ channel'.run = 0 /\ channel'.generation = channel.generation
         /\ turn'.explicit = turn.explicit
  <1> DEFINE t == [turn EXCEPT !.stage = stage]
  <1>1. /\ channel \in Channels /\ turn \in Turns /\ Coherent(turn)
        /\ turn.eligible.through <= channel.latest
    BY DEF IInv, Documents, Shaped
  <1>2. /\ channel' \in Channels /\ channel'.run = 0 /\ channel'.lease = "none"
        /\ channel'.generation = channel.generation /\ channel'.latest = channel.latest
        /\ channel'.trigger = channel.trigger /\ channel'.windowEnd = channel.windowEnd
    BY <1>1, ConsumedTyped DEF Ended
  <1>3. /\ t \in Turns /\ t.eligible = turn.eligible /\ t.explicit = turn.explicit
        /\ t.plan = turn.plan /\ t.artifact = turn.artifact /\ t.resume = turn.resume
        /\ t.attempts = turn.attempts /\ t.stage = stage
    BY <1>1 DEF Turns
  <1>4. turn' = t /\ outbox' = [q \in Keys |-> Invalidated(outbox[q])] /\ UNCHANGED mentions
    BY DEF Ended
  <1> HIDE DEF t
  <1>5. Coherent(t)
    BY <1>1, <1>3, CoherentRecord
  <1>6. t.explicit => /\ t.resume.action = "suppress"
                      /\ t.artifact[t.resume.pass].status = "packet"
                      /\ t.stage # "failed"
    BY <1>1, <1>3 DEF Coherent, Made, NoResume
  <1>7. Documents'
    BY <1>1, <1>2, <1>3, <1>4, <1>5, <1>6, RunEnds DEF IInv
  <1> QED BY <1>2, <1>3, <1>4, <1>7

LEMMA SilentCompleted ==
  ASSUME IInv, completeSilent
  PROVE  IInv'
  <1> DEFINE accepts == Fence /\ \A q \in Keys : outbox[q].status # "pending"
             effect == Ended("completed", channel.windowEnd)
  <1>1. worker.pc = "silent" /\ channel.windowEnd \in 0..MaxSequence
    BY DEF completeSilent, IInv, Documents, Shaped, Channels
  <1>2. ~turn.explicit
    BY <1>1 DEF IInv, Attending, Follows
  <1>3. CASE /\ accepts /\ effect /\ UNCHANGED jobs
             /\ \/ worker' = Idle /\ faults' = faults
                \/ worker' = OnError(TRUE) /\ Fault
    <2>1. Counted
      BY <1>3 DEF Counted
    <2> QED BY <1>1, <1>2, <1>3, <2>1, EndedDocuments, RunEnded
  <1>4. CASE NotAnswered
    BY <1>1, <1>4, NotAnsweredStep
  <1> QED
    BY <1>3, <1>4, NotAnsweredCases DEF completeSilent, Call

LEMMA SuppressedCompleted ==
  ASSUME IInv, completeSuppressed
  PROVE  IInv'
  <1> DEFINE through == IF worker.pc = "suppress" THEN worker.newest.through
                        ELSE channel.windowEnd
             effect == Ended("suppressed", through)
  <1>1. worker.pc \in {"suppress", "abandon", "quiet"} /\ through \in 0..MaxSequence
    BY DEF completeSuppressed, IInv, Documents, Shaped, Channels, Attending, Workers, Contexts
  <1>2. turn.explicit => turn.resume.action = "suppress"
    <2>1. ASSUME turn.explicit PROVE worker.pc = "suppress"
      BY <1>1, <2>1 DEF IInv, Attending, Follows
    <2>2. worker.pc = "suppress" => turn.resume.action = "suppress"
      BY DEF IInv, Attending, Follows, Failing, Along, DraftFits
    <2> QED BY <2>1, <2>2
  <1> HIDE DEF through
  <1>3. CASE /\ Fence /\ effect /\ UNCHANGED jobs
             /\ \/ worker' = Idle /\ faults' = faults
                \/ worker' = OnError(TRUE) /\ Fault
    <2>1. Counted
      BY <1>3 DEF Counted
    <2> QED BY <1>1, <1>2, <1>3, <2>1, EndedDocuments, RunEnded
  <1>4. CASE NotAnswered
    BY <1>1, <1>4, NotAnsweredStep
  <1> QED
    BY <1>3, <1>4, NotAnsweredCases DEF completeSuppressed, Call, through

LEMMA ErrorCompleted ==
  ASSUME IInv, completeError
  PROVE  IInv'
  <1> DEFINE errors == discordNextLoopErrorCount(channel.errors, worker.retryable)
             cleared == ClearedLoop(channel)
             c == [cleared EXCEPT !.status = "error",
                                  !.errors = discordNextLoopErrorCount(@, worker.retryable)]
             t == [turn EXCEPT !.stage = "failed"]
             effect == /\ channel' = c
                       /\ turn' = t
                       /\ outbox' = [q \in Keys |-> Invalidated(outbox[q])]
                       /\ UNCHANGED mentions
  <1>1. worker.pc = "fail"
    BY DEF completeError
  <1>2. CASE /\ Fence /\ effect /\ UNCHANGED jobs
             /\ \/ worker' = Idle /\ faults' = faults
                \/ worker' = OnError(TRUE) /\ Fault
    <2>1. /\ channel \in Channels /\ turn \in Turns /\ Coherent(turn)
          /\ turn.eligible.through <= channel.latest /\ Counted
      BY <1>2 DEF IInv, Documents, Shaped, Counted
    <2>2. errors \in Nat
      BY <2>1, ErrorAssumption DEF discordNextLoopErrorCount, Smaller, Channels
    <2>3. /\ cleared \in Channels /\ cleared.run = 0 /\ cleared.lease = "none"
          /\ cleared.generation = channel.generation /\ cleared.latest = channel.latest
          /\ cleared.trigger = channel.trigger /\ cleared.windowEnd = channel.windowEnd
          /\ cleared.completed = channel.completed /\ cleared.errors = channel.errors
      BY <2>1 DEF ClearedLoop, Channels
    <2>4. c = [cleared EXCEPT !.status = "error", !.errors = errors]
      BY <2>3 DEF Channels
    <2> HIDE DEF cleared, errors
    <2>5. /\ c \in Channels /\ c.run = 0 /\ c.lease = "none"
          /\ c.generation = channel.generation /\ c.latest = channel.latest
          /\ c.trigger = channel.trigger /\ c.windowEnd = channel.windowEnd
          /\ c.completed = channel.completed
      <3> HIDE DEF c
      <3> QED BY <2>2, <2>3, <2>4 DEF Channels
    <2>6. /\ t \in Turns /\ t.eligible = turn.eligible /\ t.explicit = turn.explicit
          /\ t.plan = turn.plan /\ t.artifact = turn.artifact /\ t.resume = turn.resume
          /\ t.attempts = turn.attempts
      BY <2>1 DEF Turns
    <2>7. /\ channel' = c /\ turn' = t /\ UNCHANGED mentions
          /\ outbox' = [q \in Keys |-> Invalidated(outbox[q])]
      BY <1>2
    <2> HIDE DEF c, t
    <2>8. Coherent(t)
      BY <2>1, <2>6, CoherentRecord
    <2>9. Open'
      BY <1>2, <2>5, <2>7, FenceIsOpen DEF IInv, Open
    <2>10. t.explicit => faults' > 0
      <3>1. turn.explicit => faults # 0
        BY <1>1 DEF IInv, Untroubled
      <3> QED BY <2>1, <2>6, <3>1, CountedTyped DEF IInv, Documents, Shaped
    <2>11. Documents'
      BY <1>2, <2>1, <2>5, <2>6, <2>7, <2>8, <2>9, <2>10, RunEnds DEF IInv
    <2> QED BY <1>1, <1>2, <2>5, <2>6, <2>7, <2>11, RunEnded
  <1>3. CASE Fault /\ NotAnswered
    <2>1. PICK r \in BOOLEAN : worker' = OnError(r)
      BY <1>3 DEF NotAnswered
    <2> QED BY <1>1, <1>3, <2>1, Refused DEF NotAnswered
  <1>4. CASE ~Fence /\ worker' = OnError(FALSE) /\ UNCHANGED <<convex, jobs, faults>>
    <2>1. faults # 0
      BY <1>1, <1>4, UntroubledFence DEF IInv
    <2> QED BY <1>1, <1>4, <2>1, Refused
  <1> QED
    <2>1. \/ Fence /\ effect /\ worker' = Idle /\ UNCHANGED <<jobs, faults>>
          \/ Fence /\ effect /\ Fault /\ worker' = OnError(TRUE) /\ UNCHANGED jobs
          \/ ~Fence /\ worker' = OnError(FALSE) /\ UNCHANGED <<convex, jobs, faults>>
          \/ CallFails({OnError(retryable) : retryable \in BOOLEAN})
      BY DEF completeError, Call
    <2>2. CallFails({OnError(retryable) : retryable \in BOOLEAN}) => Fault /\ NotAnswered
      BY NotAnsweredCases DEF CallFails
    <2> QED BY <1>2, <1>3, <1>4, <2>1, <2>2

LEMMA Delivered ==
  ASSUME IInv, NEW q \in Keys, Deliver(q)
  PROVE  IInv'
  <1> DEFINE o == outbox[q]
             sent == [o EXCEPT !.status = "sent"]
             t == [turn EXCEPT !.stage = "completed"]
             through == Larger(channel.windowEnd, o.consumes)
  <1>1. /\ o.status = "pending" /\ channel.run # 0 /\ o.generation = channel.generation
        /\ channel.lease = "live" /\ UNCHANGED <<mentions, jobs, worker, faults>>
        /\ outbox' = [outbox EXCEPT ![q].status = "sent"]
    BY DEF Deliver
  <1>2. /\ channel \in Channels /\ turn \in Turns /\ Coherent(turn)
        /\ outbox \in [Keys -> Replies] /\ o \in Replies
        /\ turn.eligible.through <= channel.latest
        /\ channel.windowEnd >= 1 /\ Open
    BY <1>1 DEF IInv, Documents, Shaped, Fenced
  <1>3. /\ sent \in Replies /\ sent.status = "sent" /\ sent.text = o.text
        /\ outbox' = [outbox EXCEPT ![q] = sent]
    BY <1>1, <1>2 DEF Replies
  <1> HIDE DEF sent
  <1>4. /\ outbox' \in [Keys -> Replies] /\ outbox'[q] = sent
        /\ \A p \in Keys : p # q => outbox'[p] = outbox[p]
    BY <1>2, <1>3
  <1>6. CASE q \in FinalKeys
    <2>1. through \in 0..MaxSequence /\ through >= 1
      BY <1>2 DEF Channels, Replies, Larger
    <2>2. channel' = Consumed(through) /\ turn' = t
      BY <1>6 DEF Deliver
    <2> HIDE DEF through
    <2>3. /\ channel' \in Channels /\ channel'.run = 0 /\ channel'.lease = "none"
          /\ channel'.generation = channel.generation /\ channel'.latest = channel.latest
          /\ channel'.trigger = channel.trigger /\ channel'.windowEnd = channel.windowEnd
          /\ channel'.completed = Larger(channel.completed, through)
      BY <1>2, <2>1, <2>2, ConsumedTyped
    <2>4. ~Open'
      BY <2>1, <2>3, <1>2 DEF Open, Larger, Channels
    <2>5. /\ t \in Turns /\ t.eligible = turn.eligible /\ t.explicit = turn.explicit
          /\ t.plan = turn.plan /\ t.artifact = turn.artifact /\ t.resume = turn.resume
          /\ t.attempts = turn.attempts /\ t.stage = "completed"
      BY <1>2 DEF Turns
    <2> HIDE DEF t
    <2>6. Coherent(t)
      BY <1>2, <2>5, CoherentRecord
    <2>7. Shaped'
      BY <1>1, <1>4, <2>2, <2>3, <2>5 DEF IInv, Documents, Shaped
    <2>8. Fenced'
      <3>1. \A p \in Keys : outbox'[p].status = "pending" => outbox'[p] = outbox[p]
        BY <1>3, <1>4
      <3>2. 0 <= channel'.generation
        BY <2>3 DEF Channels
      <3> QED BY <2>3, <2>4, <3>1, <3>2 DEF Fenced, IInv, Documents
    <2>9. ReplyIsCommitted'
      <3>1. "reply" \in Keys /\ "failure-closure" \in Keys
        BY DEF Keys, FinalKeys
      <3>2. /\ outbox'["reply"].text = outbox["reply"].text
            /\ outbox'["reply"].status = "pending" => outbox["reply"].status = "pending"
            /\ outbox'["reply"].status = "sent" => outbox["reply"].status \in {"pending", "sent"}
        BY <1>1, <1>3, <1>4, <3>1
      <3>3. outbox'["failure-closure"].status \in {"pending", "sent"}
              => outbox["failure-closure"].status \in {"pending", "sent"}
        BY <1>1, <1>3, <1>4, <3>1
      <3>4. turn'.plan = turn.plan /\ turn'.resume = turn.resume
        BY <2>2, <2>5
      <3> QED BY <3>2, <3>3, <3>4 DEF IInv, Documents, ReplyIsCommitted
    <2>10. ExplicitTurnsAreAnswered'
      BY <1>3, <1>4, <1>6, <2>2, <2>5 DEF ExplicitTurnsAreAnswered
    <2>11. Documents'
      BY <2>2, <2>6, <2>7, <2>8, <2>9, <2>10 DEF Documents
    <2>12. Attending'
      <3>1. Follows(worker, t)
        BY <2>5, FollowsRecord DEF IInv, Attending
      <3> QED BY <1>1, <2>2, <2>3, <3>1 DEF IInv, Attending
    <2>13. Untroubled'
      <3>1. faults = 0 => worker.pc = "idle"
        BY <1>1, <1>6 DEF IInv, Untroubled
      <3> QED BY <1>1, <2>3, <3>1 DEF Untroubled
    <2> QED BY <2>11, <2>12, <2>13 DEF IInv
  <1>7. CASE q \notin FinalKeys
    <2>1. UNCHANGED <<channel, turn>>
      BY <1>7 DEF Deliver
    <2>2. \A p \in FinalKeys : outbox'[p] = outbox[p]
      BY <1>4, <1>7 DEF Keys
    <2>3. Shaped'
      BY <1>1, <1>4, <2>1 DEF IInv, Documents, Shaped
    <2>4. Fenced'
      <3>1. \A p \in Keys : outbox'[p].status = "pending" => outbox'[p] = outbox[p]
        BY <1>3, <1>4
      <3> QED BY <2>1, <2>2, <3>1 DEF Fenced, IInv, Documents, Open
    <2>5. ReplyIsCommitted' /\ ExplicitTurnsAreAnswered'
      BY <1>1, <2>1, <2>2
      DEF IInv, Documents, ReplyIsCommitted, ExplicitTurnsAreAnswered, FinalKeys, Open
    <2>6. Documents'
      BY <2>1, <2>3, <2>4, <2>5 DEF IInv, Documents
    <2>7. Attending' /\ Untroubled'
      BY <1>1, <2>1, <2>2 DEF IInv, Attending, Untroubled
    <2> QED BY <2>6, <2>7 DEF IInv
  <1> QED BY <1>6, <1>7

-----------------------------------------------------------------------------
(* Messages and claims. *)

LEMMA Ingested ==
  ASSUME IInv, NEW mention \in BOOLEAN, IngestHuman(mention)
  PROVE  IInv'
  <1> DEFINE n == channel.latest + 1
             running == channel.lease = "live"
             status == IF running THEN channel.status ELSE "idle"
             errors == IF running THEN channel.errors ELSE 0
  <1>1. /\ channel \in Channels /\ mentions \subseteq 1..channel.latest
        /\ channel.trigger <= channel.latest /\ channel.windowEnd <= channel.latest
        /\ n <= MaxSequence /\ UNCHANGED <<turn, outbox, jobs, worker, faults>>
        /\ mentions' \in {mentions, mentions \cup {n}}
    BY DEF IInv, Documents, Shaped, IngestHuman
  <1>2. channel' = [channel EXCEPT !.latest = n, !.trigger = n,
                                   !.status = status, !.errors = errors]
    BY <1>1 DEF IngestHuman, Channels
  <1>3. n \in 1..MaxSequence /\ channel.latest < n
    BY <1>1, TurnBoundsAssumption DEF Channels
  <1>4. status \in {"idle", "running", "catching_up", "error"} /\ errors \in Nat
    BY <1>1 DEF Channels
  <1>5. mentions' \subseteq 1..n
    <2>1. \A m \in mentions : m \in 1..n
      BY <1>1, <1>3, TurnBoundsAssumption DEF Channels
    <2> QED BY <1>1, <1>3, <2>1
  <1> HIDE DEF n, status, errors
  <1>6. /\ channel' \in Channels /\ channel'.latest = n /\ channel'.trigger = n
        /\ channel'.run = channel.run /\ channel'.lease = channel.lease
        /\ channel'.generation = channel.generation
        /\ channel'.completed = channel.completed
        /\ channel'.windowEnd = channel.windowEnd
    BY <1>1, <1>2, <1>3, <1>4 DEF Channels
  <1>7. Shaped'
    <2>1. turn.eligible.through <= n /\ channel'.windowEnd <= n
      BY <1>1, <1>3, <1>6, TurnBoundsAssumption
      DEF IInv, Documents, Shaped, Channels, Turns, Contexts
    <2> QED BY <1>1, <1>3, <1>5, <1>6, <2>1, TurnBoundsAssumption DEF IInv, Documents, Shaped
  <1>8. Documents'
    BY <1>1, <1>6, <1>7
    DEF IInv, Documents, Fenced, Open, ReplyIsCommitted, ExplicitTurnsAreAnswered
  <1>9. Attending'
    <2>1. worker.newest.through <= n
      BY <1>1, <1>3, TurnBoundsAssumption DEF IInv, Attending, Channels, Workers, Contexts
    <2> QED BY <1>1, <1>6, <2>1 DEF IInv, Attending
  <1>10. Untroubled'
    BY <1>1, <1>6 DEF IInv, Untroubled
  <1> QED BY <1>8, <1>9, <1>10 DEF IInv

LEMMA LoopRecovered ==
  ASSUME IInv, RecoverLoop
  PROVE  IInv'
  <1>1. /\ worker.pc = "idle" /\ Open /\ channel.lease # "live" /\ channel.run # 0
        /\ UNCHANGED <<mentions, turn, jobs, faults>> /\ worker' = Started(turn)
        /\ outbox' = [q \in Keys |-> Refenced(outbox[q])]
    BY DEF RecoverLoop, Claimable, Recoverable
  <1>2. /\ channel \in Channels /\ turn \in Turns /\ Coherent(turn)
        /\ outbox \in [Keys -> Replies] /\ channel.run <= channel.generation
        /\ channel.windowEnd >= 1
    BY <1>1 DEF IInv, Documents, Shaped, Fenced
  <1>3. /\ channel' \in Channels /\ channel'.generation = channel.generation + 1
        /\ channel'.run = channel.run /\ channel'.lease = "live"
        /\ channel'.latest = channel.latest /\ channel'.trigger = channel.trigger
        /\ channel'.completed = channel.completed
        /\ channel'.windowEnd = channel.windowEnd
    <2>1. channel' = [channel EXCEPT !.generation = channel.generation + 1,
                                     !.status = "running", !.lease = "live"]
      BY <1>2 DEF RecoverLoop, Channels
    <2>2. channel.generation + 1 \in Nat
      BY <1>2 DEF Channels
    <2> QED BY <1>2, <2>1, <2>2 DEF Channels
  <1>4. \A q \in Keys : /\ outbox'[q] \in Replies
                        /\ outbox'[q].status = outbox[q].status
                        /\ outbox'[q].text = outbox[q].text
                        /\ outbox[q].status = "pending"
                             => outbox'[q].generation = channel'.generation
    BY <1>1, <1>2, <1>3 DEF Refenced, Replies, Channels
  <1>5. Shaped'
    <2>1. outbox' \in [Keys -> Replies]
      BY <1>1, <1>4
    <2> QED BY <1>1, <1>3, <2>1 DEF IInv, Documents, Shaped
  <1>6. Fenced'
    <2>1. channel'.run <= channel'.generation
      BY <1>2, <1>3 DEF Channels
    <2> QED BY <1>1, <1>2, <1>3, <1>4, <2>1 DEF IInv, Documents, Fenced, Open, Keys
  <1>7. ReplyIsCommitted' /\ ExplicitTurnsAreAnswered'
    <2>1. \A q \in FinalKeys : q \in Keys
      BY DEF Keys
    <2> QED BY <1>1, <1>3, <1>4, <2>1
        DEF IInv, Documents, ReplyIsCommitted, ExplicitTurnsAreAnswered, FinalKeys, Open
  <1>8. Attending'
    <2>1. /\ worker' \in Workers /\ Follows(worker', turn)
          /\ worker'.generation = channel'.generation /\ worker'.newest = NoContext
      BY <1>1, <1>2, <1>3, StartedFollows DEF Channels
    <2>2. worker'.newest.through <= channel'.latest
      BY <1>3, <2>1, TurnBoundsAssumption DEF Channels, NoContext
    <2> QED BY <1>1, <2>1, <2>2 DEF Attending
  <1>9. Untroubled'
    <2>1. faults # 0
      BY <1>1 DEF IInv, Untroubled
    <2> QED BY <1>1, <2>1 DEF Untroubled
  <1> QED BY <1>1, <1>2, <1>5, <1>6, <1>7, <1>8, <1>9 DEF IInv, Documents

LEMMA LoopStarted ==
  ASSUME IInv, StartLoop
  PROVE  IInv'
  <1> DEFINE window == messageWindow(channel)
             explicit == \E m \in mentions : m >= window.start /\ m <= window.end
             t == NewTurn(explicit)
  <1>1. /\ worker.pc = "idle" /\ Open /\ channel.lease # "live"
        /\ UNCHANGED <<mentions, faults>> /\ worker' = Started(t) /\ turn' = t
        /\ outbox' = [q \in Keys |-> IF q = "ack" THEN Invalidated(outbox[q]) ELSE NoReply]
        /\ jobs' = [s \in Stages |-> NoJob]
    BY DEF StartLoop, Claimable
  <1>2. channel \in Channels /\ outbox \in [Keys -> Replies]
        /\ channel.trigger <= channel.latest
    BY DEF IInv, Documents, Shaped
  <1>3. window.end \in 1..MaxSequence /\ window.end <= channel.latest
    BY <1>1, <1>2, WindowAssumption, TurnBoundsAssumption
    DEF messageWindow, Smaller, Channels, Open
  <1>4. /\ channel' \in Channels /\ channel'.generation = channel.generation + 1
        /\ channel'.run = channel.generation + 1 /\ channel'.lease = "live"
        /\ channel'.latest = channel.latest /\ channel'.trigger = channel.trigger
        /\ channel'.completed = channel.completed
        /\ channel'.windowEnd = window.end /\ channel'.run \in Nat \ {0}
    <2>1. channel' = [channel EXCEPT !.generation = @ + 1, !.status = "running",
                                     !.run = channel.generation + 1,
                                     !.lease = "live", !.windowEnd = window.end]
      BY DEF StartLoop
    <2>2. channel.generation + 1 \in Nat \ {0} /\ window.end \in 0..MaxSequence
      BY <1>2, <1>3 DEF Channels
    <2> HIDE DEF window
    <2> QED BY <1>2, <2>1, <2>2 DEF Channels
  <1>5. explicit \in BOOLEAN
    OBVIOUS
  <1> HIDE DEF window, explicit
  <1>6. /\ t \in Turns /\ t.explicit = explicit /\ t.plan = "none" /\ t.stage = "open"
        /\ t.resume = NoResume /\ t.attempts = 0 /\ t.eligible = NoContext
        /\ \A p \in Passes : t.artifact[p].status = "none"
    <2>1. [p \in Passes |-> NoArtifact] \in [Passes -> Artifacts]
      BY NothingTyped
    <2> QED BY <1>5, <2>1, NothingTyped DEF NewTurn, Turns, Plans, NoArtifact
  <1> HIDE DEF t
  <1>7. Coherent(t)
    BY <1>6 DEF Coherent, NoResume
  <1>8. \A q \in Keys : outbox'[q] \in Replies /\ outbox'[q].status # "pending"
    BY <1>1, <1>2, InvalidatedTyped, NothingTyped DEF NoReply
  <1>9. \A q \in FinalKeys : q \in Keys /\ outbox'[q].status = "absent"
    BY <1>1 DEF Keys, FinalKeys, NoReply
  <1>10. Shaped'
    <2>1. outbox' \in [Keys -> Replies] /\ jobs' \in [Stages -> Jobs]
      BY <1>1, <1>8, NothingTyped
    <2>2. turn'.eligible.through <= channel'.latest
      BY <1>1, <1>2, <1>4, <1>6, TurnBoundsAssumption DEF NoContext, Channels
    <2> QED BY <1>1, <1>3, <1>4, <1>6, <2>1, <2>2 DEF IInv, Documents, Shaped
  <1>11. Fenced'
    <2>1. channel'.run <= channel'.generation /\ channel'.windowEnd >= 1
      BY <1>3, <1>4
    <2> QED BY <1>1, <1>4, <1>8, <1>9, <2>1 DEF Fenced, Open
  <1>12. ReplyIsCommitted'
    BY <1>9 DEF ReplyIsCommitted, FinalKeys
  <1>13. ExplicitTurnsAreAnswered'
    BY <1>1, <1>4, <1>6 DEF ExplicitTurnsAreAnswered, Open
  <1>14. /\ worker' \in Workers /\ Follows(worker', t)
         /\ worker'.generation = channel'.generation /\ worker'.newest = NoContext
         /\ worker'.pc \notin {"idle", "fail"}
    BY <1>1, <1>2, <1>4, <1>6, <1>7, StartedFollows DEF Channels
  <1>15. Attending'
    <2>1. worker'.newest.through <= channel'.latest
      BY <1>4, <1>14, TurnBoundsAssumption DEF Channels, NoContext
    <2> QED BY <1>1, <1>14, <2>1 DEF Attending
  <1>16. Untroubled'
    BY <1>4, <1>9, <1>14 DEF Untroubled
  <1> QED BY <1>1, <1>7, <1>10, <1>11, <1>12, <1>13, <1>15, <1>16 DEF IInv, Documents

-----------------------------------------------------------------------------
(* Jobs of Pi and faults of the gateway. *)

LEMMA RunningTyped ==
  ASSUME worker \in Workers
  PROVE  /\ Running \in Jobs
         /\ worker.stage \in Stages
  BY DEF Running, Jobs, Workers

(* A step that leaves the documents alone. *)
LEMMA WorkerMoves ==
  ASSUME IInv, UNCHANGED convex, jobs' \in [Stages -> Jobs], Attending',
         worker'.pc \notin {"idle", "fail"}, worker.pc # "idle", Counted
  PROVE  IInv'
  <1>1. Documents'
    BY DocumentsKept DEF IInv
  <1>2. Untroubled'
    <2>1. CASE Fault
      BY <2>1, CountedTyped DEF Untroubled, IInv, Documents, Shaped
    <2>2. CASE faults' = faults
      BY <2>2, UntroubledOn DEF convex
    <2> QED BY <2>1, <2>2 DEF Counted
  <1> QED BY <1>1, <1>2 DEF IInv

LEMMA JobSubmitted ==
  ASSUME IInv, submitJob
  PROVE  IInv'
  <1> DEFINE s == worker.stage
             started == [jobs EXCEPT ![s] = Running]
             w == [worker EXCEPT !.pc = "wait"]
  <1>1. worker.pc = "submit" /\ UNCHANGED convex
    BY DEF submitJob
  <1>2. /\ worker \in Workers /\ jobs \in [Stages -> Jobs] /\ started \in [Stages -> Jobs]
    BY RunningTyped DEF IInv, Attending, Documents, Shaped
  <1>3. CASE jobs' = started /\ worker' = w /\ UNCHANGED faults
    <2>1. /\ w \in Workers /\ w.pc = "wait" /\ w.stage = worker.stage
          /\ w.generation = worker.generation /\ w.explicit = worker.explicit
          /\ w.plan = worker.plan /\ w.pass = worker.pass
          /\ w.research = worker.research /\ w.newest = worker.newest
          /\ w.recovered = worker.recovered
      BY <1>2 DEF Workers
    <2> HIDE DEF w
    <2>2. Along(worker, turn) /\ worker.explicit = turn.explicit
      BY <1>1 DEF IInv, Attending, Follows, Failing
    <2>3. Along(w, turn)
      BY <1>1, <2>1, <2>2
      DEF Along, PlanFits, RecoveryFits, ResearchFits, DraftFits, AtJob,
          BeforeDraft, BeforeResearch, Drafting
    <2>4. Attending'
      BY <1>1, <1>3, <2>1, <2>2, <2>3 DEF IInv, Attending, Follows, convex
    <2> QED BY <1>1, <1>2, <1>3, <2>1, <2>4, WorkerMoves DEF Counted
  <1>4. ASSUME NEW r \in BOOLEAN, worker' = PiFailed(r), jobs' \in {jobs, started}, Counted
        PROVE  IInv'
    <2>1. Attending' /\ worker'.pc \notin {"idle", "fail"}
      BY <1>1, <1>4, PiFailedAttended DEF IInv, Documents
    <2> QED BY <1>1, <1>2, <1>4, <2>1, WorkerMoves
  <1> QED
    <2>1. CASE worker' = PiFailed(FALSE) /\ UNCHANGED <<jobs, faults>>
      BY <1>4, <2>1 DEF Counted
    <2>2. CASE Fault /\ jobs' \in {jobs, started} /\ worker' = PiFailed(TRUE)
      BY <1>4, <2>2 DEF Counted
    <2> QED BY <1>3, <2>1, <2>2 DEF submitJob

LEMMA ResumeResultMade ==
  ASSUME worker \in Workers, worker.research \in Results, NEW r \in ResumeResults
  PROVE  r \in Resumes /\ r.pass = worker.pass /\ Made(r, worker.explicit, worker.research)
  <1> DEFINE draft(action) == [pass |-> worker.pass, action |-> action,
                               text |-> [source |-> "resume",
                                         through |-> worker.newest.through]]
             actions == IF worker.pass = 2 THEN {"send", "suppress"}
                        ELSE {"send", "suppress", "recheck"}
             unverified == [source |-> "unverified", through |-> 0]
             bare == [draft("send") EXCEPT !.text = unverified]
  <1>1. /\ worker.pass \in Passes /\ worker.newest.through \in 0..MaxSequence
        /\ worker.explicit \in BOOLEAN
    BY DEF Workers, Contexts
  <1>2. PICK action \in actions :
          r = IF action = "suppress" /\ worker.explicit /\ worker.research = "failed"
              THEN bare ELSE draft(action)
    BY DEF ResumeResults
  <1>3. \A a \in {"send", "suppress", "recheck"} :
          draft(a) \in Resumes /\ draft(a).pass = worker.pass /\ draft(a).action = a
    BY <1>1 DEF Resumes, Texts, Sources, Passes
  <1>4. bare \in Resumes /\ bare.pass = worker.pass /\ bare.action = "send"
    <2>1. unverified \in Texts
      BY TurnBoundsAssumption DEF Texts, Sources
    <2> HIDE DEF unverified
    <2> QED BY <1>1, <2>1 DEF Resumes, Passes
  <1>5. action \in {"send", "suppress", "recheck"} /\ (action = "recheck" => worker.pass = 1)
    BY <1>1, <1>2 DEF Passes
  <1> HIDE DEF draft, bare, actions
  <1> QED BY <1>1, <1>2, <1>3, <1>4, <1>5 DEF Made, Results

(* What the result of a job tells the worker to record. *)
LEMMA JobResultAttended ==
  ASSUME IInv, worker.pc = "wait", JobResult, UNCHANGED convex
  PROVE  Attending' /\ worker'.pc \notin {"idle", "fail"}
  <1>1. /\ worker \in Workers /\ Along(worker, turn) /\ worker.explicit = turn.explicit
        /\ (worker.explicit => worker.plan # "silent")
    BY DEF IInv, Attending, Follows, Failing
  <1>2. CASE worker.stage[1] = "plan"
             /\ \E plan \in PlanResults :
                   worker' = [worker EXCEPT !.pc = "recordPlan", !.plan = plan]
    <2>1. PICK plan \in PlanResults :
            worker' = [worker EXCEPT !.pc = "recordPlan", !.plan = plan]
      BY <1>2
    <2>2. plan \in {"silent", "reply", "research"} /\ (worker.explicit => plan # "silent")
      BY DEF PlanResults
    <2>3. /\ worker' \in Workers /\ worker'.pc = "recordPlan" /\ worker'.plan = plan
          /\ worker'.generation = worker.generation /\ worker'.explicit = worker.explicit
          /\ worker'.pass = worker.pass /\ worker'.newest = worker.newest
          /\ worker'.recovered = worker.recovered
      BY <1>1, <2>1, <2>2 DEF Workers, Plans
    <2>4. Along(worker', turn)
      BY <1>1, <1>2, <2>2, <2>3
      DEF Along, PlanFits, RecoveryFits, ResearchFits, DraftFits, AtJob,
          BeforeDraft, BeforeResearch, Drafting
    <2> QED BY <1>1, <2>2, <2>3, <2>4 DEF IInv, Attending, Follows, convex
  <1>3. CASE worker.stage[1] = "sol"
             /\ worker' = [worker EXCEPT !.pc = "recordResearch", !.research = "packet"]
    <2>1. /\ worker' \in Workers /\ worker'.pc = "recordResearch"
          /\ worker'.research = "packet" /\ worker'.plan = worker.plan
          /\ worker'.generation = worker.generation /\ worker'.explicit = worker.explicit
          /\ worker'.pass = worker.pass /\ worker'.newest = worker.newest
          /\ worker'.recovered = worker.recovered
      BY <1>1, <1>3 DEF Workers, Researches
    <2>2. Along(worker', turn)
      BY <1>1, <1>3, <2>1
      DEF Along, PlanFits, RecoveryFits, ResearchFits, DraftFits, AtJob,
          BeforeDraft, BeforeResearch, Drafting, Results
    <2> QED BY <1>1, <2>1, <2>2 DEF IInv, Attending, Follows, convex
  <1>4. CASE worker.stage[1] = "resume"
             /\ \E resume \in ResumeResults :
                   worker' = [worker EXCEPT !.pc = "recordResume", !.resume = resume]
    <2>1. PICK resume \in ResumeResults :
            worker' = [worker EXCEPT !.pc = "recordResume", !.resume = resume]
      BY <1>4
    <2>2. worker.research \in Results /\ worker.plan = "research"
      BY <1>1, <1>4 DEF Along, ResearchFits, PlanFits, Drafting, AtJob
    <2>3. resume \in Resumes /\ resume.pass = worker.pass
          /\ Made(resume, worker.explicit, worker.research)
      BY <1>1, <2>2, ResumeResultMade
    <2>4. /\ worker' \in Workers /\ worker'.pc = "recordResume" /\ worker'.resume = resume
          /\ worker'.generation = worker.generation /\ worker'.explicit = worker.explicit
          /\ worker'.pass = worker.pass /\ worker'.newest = worker.newest
          /\ worker'.recovered = worker.recovered /\ worker'.plan = worker.plan
          /\ worker'.research = worker.research
      BY <1>1, <2>1, <2>3 DEF Workers
    <2>5. Along(worker', turn)
      BY <1>1, <1>4, <2>2, <2>3, <2>4
      DEF Along, PlanFits, RecoveryFits, ResearchFits, DraftFits, AtJob,
          BeforeDraft, BeforeResearch, Drafting
    <2> QED BY <1>1, <2>4, <2>5 DEF IInv, Attending, Follows, convex
  <1> QED BY <1>2, <1>3, <1>4 DEF JobResult

LEMMA JobPolled ==
  ASSUME IInv, pollJob
  PROVE  IInv'
  <1> DEFINE s == worker.stage
             job == jobs[s]
             ended == [jobs EXCEPT ![s].status = "ended"]
             again == [jobs EXCEPT ![s] = Running]
  <1>1. worker.pc = "wait" /\ UNCHANGED convex
    BY DEF pollJob
  <1>2. /\ worker \in Workers /\ jobs \in [Stages -> Jobs] /\ s \in Stages
        /\ again \in [Stages -> Jobs]
    BY RunningTyped DEF IInv, Attending, Documents, Shaped
  <1>3. ended \in [Stages -> Jobs]
    <2>1. [jobs[s] EXCEPT !.status = "ended"] \in Jobs
      BY <1>2 DEF Jobs
    <2> QED BY <1>2, <2>1
  <1>4. ASSUME NEW r \in BOOLEAN, worker' = PiFailed(r), jobs' \in {jobs, ended}, Counted
        PROVE  IInv'
    <2>1. Attending' /\ worker'.pc \notin {"idle", "fail"}
      BY <1>1, <1>4, PiFailedAttended DEF IInv, Documents
    <2> QED BY <1>1, <1>2, <1>3, <1>4, <2>1, WorkerMoves
  <1>5. CASE jobs' = ended /\ JobResult /\ UNCHANGED faults
    BY <1>1, <1>3, <1>5, JobResultAttended, WorkerMoves DEF Counted
  <1>6. CASE /\ jobs' = again /\ UNCHANGED faults
             /\ worker' = [worker EXCEPT !.resubmitted = TRUE]
    <2>1. /\ worker' \in Workers /\ worker'.pc = "wait" /\ worker'.stage = worker.stage
          /\ worker'.generation = worker.generation /\ worker'.explicit = worker.explicit
          /\ worker'.plan = worker.plan /\ worker'.pass = worker.pass
          /\ worker'.research = worker.research /\ worker'.newest = worker.newest
          /\ worker'.recovered = worker.recovered
      BY <1>1, <1>2, <1>6 DEF Workers
    <2>2. Along(worker, turn) /\ worker.explicit = turn.explicit
      BY <1>1 DEF IInv, Attending, Follows, Failing
    <2>3. Along(worker', turn)
      BY <1>1, <2>1, <2>2
      DEF Along, PlanFits, RecoveryFits, ResearchFits, DraftFits, AtJob,
          BeforeDraft, BeforeResearch, Drafting
    <2>4. Attending'
      BY <1>1, <2>1, <2>2, <2>3 DEF IInv, Attending, Follows, convex
    <2> QED BY <1>1, <1>2, <1>6, <2>1, <2>4, WorkerMoves DEF Counted
  <1> QED BY <1>4, <1>5, <1>6 DEF pollJob, Counted

LEMMA FaultsKeep ==
  ASSUME IInv, AbortJob \/ PiRestarts \/ GatewayCrashes \/ LeaseExpires
  PROVE  IInv'
  <1>1. CASE AbortJob
    <2>1. /\ worker.pc = "wait" /\ worker' = OnError(TRUE)
          /\ UNCHANGED <<convex, jobs>> /\ faults' = faults
      BY <1>1 DEF AbortJob
    <2> QED BY <2>1, Refused
  <1>2. CASE PiRestarts
    <2>1. /\ worker.pc = "wait" /\ Fault /\ UNCHANGED <<convex, worker>>
          /\ jobs' = [s \in Stages |-> NoJob]
      BY <1>2 DEF PiRestarts
    <2>2. jobs' \in [Stages -> Jobs]
      BY <2>1, NothingTyped
    <2>3. Attending'
      BY <2>1 DEF IInv, Attending, convex
    <2> QED BY <2>1, <2>2, <2>3, WorkerMoves DEF Counted
  <1>3. CASE GatewayCrashes
    <2>1. Fault /\ worker' = Idle /\ UNCHANGED <<convex, jobs>> /\ Counted
      BY <1>3 DEF GatewayCrashes, Counted
    <2>2. Documents'
      BY <2>1, DocumentsKept DEF IInv, Documents, Shaped
    <2>3. Attending'
      BY <2>1, <2>2, IdleAttended DEF Documents, Shaped
    <2>4. Untroubled'
      BY <2>1, CountedTyped DEF Untroubled, IInv, Documents, Shaped
    <2> QED BY <2>2, <2>3, <2>4 DEF IInv
  <1>4. CASE LeaseExpires
    <2>1. /\ channel.lease = "live" /\ Counted
          /\ channel' = [channel EXCEPT !.lease = "expired"]
          /\ UNCHANGED <<mentions, turn, outbox, jobs, worker>>
      BY <1>4 DEF LeaseExpires, Counted
    <2>2. /\ channel' \in Channels /\ channel'.lease = "expired"
          /\ channel'.run = channel.run /\ channel'.generation = channel.generation
          /\ channel'.latest = channel.latest /\ channel'.trigger = channel.trigger
          /\ channel'.completed = channel.completed
          /\ channel'.windowEnd = channel.windowEnd
      BY <2>1 DEF IInv, Documents, Shaped, Channels
    <2>3. Shaped'
      BY <2>1, <2>2, CountedTyped DEF IInv, Documents, Shaped
    <2>4. Fenced' /\ ReplyIsCommitted'
      BY <2>1, <2>2 DEF IInv, Documents, Fenced, Open, ReplyIsCommitted
    <2>5. ExplicitTurnsAreAnswered'
      <3>1. faults > 0 => faults' > 0
        BY <2>1, CountedTyped DEF IInv, Documents, Shaped
      <3> QED BY <2>1, <2>2, <3>1 DEF IInv, Documents, ExplicitTurnsAreAnswered, Open
    <2>6. Documents'
      BY <2>1, <2>3, <2>4, <2>5 DEF IInv, Documents
    <2>7. Attending'
      BY <2>1, <2>2 DEF IInv, Attending
    <2>8. faults' # 0
      <3>1. CASE faults = 0
        <4>1. channel.run # 0
          BY <2>1 DEF IInv, Documents, Shaped
        <4>2. Attended
          <5>1. CASE worker.pc # "idle"
            BY <5>1 DEF IInv, Attending, Attended
          <5>2. CASE worker.pc = "idle"
            BY <3>1, <4>1, <5>2 DEF IInv, Untroubled, Attended, Documents, Fenced, Keys
          <5> QED BY <5>1, <5>2
        <4>3. Fault
          BY <1>4, <4>2 DEF LeaseExpires
        <4> QED BY <4>3, <2>1, CountedTyped DEF IInv, Documents, Shaped
      <3>2. CASE faults # 0
        BY <2>1, <3>2, CountedTyped DEF IInv, Documents, Shaped
      <3> QED BY <3>1, <3>2
    <2> QED BY <2>6, <2>7, <2>8 DEF IInv, Untroubled
  <1> QED BY <1>1, <1>2, <1>3, <1>4

-----------------------------------------------------------------------------
(* The theorems. *)

LEMMA Initially == Init => IInv
  <1> SUFFICES ASSUME Init PROVE IInv
    OBVIOUS
  <1> DEFINE new == NewTurn(FALSE)
  <1>1. /\ channel = [generation |-> 0, status |-> "idle", run |-> 0, lease |-> "none",
                       latest |-> 1, trigger |-> 1, completed |-> 0, errors |-> 0,
                       windowEnd |-> 0]
        /\ turn = [new EXCEPT !.stage = "none"]
        /\ mentions \subseteq {1} /\ faults = 0 /\ worker = Idle
        /\ outbox = [q \in Keys |-> NoReply] /\ jobs = [s \in Stages |-> NoJob]
    BY DEF Init
  <1>2. /\ new \in Turns /\ new.resume = NoResume /\ new.attempts = 0 /\ ~new.explicit
        /\ new.plan = "none" /\ new.eligible = NoContext
    <2>1. [p \in Passes |-> NoArtifact] \in [Passes -> Artifacts]
      BY NothingTyped
    <2> QED BY <2>1, NothingTyped DEF NewTurn, Turns, Plans
  <1> HIDE DEF new
  <1>3. /\ turn \in Turns /\ turn.resume = NoResume /\ turn.attempts = 0 /\ ~turn.explicit
        /\ turn.plan = "none" /\ turn.eligible = NoContext
    BY <1>1, <1>2 DEF Turns
  <1>4. channel \in Channels
    BY <1>1, TurnBoundsAssumption DEF Channels
  <1>5. outbox \in [Keys -> Replies] /\ jobs \in [Stages -> Jobs]
    BY <1>1, NothingTyped
  <1>6. Shaped
    BY <1>1, <1>3, <1>4, <1>5, TurnBoundsAssumption DEF Shaped, NoContext
  <1>7. \A q \in Keys : outbox[q].status = "absent"
    BY <1>1 DEF NoReply
  <1>8. Documents
    BY <1>1, <1>3, <1>6, <1>7
    DEF Documents, Coherent, NoResume, Fenced, Open, ReplyIsCommitted,
        ExplicitTurnsAreAnswered, Keys, FinalKeys
  <1>9. Attending
    BY <1>1, IdleTyped, TurnBoundsAssumption
    DEF Attending, Follows, Failing, Idle, NoContext
  <1>10. Untroubled
    BY <1>1, IdleTyped DEF Untroubled
  <1> QED BY <1>8, <1>9, <1>10 DEF IInv

LEMMA Inductive == IInv /\ [Next]_turnVars => IInv'
  <1> SUFFICES ASSUME IInv, [Next]_turnVars PROVE IInv'
    OBVIOUS
  <1>1. CASE UNCHANGED turnVars
    BY <1>1
    DEF turnVars, IInv, Documents, Shaped, Fenced, ReplyIsCommitted,
        ExplicitTurnsAreAnswered, Open, Attending, Untroubled
  <1>2. CASE \E mention \in BOOLEAN : IngestHuman(mention)
    BY <1>2, Ingested
  <1>3. CASE claimLoop
    BY <1>3, LoopRecovered, LoopStarted DEF claimLoop
  <1>4. CASE recordFrontmanPlan \/ enqueueAcknowledgement \/ recordResearchStarted
             \/ recordResearchResult \/ newestContext \/ recordFrontmanResume
    BY <1>4, PlanRecorded, AcknowledgementEnqueued, ResearchStarted, ResearchRecorded,
       NewestContextRead, ResumeRecorded
  <1>5. CASE enqueueReply \/ enqueueApology \/ enqueueClosure
    BY <1>5, FinalsQueued
  <1>6. CASE completeSilent \/ completeSuppressed \/ completeError
    BY <1>6, SilentCompleted, SuppressedCompleted, ErrorCompleted
  <1>7. CASE submitJob \/ pollJob
    BY <1>7, JobSubmitted, JobPolled
  <1>8. CASE \E q \in Keys : Deliver(q)
    BY <1>8, Delivered
  <1>9. CASE heartbeat
    BY <1>9, HeartbeatKeeps
  <1>10. CASE AbortJob \/ PiRestarts \/ GatewayCrashes \/ LeaseExpires
    BY <1>10, FaultsKeep
  <1> QED
    BY <1>1, <1>2, <1>3, <1>4, <1>5, <1>6, <1>7, <1>8, <1>9, <1>10
    DEF Next, GatewayStep, WorkerStep

LEMMA Invariant == Spec => []IInv
  <1>1. Init => IInv
    BY Initially
  <1>2. IInv /\ [Next]_turnVars => IInv'
    BY Inductive
  <1> QED BY <1>1, <1>2, PTL DEF Spec

(* Documents, jobs and the worker keep their shapes, and no window or context
   reaches past the messages of the channel (discordChannelStates). *)
THEOREM TypeCorrect == Spec => []TypeOK
  <1>1. IInv => TypeOK
    BY DEF IInv, Documents, Shaped, Attending, TypeOK
  <1> QED BY <1>1, Invariant, PTL

(* A reply that is queued or visible says what its turn recorded, and no closure
   speaks beside it, across crashes, recoveries and lost answers (enqueueReply,
   recordFrontmanResume). *)
THEOREM ReplyIsCommittedHolds == Spec => []ReplyIsCommitted
  <1>1. IInv => ReplyIsCommitted
    BY DEF IInv, Documents
  <1> QED BY <1>1, Invariant, PTL

(* The turn of an explicit trigger that is over has been answered, or suppressed
   by a draft that had its research; none fails without a fault (runDurable). *)
THEOREM ExplicitTurnsAreAnsweredHolds == Spec => []ExplicitTurnsAreAnswered
  <1>1. IInv => ExplicitTurnsAreAnswered
    BY DEF IInv, Documents
  <1> QED BY <1>1, Invariant, PTL

-----------------------------------------------------------------------------
(* Completed research. *)

Kept(p) ==
    turn.artifact[p].status \in Results /\ channel'.run = channel.run =>
        /\ turn'.artifact[p] = turn.artifact[p]
        /\ jobs'[<<"sol", p>>].status = "running" => jobs[<<"sol", p>>].status = "running"

LEMMA KeptByOthers ==
  ASSUME turn'.artifact = turn.artifact, jobs' = jobs
  PROVE  \A p \in Passes : Kept(p)
  BY DEF Kept

LEMMA KeptByCalls ==
  ASSUME turn \in Turns,
         \/ recordFrontmanPlan \/ enqueueAcknowledgement \/ newestContext
         \/ recordFrontmanResume \/ enqueueReply \/ enqueueApology \/ enqueueClosure
         \/ completeSilent \/ completeSuppressed \/ completeError
         \/ heartbeat \/ AbortJob \/ GatewayCrashes \/ LeaseExpires \/ RecoverLoop
  PROVE  turn'.artifact = turn.artifact /\ jobs' = jobs
  <1> USE DEF Turns, CallFails, convex, OnlyTurn, OnlyReply
  <1>1. CASE recordFrontmanPlan
    BY <1>1 DEF recordFrontmanPlan, Call
  <1>2. CASE enqueueAcknowledgement
    BY <1>2 DEF enqueueAcknowledgement, Call
  <1>3. CASE newestContext
    BY <1>3 DEF newestContext
  <1>4. CASE recordFrontmanResume
    BY <1>4 DEF recordFrontmanResume, Call
  <1>5. CASE enqueueReply
    BY <1>5 DEF enqueueReply, EnqueueFinal, Call
  <1>6. CASE enqueueApology
    BY <1>6 DEF enqueueApology, EnqueueFinal, Call
  <1>7. CASE enqueueClosure
    BY <1>7 DEF enqueueClosure, EnqueueFinal, Call
  <1>8. CASE completeSilent
    BY <1>8 DEF completeSilent, Ended, Call
  <1>9. CASE completeSuppressed
    BY <1>9 DEF completeSuppressed, Ended, Call
  <1>10. CASE completeError
    BY <1>10 DEF completeError, Call
  <1>11. CASE heartbeat
    BY <1>11 DEF heartbeat
  <1>12. CASE AbortJob \/ GatewayCrashes \/ LeaseExpires \/ RecoverLoop
    BY <1>12 DEF AbortJob, GatewayCrashes, LeaseExpires, RecoverLoop
  <1> QED
    BY <1>1, <1>2, <1>3, <1>4, <1>5, <1>6, <1>7, <1>8, <1>9, <1>10, <1>11, <1>12

LEMMA KeptByResearch ==
  ASSUME IInv, recordResearchStarted \/ recordResearchResult
  PROVE  \A p \in Passes : Kept(p)
  <1>1. /\ turn \in Turns /\ turn.artifact \in [Passes -> Artifacts]
        /\ worker.pass \in Passes
    BY DEF IInv, Documents, Shaped, Turns, Attending, Workers
  <1>2. CASE UNCHANGED <<turn, jobs>>
    BY <1>2, KeptByOthers
  <1>3. CASE recordResearchStarted /\ ~UNCHANGED <<turn, jobs>>
    <2> DEFINE a == turn.artifact[worker.pass]
               b == IF a.status = "none"
                    THEN [status |-> "pending", input |-> ResearchInput] ELSE a
    <2>1. turn' = [turn EXCEPT !.artifact[worker.pass] = b] /\ jobs' = jobs
      BY <1>3 DEF recordResearchStarted, Call, CallFails, OnlyTurn, convex
    <2>2. a.status \in Results => b = a
      BY DEF Results
    <2> HIDE DEF b
    <2>3. turn'.artifact = [turn.artifact EXCEPT ![worker.pass] = b]
      BY <1>1, <2>1 DEF Turns
    <2> QED BY <1>1, <2>1, <2>2, <2>3 DEF Kept
  <1>4. CASE recordResearchResult /\ ~UNCHANGED <<turn, jobs>>
    <2> DEFINE a == turn.artifact[worker.pass]
               b == [a EXCEPT !.status = worker.research]
    <2>1. /\ turn' = [turn EXCEPT !.artifact[worker.pass].status = worker.research]
          /\ jobs' = jobs /\ a.status \in {"pending", worker.research}
      BY <1>4 DEF recordResearchResult, Call, CallFails, OnlyTurn, convex
    <2>2. a.status \in Results => b = a
      BY <1>1, <2>1 DEF Results, Artifacts
    <2>3. turn'.artifact = [turn.artifact EXCEPT ![worker.pass] = b]
      BY <1>1, <2>1 DEF Turns
    <2> HIDE DEF b
    <2> QED BY <1>1, <2>1, <2>2, <2>3 DEF Kept
  <1> QED BY <1>2, <1>3, <1>4

LEMMA KeptByJobs ==
  ASSUME IInv, submitJob \/ pollJob \/ PiRestarts
  PROVE  \A p \in Passes : Kept(p)
  <1>1. /\ jobs \in [Stages -> Jobs] /\ worker.stage \in Stages /\ UNCHANGED convex
        /\ worker.pc \in {"submit", "wait"}
    BY DEF IInv, Documents, Shaped, Attending, Workers, submitJob, pollJob, PiRestarts
  <1>2. ASSUME NEW p \in Passes, turn.artifact[p].status \in Results
        PROVE  worker.stage # <<"sol", p>>
    <2>1. ASSUME worker.stage = <<"sol", p>> PROVE turn.artifact[p].status = "pending"
      <3>1. worker.stage[1] = "sol" /\ AtJob(worker, "sol")
        BY <1>1, <2>1 DEF AtJob
      <3>2. /\ worker.stage = <<"sol", worker.pass>>
            /\ turn.artifact[worker.pass].status = "pending"
        BY <1>1, <3>1 DEF IInv, Attending, Follows, Failing, Along, ResearchFits
      <3>3. worker.stage[2] = p /\ worker.stage[2] = worker.pass
        BY <2>1, <3>2
      <3> QED BY <3>2, <3>3
    <2> QED BY <1>2, <2>1 DEF Results
  <1>3. ASSUME NEW s \in Stages, s # worker.stage
        PROVE  jobs'[s].status = "running" => jobs[s].status = "running"
    <2>1. CASE submitJob
      BY <1>1, <1>3, <2>1 DEF submitJob
    <2>2. CASE pollJob
      BY <1>1, <1>3, <2>2 DEF pollJob
    <2>3. CASE PiRestarts
      BY <1>3, <2>3 DEF PiRestarts, NoJob
    <2> QED BY <2>1, <2>2, <2>3
  <1>4. ASSUME NEW p \in Passes PROVE Kept(p)
    <2>1. <<"sol", p>> \in Stages
      BY PassIsResearch
    <2> QED BY <1>1, <1>2, <1>3, <2>1 DEF Kept, convex
  <1> QED BY <1>4

(* Completed research of a run is neither changed nor paid for again
   (durableTurnRecoveryPayload, recordResearchStarted). *)
THEOREM CompletedResearchIsKeptHolds == Spec => CompletedResearchIsKept
  <1>1. IInv /\ [Next]_turnVars => [\A p \in Passes : Kept(p)]_turnVars
    <2> SUFFICES ASSUME IInv, Next PROVE \A p \in Passes : Kept(p)
      OBVIOUS
    <2>1. turn \in Turns
      BY DEF IInv, Documents, Shaped
    <2>2. CASE \E mention \in BOOLEAN : IngestHuman(mention)
      BY <2>2, KeptByOthers DEF IngestHuman
    <2>3. CASE StartLoop
      <3>1. channel'.run = channel.generation + 1 /\ channel.run <= channel.generation
        BY <2>3 DEF StartLoop, IInv, Documents, Shaped, Fenced, Channels
      <3> QED BY <3>1 DEF Kept, IInv, Documents, Shaped, Channels
    <2>4. CASE recordResearchStarted \/ recordResearchResult
      BY <2>4, KeptByResearch
    <2>5. CASE submitJob \/ pollJob \/ PiRestarts
      BY <2>5, KeptByJobs
    <2>6. CASE \E q \in Keys : Deliver(q)
      BY <2>1, <2>6, KeptByOthers DEF Deliver, Turns
    <2>7. CASE \/ recordFrontmanPlan \/ enqueueAcknowledgement \/ newestContext
               \/ recordFrontmanResume \/ enqueueReply \/ enqueueApology \/ enqueueClosure
               \/ completeSilent \/ completeSuppressed \/ completeError
               \/ heartbeat \/ AbortJob \/ GatewayCrashes \/ LeaseExpires \/ RecoverLoop
      BY <2>1, <2>7, KeptByCalls, KeptByOthers
    <2> QED
      BY <2>2, <2>3, <2>4, <2>5, <2>6, <2>7 DEF Next, GatewayStep, WorkerStep, claimLoop
  <1>2. (\A p \in Passes : Kept(p)) <=>
          (\A p \in Passes :
             turn.artifact[p].status \in Results /\ channel'.run = channel.run =>
               /\ turn'.artifact[p] = turn.artifact[p]
               /\ jobs'[<<"sol", p>>].status = "running"
                     => jobs[<<"sol", p>>].status = "running")
    BY DEF Kept
  <1> QED BY <1>1, <1>2, Invariant, PTL DEF Spec, CompletedResearchIsKept

=============================================================================
