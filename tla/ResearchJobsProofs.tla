--------------------------- MODULE ResearchJobsProofs ---------------------------
(***************************************************************************)
(* Proofs about ResearchJobs for any searches, budget and bounds: types    *)
(* with the budget, that payments are reported before the failure that     *)
(* allows a retry, that an attempt has in hand what is stored, pays for    *)
(* nothing an earlier one stored, that an accepted edition stays as it is  *)
(* and that it revises only the thesis it was given.                       *)
(*                                                                         *)
(* The argument: what is stored is never replaced, so what an attempt was  *)
(* told stays true.  The calls of an attempt are answered in their order,  *)
(* and one it waits for is its last; so when it has ended none is left.  A *)
(* row has a lease while it is at work and at no other time, so an old     *)
(* attempt or a late failure finds none on a row that is done.             *)
(***************************************************************************)
EXTENDS ResearchJobs, FiniteSetTheorems, SequenceTheorems, TLAPS

Final == {"composed", "cancelled", "skipped_late"}

(* The phase in which an attempt waits for the answer to a call. *)
Awaits(c) ==
    CASE c.op = "load"     -> {"starting"}
      [] c.op = "append"   -> {"storing"}
      [] c.op = "complete" -> {"completing"}
      [] c.op = "fail"     -> {"failing"}
      [] c.op = "cost"     -> {"researching", "storing", "completing", "failing"}

(* A lease belongs to a row at work. *)
Leased ==
    /\ row.lease # "none" => row.status = "working"
    /\ \A i \in DOMAIN thesis : thesis[i] = "this" =>
         row.status = "composed" /\ i = row.memory + 1

(* An attempt counts what it paid.  What it has in hand is stored; what it
   lacks was not stored before it started. *)
Sound(g) ==
    job[g] # None =>
      /\ job[g].paid <= job[g].used
      /\ g <= row.generation
      /\ \A s \in Slots :
           /\ job[g].packet[s] # None => job[g].packet[s] = evidence[s]
           /\ job[g].phase \in {"researching", "storing"} /\ job[g].packet[s] = None =>
                evidence[s] = None \/ evidence[s][1] >= g

(* A call tells of its own attempt. *)
Own(c) ==
    /\ c.op = "append" => c.payment[1] = c.generation
    /\ c.generation <= row.generation

(* Its attempt waits for the answer. *)
Live(c) ==
    /\ Own(c)
    /\ job[c.generation] \in Attempts
    /\ job[c.generation].phase \in Awaits(c)

(* A call that is waited for is the last of its attempt. *)
InOrder(q) ==
    \A i, k \in DOMAIN q : i < k /\ q[i].op # "cost" => q[i].generation # q[k].generation

Queued ==
    /\ \A i \in DOMAIN queue : Live(queue[i])
    /\ InOrder(queue)
    /\ \A c \in delayed : Own(c)

IInv ==
    /\ TypeOK
    /\ Leased
    /\ IsFiniteSet(ledger.events)
    /\ \A g \in Generations : Sound(g)
    /\ Queued

-----------------------------------------------------------------------------
(* What a step of Convex does to the rows. *)
Server ==
    /\ row' \in Rows
    /\ evidence' \in Packets
    /\ ledger' \in [events : SUBSET Events, observed : Nat]
    /\ IsFiniteSet(ledger'.events)
    /\ thesis' \in Seq({"this", "other"})
    /\ row.generation <= row'.generation
    /\ \A s \in Slots :
         \/ evidence'[s] = evidence[s]
         \/ evidence[s] = None /\ evidence'[s][1] = row.generation
    /\ Leased'

LEMMA CallbackShape ==
    ASSUME NEW c \in Callbacks
    PROVE  /\ c.generation \in Generations
           /\ c.op \in {"load", "append", "complete", "fail", "cost"}
           /\ c.op = "append" => c.slot \in Slots /\ c.payment \in Payments
           /\ c.op = "complete" => c.packet \in Packets
           /\ c.op = "cost" => c.number \in 0..Budget /\ c.known \in BOOLEAN
BY DEF Callbacks

(* An attempt that a step leaves alone stays sound. *)
LEMMA SoundStays ==
    ASSUME IInv, Server, NEW g \in Generations, job'[g] = job[g]
    PROVE  Sound(g)'
<1>1. row \in Rows /\ row' \in Rows /\ evidence \in Packets /\ Sound(g)
  BY DEF IInv, TypeOK, Server
<1>2. row.generation \in Nat /\ row'.generation \in Nat /\ g \in Nat
  BY <1>1 DEF Rows, Generations
<1>3. row.generation <= row'.generation
  BY DEF Server
<1> SUFFICES ASSUME job[g] # None  PROVE Sound(g)'
  BY DEF Sound
<1>4. g <= row.generation /\ g <= row'.generation
  BY <1>1, <1>2, <1>3 DEF Sound
<1>5. ASSUME NEW s \in Slots
      PROVE  /\ job[g].packet[s] # None => job[g].packet[s] = evidence'[s]
             /\ job[g].phase \in {"researching", "storing"} /\ job[g].packet[s] = None =>
                  evidence'[s] = None \/ evidence'[s][1] >= g
  <2>1. CASE evidence'[s] = evidence[s]
    BY <1>1, <2>1 DEF Sound
  <2>2. CASE evidence[s] = None /\ evidence'[s][1] = row.generation
    BY <1>1, <1>2, <1>4, <2>2 DEF Sound
  <2> QED  BY <2>1, <2>2 DEF Server
<1> QED  BY <1>1, <1>4, <1>5 DEF Sound

(* One that has ended has nothing in hand. *)
LEMMA EndedSound ==
    ASSUME NEW g \in Generations, NEW phase \in EndPhases, job'[g] = Ended(phase),
           g <= row'.generation
    PROVE  Ended(phase) \in Attempts /\ Sound(g)'
<1>1. Ended(phase) \in Attempts
  BY ResearchAssumption DEF Ended, Attempts, Phases, EndPhases, Packets, NoPacket
<1>2. /\ Ended(phase).paid <= Ended(phase).used
      /\ \A s \in Slots : Ended(phase).packet[s] = None
      /\ Ended(phase).phase \notin {"researching", "storing"}
  BY DEF Ended, NoPacket, EndPhases
<1> HIDE DEF Ended
<1> QED  BY <1>1, <1>2 DEF Sound

(* The attempt g becomes a and makes the calls cs, after q; its earlier calls,
   in q, only tell of its costs. *)
Sends(g, a, q, cs) ==
    /\ row'.generation \in Nat /\ row.generation <= row'.generation
    /\ g <= row'.generation
    /\ job' = [job EXCEPT ![g] = a]
    /\ queue' = q \o cs
    /\ (\A i \in DOMAIN q : Live(q[i])) /\ InOrder(q)
    /\ \A i \in DOMAIN q : q[i].generation = g => q[i].op = "cost" /\ a.phase \in Awaits(q[i])
    /\ \A i \in DOMAIN cs : /\ cs[i].generation = g
                            /\ cs[i].op = "append" => cs[i].payment[1] = g
                            /\ a.phase \in Awaits(cs[i])
    /\ \A i, k \in DOMAIN cs : i < k => cs[i].op = "cost"
    /\ \A c \in delayed' : c \in delayed \/ Own(c)'
    /\ delayed' \subseteq Callbacks

LEMMA Sent ==
    ASSUME IInv, NEW g \in Generations, NEW a \in Attempts, NEW q \in Seq(Callbacks),
           NEW cs \in Seq(Callbacks), Sends(g, a, q, cs)
    PROVE  queue' \in Seq(Callbacks) /\ Queued'
<1> USE DEF Sends
<1>0. TypeOK /\ row.generation \in Nat
  BY DEF IInv, TypeOK, Rows
<1>1. /\ queue' \in Seq(Callbacks)
      /\ Len(queue') = Len(q) + Len(cs)
      /\ DOMAIN queue' = 1 .. Len(q) + Len(cs)
      /\ \A i \in DOMAIN queue' : \/ i \in DOMAIN q /\ queue'[i] = q[i]
                                  \/ /\ i > Len(q) /\ i - Len(q) \in DOMAIN cs
                                     /\ queue'[i] = cs[i - Len(q)]
  OBVIOUS
<1>2. \A c \in Callbacks : Own(c) => Own(c)'
  <2> SUFFICES ASSUME NEW c \in Callbacks, Own(c)  PROVE Own(c)'
    OBVIOUS
  <2>1. c.generation \in Nat
    BY CallbackShape DEF Generations
  <2> QED  BY <1>0, <2>1 DEF Own
<1>3. job'[g] = a /\ \A h \in Generations : h # g => job'[h] = job[h]
  BY <1>0 DEF TypeOK
<1>4. ASSUME NEW i \in DOMAIN queue'  PROVE Live(queue[i])'
  <2>1. CASE i \in DOMAIN q /\ queue'[i] = q[i]
    <3>1. q[i] \in Callbacks /\ Live(q[i])
      BY <2>1
    <3>2. q[i].generation \in Generations
      BY <3>1, CallbackShape
    <3>3. Own(q[i])'
      BY <1>2, <3>1 DEF Live
    <3>4. job'[q[i].generation] \in Attempts /\ job'[q[i].generation].phase \in Awaits(q[i])
      <4>1. CASE q[i].generation = g
        BY <1>3, <2>1, <4>1
      <4>2. CASE q[i].generation # g
        BY <1>3, <3>1, <3>2, <4>2 DEF Live
      <4> QED  BY <4>1, <4>2
    <3> QED  BY <2>1, <3>3, <3>4 DEF Live, Own
  <2>2. CASE i - Len(q) \in DOMAIN cs /\ queue'[i] = cs[i - Len(q)]
    <3> DEFINE c == cs[i - Len(q)]
    <3>1. c.generation = g /\ (c.op = "append" => c.payment[1] = g) /\ a.phase \in Awaits(c)
      BY <2>2
    <3> HIDE DEF c
    <3>2. queue'[i] = c
      BY <2>2 DEF c
    <3> QED  BY <1>3, <3>1, <3>2 DEF Live, Own
  <2> QED  BY <1>1, <2>1, <2>2
<1>5. InOrder(queue')
  <2> SUFFICES ASSUME NEW i \in DOMAIN queue', NEW k \in DOMAIN queue', i < k,
                      queue'[i].op # "cost"
               PROVE  queue'[i].generation # queue'[k].generation
    BY DEF InOrder
  <2>1. CASE k \in DOMAIN q /\ queue'[k] = q[k]
    <3>1. i \in DOMAIN q /\ queue'[i] = q[i]
      BY <1>1, <2>1
    <3> QED  BY <2>1, <3>1 DEF InOrder
  <2>2. CASE k - Len(q) \in DOMAIN cs /\ queue'[k] = cs[k - Len(q)]
    <3>1. CASE i \in DOMAIN q /\ queue'[i] = q[i]
      BY <2>2, <3>1
    <3>2. CASE i - Len(q) \in DOMAIN cs /\ queue'[i] = cs[i - Len(q)]
      <4>1. i - Len(q) < k - Len(q)
        BY <1>1
      <4> QED  BY <2>2, <3>2, <4>1
    <3> QED  BY <1>1, <3>1, <3>2
  <2> QED  BY <1>1, <2>1, <2>2
<1>6. \A c \in delayed' : Own(c)'
  <2>1. \A c \in delayed : c \in Callbacks /\ Own(c)
    BY <1>0 DEF IInv, Queued, TypeOK
  <2> QED  BY <1>2, <2>1
<1>7. (\A i \in DOMAIN queue : Live(queue[i]))'
  BY <1>4
<1>8. InOrder(queue)'
  BY <1>5 DEF InOrder
<1> QED  BY <1>1, <1>6, <1>7, <1>8 DEF Queued

(* A step of Convex, with the attempts left alone and the calls q left. *)
Leaves(q) ==
    /\ job' = job
    /\ queue' = q
    /\ (\A i \in DOMAIN q : Live(q[i])) /\ InOrder(q)
    /\ \A c \in delayed' : c \in Callbacks /\ Own(c)

LEMMA LeavingStep ==
    ASSUME IInv, Server, NEW q \in Seq(Callbacks), Leaves(q)
    PROVE  IInv'
<1>1. TypeOK'
  BY DEF IInv, TypeOK, Server, Leaves
<1>2. Leased' /\ IsFiniteSet(ledger'.events)
  BY DEF Server
<1>3. \A g \in Generations : Sound(g)'
  BY SoundStays DEF Leaves
<1>4. \A c \in Callbacks : Own(c) => Own(c)'
  <2> SUFFICES ASSUME NEW c \in Callbacks, Own(c)  PROVE Own(c)'
    OBVIOUS
  <2>1. c.generation \in Nat
    BY CallbackShape DEF Generations
  <2>2. row.generation \in Nat /\ row'.generation \in Nat /\ row.generation <= row'.generation
    BY DEF IInv, TypeOK, Server, Rows
  <2> QED  BY <2>1, <2>2 DEF Own
<1>5. (\A i \in DOMAIN queue : Live(queue[i]))'
  <2> SUFFICES ASSUME NEW i \in DOMAIN q  PROVE Live(q[i])'
    BY DEF Leaves
  <2>1. q[i] \in Callbacks /\ Live(q[i])
    BY DEF Leaves
  <2>2. Own(q[i])'
    BY <1>4, <2>1 DEF Live
  <2> QED  BY <2>1, <2>2 DEF Live, Leaves
<1>6. InOrder(queue)'
  BY DEF InOrder, Leaves
<1>7. \A c \in delayed' : Own(c)'
  BY <1>4 DEF Leaves
<1> QED  BY <1>1, <1>2, <1>3, <1>5, <1>6, <1>7 DEF IInv, Queued

LEMMA ServerStep ==
    ASSUME IInv, Server, UNCHANGED <<job, queue>>, delayed' \subseteq delayed
    PROVE  IInv'
<1>1. queue \in Seq(Callbacks) /\ Leaves(queue)
  BY DEF IInv, TypeOK, Queued, Leaves
<1> QED  BY <1>1, LeavingStep

-----------------------------------------------------------------------------
(* What a callback does. *)

(* Only the holder of the lease changes the row or the evidence, and the row
   is at work then. *)
LEMMA ExecutesServer ==
    ASSUME IInv, NEW c \in Callbacks, Own(c), Executes(c)
    PROVE  /\ Server
           /\ row'.generation = row.generation
           /\ c.op \in {"load", "fail", "cost"} => evidence' = evidence
           /\ c.op = "append" /\ Accepts(c) => evidence'[c.slot] = c.payment
           /\ row.status \in Final => row'.status = row.status /\ evidence' = evidence
<1>1. /\ row \in Rows /\ evidence \in Packets
      /\ ledger \in [events : SUBSET Events, observed : Nat]
      /\ IsFiniteSet(ledger.events)
      /\ thesis \in Seq({"this", "other"})
      /\ Leased
  BY DEF IInv, TypeOK
<1>2. /\ row.generation \in Nat /\ row.memory \in Nat /\ row.generation <= row.generation
      /\ Len(thesis) \in Nat
  BY <1>1 DEF Rows
<1>3. HoldsLease(c.generation) => row.status = "working" /\ row.generation = c.generation
  BY <1>1 DEF HoldsLease, Leased
<1>4. CASE c.op = "load"
  BY <1>1, <1>2, <1>4 DEF Executes, Server, Leased
<1>5. CASE c.op = "append"
  <2>1. UNCHANGED <<row, ledger, thesis>> /\ appendEvidence(c)
    BY <1>5 DEF Executes
  <2>2. c.slot \in Slots /\ c.payment \in Payments /\ c.payment[1] = c.generation
    BY <1>5, CallbackShape DEF Own
  <2>3. CASE Accepts(c)
    <3>1. HoldsLease(c.generation) /\ evidence[c.slot] \in {None, c.payment}
      BY <1>5, <2>3 DEF Accepts
    <3>2. evidence' = [evidence EXCEPT ![c.slot] = c.payment]
      BY <2>1, <2>3 DEF appendEvidence
    <3>3. evidence' \in Packets /\ evidence'[c.slot] = c.payment
      BY <1>1, <2>2, <3>2 DEF Packets
    <3>4. ASSUME NEW s \in Slots
          PROVE  \/ evidence'[s] = evidence[s]
                 \/ evidence[s] = None /\ evidence'[s][1] = row.generation
      BY <1>1, <1>3, <2>2, <3>1, <3>2, <3>3 DEF Packets
    <3>5. row.status \notin Final
      BY <1>3, <3>1 DEF Final
    <3> QED  BY <1>1, <1>2, <1>5, <2>1, <3>3, <3>4, <3>5 DEF Server, Leased
  <2>4. CASE ~Accepts(c)
    <3>1. evidence' = evidence
      BY <2>1, <2>4 DEF appendEvidence
    <3> QED  BY <1>1, <1>2, <1>5, <2>1, <2>4, <3>1 DEF Server, Leased
  <2> QED  BY <2>3, <2>4
<1>6. CASE c.op = "complete"
  <2>1. UNCHANGED <<evidence, ledger>> /\ completeComposition(c)
    BY <1>6 DEF Executes
  <2>2. CASE Accepts(c)
    <3>1. row.status = "working"
      BY <1>3, <1>6, <2>2 DEF Accepts
    <3>2. row' = [row EXCEPT !.lease = "none", !.status = "composed"] /\ commitThesisUpdates
      BY <2>1, <2>2 DEF completeComposition
    <3>3. /\ row' \in Rows /\ row'.generation = row.generation /\ row'.memory = row.memory
          /\ row'.lease = "none" /\ row'.status = "composed"
      BY <1>1, <3>2 DEF Rows
    <3>4. \A i \in DOMAIN thesis : thesis[i] # "this"
      BY <1>1, <3>1 DEF Leased
    <3>5. \/ thesis' = thesis
          \/ thesis' = Append(thesis, "this") /\ Len(thesis) = row.memory
      BY <3>2 DEF commitThesisUpdates
    <3>6. /\ thesis' \in Seq({"this", "other"})
          /\ \A i \in DOMAIN thesis' : thesis'[i] = "this" => i = row.memory + 1
      <4>1. CASE thesis' = thesis
        BY <1>1, <3>4, <4>1
      <4>2. CASE thesis' = Append(thesis, "this") /\ Len(thesis) = row.memory
        <5>1. "this" \in {"this", "other"}
          OBVIOUS
        <5>2. DOMAIN thesis' = 1 .. Len(thesis) + 1 /\ DOMAIN thesis = 1 .. Len(thesis)
          BY <1>1, <4>2, <5>1, AppendProperties
        <5>3. \A i \in 1 .. Len(thesis) : thesis'[i] = thesis[i]
          BY <1>1, <4>2, <5>1, AppendProperties
        <5>4. thesis' \in Seq({"this", "other"})
          BY <1>1, <4>2, <5>1, AppendProperties
        <5> QED  BY <1>2, <3>4, <4>2, <5>2, <5>3, <5>4
      <4> QED  BY <3>5, <4>1, <4>2
    <3>7. Leased'
      BY <3>3, <3>6 DEF Leased
    <3> QED  BY <1>1, <1>2, <1>6, <2>1, <3>1, <3>3, <3>6, <3>7 DEF Server, Final
  <2>3. CASE ~Accepts(c)
    <3>1. UNCHANGED <<row, thesis>>
      BY <2>1, <2>3 DEF completeComposition
    <3> QED  BY <1>1, <1>2, <1>6, <2>1, <3>1 DEF Server, Leased
  <2> QED  BY <2>2, <2>3
<1>7. CASE c.op = "fail"
  <2>1. UNCHANGED <<evidence, ledger, thesis>> /\ failRun(c.generation)
    BY <1>7 DEF Executes
  <2>2. CASE HoldsLease(c.generation)
    <3>1. PICK status \in {"retry_wait", "failed"} :
              row' = [row EXCEPT !.lease = "none", !.status = status]
      BY <2>1, <2>2 DEF failRun
    <3>2. /\ row' \in Rows /\ row'.generation = row.generation /\ row'.memory = row.memory
          /\ row'.lease = "none"
      BY <1>1, <3>1 DEF Rows
    <3>3. \A i \in DOMAIN thesis : thesis[i] # "this"
      BY <1>1, <1>3, <2>2 DEF Leased
    <3>4. row.status \notin Final
      BY <1>3, <2>2 DEF Final
    <3> QED  BY <1>1, <1>2, <1>7, <2>1, <3>2, <3>3, <3>4 DEF Server, Leased
  <2>3. CASE ~HoldsLease(c.generation)
    <3>1. row' = row
      BY <2>1, <2>3 DEF failRun
    <3> QED  BY <1>1, <1>2, <1>7, <2>1, <3>1 DEF Server, Leased
  <2> QED  BY <2>2, <2>3
<1>8. CASE c.op = "cost"
  <2>1. UNCHANGED <<row, evidence, thesis>> /\ persistExaCostEvent(c)
    BY <1>8 DEF Executes
  <2> DEFINE event == [generation |-> c.generation, number |-> c.number, known |-> c.known]
  <2>2. event \in Events
    BY <1>8, CallbackShape DEF Events
  <2>3. ledger' = IF event \in ledger.events THEN ledger
                  ELSE [events |-> ledger.events \cup {event},
                        observed |-> ledger.observed + 1]
    BY <2>1 DEF persistExaCostEvent
  <2> HIDE DEF event
  <2>4. IsFiniteSet(ledger.events \cup {event})
    BY <1>1, FS_AddElement, Zenon
  <2>5. ledger' \in [events : SUBSET Events, observed : Nat] /\ IsFiniteSet(ledger'.events)
    BY <1>1, <2>2, <2>3, <2>4
  <2> QED  BY <1>1, <1>2, <1>8, <2>1, <2>5 DEF Server, Leased
<1> QED  BY <1>4, <1>5, <1>6, <1>7, <1>8, CallbackShape

(* The calls that remain when the first is answered. *)
LEMMA RestOfQueue ==
    ASSUME IInv, 1 \in DOMAIN queue
    PROVE  /\ Rest(1) \in Seq(Callbacks)
           /\ \A i \in DOMAIN Rest(1) : Live(Rest(1)[i])
           /\ InOrder(Rest(1))
           /\ queue[1].op # "cost" =>
                \A i \in DOMAIN Rest(1) : Rest(1)[i].generation # queue[1].generation
<1>1. queue \in Seq(Callbacks) /\ Queued
  BY DEF IInv, TypeOK
<1>2. Len(queue) \in Nat /\ 1 <= Len(queue) /\ DOMAIN queue = 1 .. Len(queue)
  BY <1>1
<1>3. Rest(1) = [k \in 1 .. (Len(queue) - 1) |-> queue[k + 1]]
  BY <1>2 DEF Rest
<1>4. \A k \in 1 .. (Len(queue) - 1) : k + 1 \in DOMAIN queue /\ 1 < k + 1 /\ queue[k + 1] \in Callbacks
  BY <1>1, <1>2
<1>5. /\ Rest(1) \in Seq(Callbacks) /\ DOMAIN Rest(1) = 1 .. (Len(queue) - 1)
      /\ \A k \in DOMAIN Rest(1) : Rest(1)[k] = queue[k + 1]
  <2>1. Len(queue) - 1 \in Nat
    BY <1>2
  <2> QED  BY <1>3, <1>4, <2>1
<1> HIDE DEF Rest
<1>6. \A i \in DOMAIN Rest(1) : Live(Rest(1)[i])
  <2> SUFFICES ASSUME NEW i \in DOMAIN Rest(1)  PROVE Live(Rest(1)[i])
    OBVIOUS
  <2>1. Rest(1)[i] = queue[i + 1] /\ i + 1 \in DOMAIN queue
    BY <1>4, <1>5
  <2> QED  BY <1>1, <2>1 DEF Queued
<1>7. InOrder(Rest(1))
  <2> SUFFICES ASSUME NEW i \in DOMAIN Rest(1), NEW k \in DOMAIN Rest(1), i < k,
                      Rest(1)[i].op # "cost"
               PROVE  Rest(1)[i].generation # Rest(1)[k].generation
    BY DEF InOrder
  <2>1. i + 1 \in DOMAIN queue /\ k + 1 \in DOMAIN queue /\ i + 1 < k + 1
    BY <1>2, <1>4, <1>5
  <2> QED  BY <1>1, <1>5, <2>1 DEF Queued, InOrder
<1>8. ASSUME queue[1].op # "cost", NEW i \in DOMAIN Rest(1)
      PROVE  Rest(1)[i].generation # queue[1].generation
  <2>1. i + 1 \in DOMAIN queue /\ 1 < i + 1
    BY <1>4, <1>5
  <2> QED  BY <1>1, <1>5, <1>8, <2>1 DEF Queued, InOrder
<1> QED  BY <1>5, <1>6, <1>7, <1>8

-----------------------------------------------------------------------------
(* The steps of Convex and of its dispatching action. *)

(* Where nothing but the row changes, and its generation and thesis not. *)
LEMMA RowStep ==
    ASSUME IInv, row' \in Rows, row'.generation = row.generation,
           row'.lease # "none" => row'.status = "working",
           UNCHANGED <<evidence, ledger, thesis>>,
           (row'.memory = row.memory /\ row'.status = row.status) \/ row.status # "composed"
    PROVE  Server
<1>1. /\ row \in Rows /\ evidence \in Packets
      /\ ledger \in [events : SUBSET Events, observed : Nat]
      /\ IsFiniteSet(ledger.events)
      /\ thesis \in Seq({"this", "other"})
      /\ Leased
  BY DEF IInv, TypeOK
<1>2. row.generation \in Nat /\ row.generation <= row.generation
  BY <1>1 DEF Rows
<1>3. \A i \in DOMAIN thesis : thesis[i] = "this" =>
         row'.status = "composed" /\ i = row'.memory + 1
  BY <1>1 DEF Leased
<1>4. Leased'
  BY <1>3 DEF Leased
<1> QED  BY <1>1, <1>2, <1>4 DEF Server

LEMMA ClaimStep ==
    ASSUME IInv, Claim, row.status \in {"queued", "working", "retry_wait"}
    PROVE  IInv' /\ row'.status = "working" /\ evidence' = evidence
<1> DEFINE a == [phase |-> "dispatched", packet |-> NoPacket,
                 used |-> durableExaUsage.used, closed |-> durableExaUsage.closed,
                 paid |-> 0]
<1>0. PICK g \in Generations : g = row.generation + 1
  BY DEF Claim
<1>1. /\ row' = [row EXCEPT !.status = "working", !.generation = g, !.lease = "live"]
      /\ job' = [job EXCEPT ![g] = a]
      /\ UNCHANGED <<evidence, ledger, thesis, queue, delayed>>
  BY <1>0 DEF Claim
<1>2. /\ TypeOK /\ Leased /\ IsFiniteSet(ledger.events) /\ Queued
      /\ \A h \in Generations : Sound(h)
  BY DEF IInv
<1>3. row \in Rows /\ row.generation \in Nat /\ row.generation < g /\ g \in 0..MaxGenerations
  BY <1>0, <1>2, ResearchAssumption DEF TypeOK, Rows, Generations
<1>4. a \in Attempts /\ a.paid <= a.used /\ a.phase = "dispatched"
      /\ \A s \in Slots : a.packet[s] = None
  <2>1. durableExaUsage.used \in Nat /\ durableExaUsage.closed \in BOOLEAN
    BY <1>2, FS_CardinalityType DEF durableExaUsage
  <2>2. NoPacket \in Packets /\ \A s \in Slots : NoPacket[s] = None
    BY DEF NoPacket, Packets
  <2>3. 0 \in 0..Budget
    BY ResearchAssumption
  <2> HIDE DEF durableExaUsage, NoPacket
  <2> QED  BY <2>1, <2>2, <2>3 DEF Attempts, Phases
<1> HIDE DEF a
<1>5. /\ row' \in Rows /\ row'.generation = g /\ row'.status = "working"
      /\ row'.memory = row.memory
  BY <1>1, <1>3 DEF Rows
<1>6. Server
  <2>1. \A i \in DOMAIN thesis : thesis[i] # "this"
    BY <1>2 DEF Leased
  <2>2. Leased'
    BY <1>1, <1>5, <2>1 DEF Leased
  <2> QED  BY <1>1, <1>2, <1>3, <1>5, <2>2 DEF Server, TypeOK
<1>7. job' \in [Generations -> Attempts \cup {None}] /\ job'[g] = a
      /\ \A h \in Generations : h # g => job'[h] = job[h]
  BY <1>1, <1>2, <1>4 DEF TypeOK
<1>8. \A h \in Generations : Sound(h)'
  <2>1. Sound(g)'
    <3>1. g <= row'.generation
      BY <1>3, <1>5
    <3> QED  BY <1>4, <1>7, <3>1 DEF Sound
  <2>2. ASSUME NEW h \in Generations, h # g  PROVE Sound(h)'
    BY <1>6, <1>7, <2>2, SoundStays
  <2> QED  BY <2>1, <2>2
<1>9. Queued'
  <2>1. <<>> \in Seq(Callbacks) /\ queue' = queue \o <<>> /\ queue \in Seq(Callbacks)
    BY <1>1, <1>2 DEF TypeOK
  <2>2. ASSUME NEW i \in DOMAIN queue  PROVE queue[i].generation # g
    <3>1. queue[i] \in Callbacks /\ queue[i].generation <= row.generation
      BY <1>2, <2>1, <2>2 DEF Queued, Live, Own
    <3>2. queue[i].generation \in Nat
      BY <3>1, CallbackShape DEF Generations
    <3> QED  BY <1>3, <3>1, <3>2
  <2>3. \A i \in DOMAIN queue : Live(queue[i])
    BY <1>2 DEF Queued
  <2>4. InOrder(queue) /\ delayed' = delayed /\ delayed \subseteq Callbacks
    BY <1>1, <1>2 DEF Queued, TypeOK
  <2>5. /\ row'.generation \in Nat /\ row.generation <= row'.generation
        /\ g <= row'.generation
    BY <1>3, <1>5
  <2> DEFINE cs == <<>>
  <2>6. \A i \in DOMAIN cs : FALSE
    OBVIOUS
  <2> HIDE DEF cs
  <2>7. /\ \A i \in DOMAIN queue : queue[i].generation = g =>
              queue[i].op = "cost" /\ a.phase \in Awaits(queue[i])
        /\ \A i \in DOMAIN cs : /\ cs[i].generation = g
                                /\ cs[i].op = "append" => cs[i].payment[1] = g
                                /\ a.phase \in Awaits(cs[i])
        /\ \A i, k \in DOMAIN cs : i < k => cs[i].op = "cost"
        /\ \A c \in delayed' : c \in delayed \/ Own(c)'
        /\ delayed' \subseteq Callbacks
    BY <2>2, <2>4, <2>6
  <2>8. cs \in Seq(Callbacks) /\ queue' = queue \o cs
    BY <2>1 DEF cs
  <2>9. Sends(g, a, queue, cs)
    BY <1>1, <2>3, <2>4, <2>5, <2>7, <2>8 DEF Sends
  <2> QED  BY <1>4, <2>1, <2>8, <2>9, Sent
<1>10. TypeOK'
  BY <1>1, <1>2, <1>5, <1>7 DEF TypeOK
<1>11. Leased' /\ IsFiniteSet(ledger'.events)
  BY <1>6 DEF Server
<1> QED  BY <1>1, <1>5, <1>8, <1>9, <1>10, <1>11 DEF IInv

(* Every one of them keeps the invariant, and the result of a row that is
   done. *)
LEMMA ConvexSteps ==
    ASSUME IInv,
           \/ create
           \/ dispatch
           \/ LeaseExpires
           \/ recoverBatch
           \/ cancelUnstarted
           \/ retryEdition
           \/ otherThesis
           \/ \E g \in Generations : sendJobFails(g)
    PROVE  /\ IInv'
           /\ row.status \in Final => row'.status = row.status /\ evidence' = evidence
<1>1. row \in Rows /\ Leased
  BY DEF IInv, TypeOK
<1>2. /\ row.status = "absent" => row.lease = "none"
      /\ row.status \in {"queued", "retry_wait", "failed"} => row.lease = "none"
      /\ row.lease # "none" => row.status = "working"
  BY <1>1 DEF Leased
<1>3. CASE create
  <2>1. PICK kind \in Kinds :
            row' = [row EXCEPT !.kind = kind, !.status = "queued", !.memory = Len(thesis)]
    BY <1>3 DEF create
  <2>2. row.status = "absent" /\ UNCHANGED <<evidence, ledger, thesis, job, queue, delayed>>
    BY <1>3 DEF create
  <2>3. Len(thesis) \in Nat
    BY DEF IInv, TypeOK
  <2>4. row' \in Rows /\ row'.generation = row.generation /\ row'.lease = "none"
    BY <1>1, <1>2, <2>1, <2>2, <2>3 DEF Rows
  <2>5. Server
    BY <2>2, <2>4, RowStep
  <2> QED  BY <2>2, <2>5, ServerStep DEF Final
<1>4. CASE dispatch
  <2>1. row.status = "queued"
    BY <1>4 DEF dispatch
  <2>2. CASE Claim
    BY <2>1, <2>2, ClaimStep DEF Final
  <2>3. CASE /\ row' = [row EXCEPT !.status = "skipped_late"]
             /\ UNCHANGED <<evidence, ledger, thesis, job, queue, delayed>>
    <3>1. row' \in Rows /\ row'.generation = row.generation /\ row'.lease = "none"
      BY <1>1, <1>2, <2>1, <2>3 DEF Rows
    <3>2. Server
      BY <2>1, <2>3, <3>1, RowStep
    <3> QED  BY <2>1, <2>3, <3>2, ServerStep DEF Final
  <2> QED  BY <1>4, <2>2, <2>3 DEF dispatch
<1>5. CASE LeaseExpires
  <2>1. /\ row.status = "working" /\ row' = [row EXCEPT !.lease = "expired"]
        /\ UNCHANGED <<evidence, ledger, thesis, job, queue, delayed>>
    BY <1>2, <1>5 DEF LeaseExpires
  <2>2. row' \in Rows /\ row'.generation = row.generation /\ row'.status = "working"
    BY <1>1, <2>1 DEF Rows
  <2>3. Server
    BY <2>1, <2>2, RowStep
  <2> QED  BY <2>1, <2>3, ServerStep DEF Final
<1>6. CASE recoverBatch
  <2>1. CASE Claim /\ row.status \in {"working", "retry_wait"}
    BY <2>1, ClaimStep DEF Final
  <2>2. CASE /\ row.status = "working"
             /\ row' = [row EXCEPT !.status = "queued", !.lease = "none"]
             /\ UNCHANGED <<evidence, ledger, thesis, job, queue, delayed>>
    <3>1. row' \in Rows /\ row'.generation = row.generation /\ row'.lease = "none"
      BY <1>1, <2>2 DEF Rows
    <3>2. Server
      BY <2>2, <3>1, RowStep
    <3> QED  BY <2>2, <3>2, ServerStep DEF Final
  <2> QED  BY <1>6, <2>1, <2>2 DEF recoverBatch
<1>7. CASE cancelUnstarted
  <2>1. /\ row.status = "queued" /\ row' = [row EXCEPT !.status = "cancelled"]
        /\ UNCHANGED <<evidence, ledger, thesis, job, queue, delayed>>
    BY <1>7 DEF cancelUnstarted
  <2>2. row' \in Rows /\ row'.generation = row.generation /\ row'.lease = "none"
    BY <1>1, <1>2, <2>1 DEF Rows
  <2>3. Server
    BY <2>1, <2>2, RowStep
  <2> QED  BY <2>1, <2>3, ServerStep DEF Final
<1>8. CASE retryEdition
  <2>1. /\ row.status \in {"failed", "retry_wait"} /\ row' = [row EXCEPT !.status = "queued"]
        /\ UNCHANGED <<evidence, ledger, thesis, job, queue, delayed>>
    BY <1>8 DEF retryEdition
  <2>2. row' \in Rows /\ row'.generation = row.generation /\ row'.lease = "none"
    BY <1>1, <1>2, <2>1 DEF Rows
  <2>3. Server
    BY <2>1, <2>2, RowStep
  <2> QED  BY <2>1, <2>3, ServerStep DEF Final
<1>9. CASE otherThesis
  <2>1. /\ thesis' = Append(thesis, "other")
        /\ UNCHANGED <<row, evidence, ledger, job, queue, delayed>>
    BY <1>9 DEF otherThesis
  <2>2. thesis \in Seq({"this", "other"}) /\ Len(thesis) \in Nat
    BY DEF IInv, TypeOK
  <2>3. "other" \in {"this", "other"}
    OBVIOUS
  <2>4. /\ DOMAIN thesis' = 1 .. Len(thesis) + 1 /\ DOMAIN thesis = 1 .. Len(thesis)
        /\ thesis'[Len(thesis) + 1] = "other"
    BY <2>1, <2>2, <2>3, AppendProperties
  <2>5. \A i \in 1 .. Len(thesis) : thesis'[i] = thesis[i]
    BY <2>1, <2>2, <2>3, AppendProperties
  <2>6. thesis' \in Seq({"this", "other"})
    BY <2>1, <2>2, <2>3, AppendProperties
  <2>7. \A i \in DOMAIN thesis' : thesis'[i] = "this" => i \in DOMAIN thesis /\ thesis[i] = "this"
    BY <2>2, <2>4, <2>5
  <2>8. Leased'
    BY <1>1, <2>1, <2>7 DEF Leased
  <2>9. row.generation <= row.generation
    BY <1>1 DEF Rows
  <2>10. Server
    BY <2>1, <2>6, <2>8, <2>9 DEF Server, IInv, TypeOK
  <2> QED  BY <2>1, <2>10, ServerStep
<1>10. ASSUME NEW g \in Generations, sendJobFails(g)
       PROVE  /\ IInv'
              /\ row.status \in Final => row'.status = row.status /\ evidence' = evidence
  <2>1. /\ HoldsLease(g) /\ failRun(g)
        /\ UNCHANGED <<evidence, ledger, thesis, job, queue, delayed>>
    BY <1>10 DEF sendJobFails
  <2>2. row.status = "working"
    BY <1>2, <2>1 DEF HoldsLease
  <2>3. PICK status \in {"retry_wait", "failed"} :
            row' = [row EXCEPT !.lease = "none", !.status = status]
    BY <2>1 DEF failRun
  <2>4. row' \in Rows /\ row'.generation = row.generation /\ row'.lease = "none"
    BY <1>1, <2>3 DEF Rows
  <2>5. Server
    BY <2>1, <2>2, <2>4, RowStep
  <2> QED  BY <2>1, <2>2, <2>5, ServerStep DEF Final
<1> QED  BY <1>3, <1>4, <1>5, <1>6, <1>7, <1>8, <1>9, <1>10

-----------------------------------------------------------------------------
(* The steps of Pi. *)

(* An attempt is changed and its calls made, with or without a step of
   Convex. *)
LEMMA AttemptStep ==
    ASSUME IInv, Server, NEW g \in Generations, NEW a \in Attempts, NEW q \in Seq(Callbacks),
           NEW cs \in Seq(Callbacks), Sends(g, a, q, cs), Sound(g)'
    PROVE  IInv'
<1>1. queue' \in Seq(Callbacks) /\ Queued'
  BY Sent
<1>2. TypeOK
  BY DEF IInv
<1>3. job' = [job EXCEPT ![g] = a] /\ delayed' \subseteq Callbacks
  BY DEF Sends
<1>4. job' \in [Generations -> Attempts \cup {None}]
      /\ \A h \in Generations : h # g => job'[h] = job[h]
  BY <1>2, <1>3 DEF TypeOK
<1>5. TypeOK'
  BY <1>1, <1>3, <1>4 DEF TypeOK, Server
<1>6. ASSUME NEW h \in Generations  PROVE Sound(h)'
  <2>1. CASE h # g
    BY <1>4, <2>1, SoundStays
  <2> QED  BY <2>1
<1>7. Leased' /\ IsFiniteSet(ledger'.events)
  BY DEF Server
<1> QED  BY <1>1, <1>5, <1>6, <1>7 DEF IInv

LEMMA Still ==
    ASSUME IInv, UNCHANGED <<row, evidence, ledger, thesis>>
    PROVE  Server
<1>1. row \in Rows
  BY DEF IInv, TypeOK
<1>2. row'.lease # "none" => row'.status = "working"
  BY DEF IInv, Leased
<1> QED  BY <1>1, <1>2, RowStep

(* What is known of an attempt, and of its calls by its phase. *)
LEMMA AttemptShape ==
    ASSUME IInv, NEW g \in Generations, job[g] # None
    PROVE  /\ job[g] \in Attempts
           /\ job[g].packet \in Packets /\ job[g].used \in Nat /\ job[g].closed \in BOOLEAN
           /\ job[g].paid \in 0..Budget /\ job[g].paid <= job[g].used
           /\ job[g].phase \in Phases
           /\ row.generation \in Nat /\ g <= row.generation
BY DEF IInv, TypeOK, Attempts, Rows, Sound

LEMMA CallsByPhase ==
    ASSUME IInv, NEW g \in Generations
    PROVE  /\ job[g].phase \in {"dispatched", "ended", "failed"} =>
                \A i \in DOMAIN queue : queue[i].generation # g
           /\ job[g].phase = "researching" =>
                \A i \in DOMAIN queue : queue[i].generation = g => queue[i].op = "cost"
<1>1. \A i \in DOMAIN queue : queue[i] \in Callbacks /\ Live(queue[i])
  BY DEF IInv, TypeOK, Queued
<1> SUFFICES ASSUME NEW i \in DOMAIN queue, queue[i].generation = g
             PROVE  /\ job[g].phase \notin {"dispatched", "ended", "failed"}
                    /\ job[g].phase = "researching" => queue[i].op = "cost"
  OBVIOUS
<1> DEFINE c == queue[i]
<1>2. c \in Callbacks /\ c.generation = g /\ job[g].phase \in Awaits(c)
  BY <1>1 DEF Live
<1> HIDE DEF c
<1>3. c.op \in {"load", "append", "complete", "fail", "cost"}
  BY <1>2, CallbackShape
<1>4. /\ c.op = "load" => Awaits(c) = {"starting"}
      /\ c.op = "append" => Awaits(c) = {"storing"}
      /\ c.op = "complete" => Awaits(c) = {"completing"}
      /\ c.op = "fail" => Awaits(c) = {"failing"}
      /\ c.op = "cost" => Awaits(c) = {"researching", "storing", "completing", "failing"}
  BY DEF Awaits
<1>5. /\ job[g].phase \notin {"dispatched", "ended", "failed"}
      /\ job[g].phase = "researching" => c.op = "cost"
  BY <1>2, <1>3, <1>4
<1> QED  BY <1>5 DEF c

(* A step of Pi alone: the attempt g becomes a and makes the calls cs. *)
Proceeds(g, a, cs) ==
    /\ UNCHANGED <<row, evidence, ledger, thesis, delayed>>
    /\ job[g] # None
    /\ job' = [job EXCEPT ![g] = a]
    /\ queue' = queue \o cs
    /\ \A i \in DOMAIN queue : queue[i].generation = g =>
                                 queue[i].op = "cost" /\ a.phase \in Awaits(queue[i])
    /\ \A i \in DOMAIN cs : /\ cs[i].generation = g
                            /\ cs[i].op = "append" => cs[i].payment[1] = g
                            /\ a.phase \in Awaits(cs[i])
    /\ \A i, k \in DOMAIN cs : i < k => cs[i].op = "cost"
    /\ a.paid <= a.used
    /\ a.packet = job[g].packet \/ \A s \in Slots : a.packet[s] = None
    /\ a.phase \in {"researching", "storing"} =>
         a.packet = job[g].packet /\ job[g].phase = "researching"

LEMMA CallingStep ==
    ASSUME IInv, NEW g \in Generations, NEW a \in Attempts, NEW cs \in Seq(Callbacks),
           Proceeds(g, a, cs)
    PROVE  IInv'
<1> USE DEF Proceeds
<1>1. Server
  BY Still
<1>2. TypeOK /\ Queued /\ Sound(g)
  BY DEF IInv
<1>3. row'.generation \in Nat /\ row.generation <= row'.generation /\ g <= row'.generation
  BY AttemptShape
<1>4. Sends(g, a, queue, cs)
  BY <1>2, <1>3 DEF Sends, Queued, TypeOK
<1>5. Sound(g)'
  <2>1. job'[g] = a
    BY <1>2 DEF TypeOK
  <2>2. ASSUME NEW s \in Slots
        PROVE  /\ a.packet[s] # None => a.packet[s] = evidence[s]
               /\ a.phase \in {"researching", "storing"} /\ a.packet[s] = None =>
                    evidence[s] = None \/ evidence[s][1] >= g
    BY <1>2 DEF Sound
  <2> QED  BY <1>3, <2>1, <2>2 DEF Sound
<1>6. queue \in Seq(Callbacks)
  BY <1>2 DEF TypeOK
<1> QED  BY <1>1, <1>4, <1>5, <1>6, AttemptStep

LEMMA CostCall ==
    ASSUME NEW g \in Generations, NEW number \in 0..Budget, NEW known \in BOOLEAN
    PROVE  Cost(g, number, known) \in Callbacks
BY DEF Cost, Callbacks

LEMMA PiSteps ==
    ASSUME IInv, NEW g \in Generations, submit(g) \/ Researches(g)
    PROVE  IInv'
<1>1. queue \in Seq(Callbacks) /\ job \in [Generations -> Attempts \cup {None}]
  BY DEF IInv, TypeOK
<1>2. CASE submit(g)
  <2>1. /\ job[g] # None /\ job[g].phase = "dispatched"
        /\ UNCHANGED <<row, evidence, ledger, thesis, delayed>>
    BY <1>2 DEF submit, In
  <2>2. \A i \in DOMAIN queue : queue[i].generation # g
    BY <2>1, CallsByPhase
  <2>3. CASE /\ job' = [job EXCEPT ![g].phase = "starting"]
             /\ Calls(<<[op |-> "load", generation |-> g]>>)
    <3> DEFINE a == [job[g] EXCEPT !.phase = "starting"]
               call == [op |-> "load", generation |-> g]
               cs == <<call>>
    <3>1. a \in Attempts /\ a.paid <= a.used /\ a.packet = job[g].packet /\ a.phase = "starting"
      BY <2>1, AttemptShape DEF Attempts, Phases
    <3>2. /\ call \in Callbacks /\ call.generation = g /\ call.op = "load"
          /\ "starting" \in Awaits(call)
      BY DEF Callbacks, Awaits
    <3>3. job' = [job EXCEPT ![g] = a] /\ queue' = queue \o cs
      BY <2>3 DEF Calls
    <3> HIDE DEF a, call
    <3>4. cs \in Seq(Callbacks) /\ DOMAIN cs = {1} /\ cs[1] = call
      BY <3>2
    <3> HIDE DEF cs
    <3>5. Proceeds(g, a, cs)
      BY <2>1, <2>2, <3>1, <3>2, <3>3, <3>4 DEF Proceeds
    <3> QED  BY <2>1, <2>2, <3>1, <3>2, <3>3, <3>4, <3>5, CallingStep
  <2>4. CASE job' = [job EXCEPT ![g] = Ended("ended")] /\ queue' = queue
    <3> DEFINE a == Ended("ended")
               cs == <<>>
    <3>1. a \in Attempts
      BY ResearchAssumption DEF Ended, Attempts, Phases, EndPhases, Packets, NoPacket
    <3>2. a.paid <= a.used /\ a.phase = "ended" /\ \A s \in Slots : a.packet[s] = None
      BY DEF Ended, NoPacket
    <3>3. queue' = queue \o cs /\ cs \in Seq(Callbacks) /\ \A i \in DOMAIN cs : FALSE
      BY <1>1, <2>4
    <3>4. job' = [job EXCEPT ![g] = a]
      BY <2>4
    <3> HIDE DEF a, cs
    <3>5. Proceeds(g, a, cs)
      BY <2>1, <2>2, <3>1, <3>2, <3>3, <3>4 DEF Proceeds
    <3> QED  BY <2>1, <2>2, <3>1, <3>2, <3>3, <3>4, <3>5, CallingStep
  <2> QED  BY <1>2, <2>3, <2>4 DEF submit
<1>3. ASSUME NEW s \in Slots, searchSettles(g, s)  PROVE IInv'
  <2> DEFINE number == job[g].paid + 1
             a == [job[g] EXCEPT !.phase = "storing", !.paid = number, !.used = @ + 1]
             stored == [op |-> "append", generation |-> g, slot |-> s,
                        payment |-> <<g, number>>]
             cost == Cost(g, number, TRUE)
             cs == <<cost, stored>>
  <2>1. /\ job[g] # None /\ job[g].phase = "researching" /\ job[g].used < Budget
        /\ UNCHANGED <<row, evidence, ledger, thesis, delayed>>
    BY <1>3 DEF searchSettles, MaySearch, In
  <2>2. \A i \in DOMAIN queue : queue[i].generation = g => queue[i].op = "cost"
    BY <2>1, CallsByPhase
  <2>3. number \in 0..Budget /\ number \in Nat /\ number <= job[g].used + 1
    BY <2>1, AttemptShape, ResearchAssumption
  <2>4. job' = [job EXCEPT ![g] = a] /\ queue' = queue \o cs
    BY <1>1, <1>3, <2>1 DEF searchSettles, Calls
  <2>5. /\ stored \in Callbacks /\ stored.generation = g /\ stored.op = "append"
        /\ stored.payment[1] = g /\ "storing" \in Awaits(stored)
    <3>1. <<g, number>> \in Payments /\ <<g, number>>[1] = g
      BY <2>3 DEF Payments
    <3> HIDE DEF number
    <3> QED  BY <3>1 DEF Callbacks, Awaits
  <2>6. cost \in Callbacks /\ cost.generation = g /\ cost.op = "cost"
    <3> HIDE DEF number
    <3> QED  BY <2>3, CostCall DEF Cost
  <2> HIDE DEF number, cost, stored
  <2>7. /\ a \in Attempts /\ a.paid <= a.used /\ a.packet = job[g].packet
        /\ a.phase = "storing"
    <3>1. job[g].used + 1 \in Nat
      BY <2>1, AttemptShape
    <3> QED  BY <2>1, <2>3, <3>1, AttemptShape DEF Attempts, Phases
  <2>8. cs \in Seq(Callbacks) /\ DOMAIN cs = 1 .. 2 /\ cs[1] = cost /\ cs[2] = stored
    BY <2>5, <2>6
  <2> HIDE DEF a, cs
  <2>9. \A c \in Callbacks : c.op = "cost" => "storing" \in Awaits(c)
    BY DEF Awaits
  <2>10. \A i \in DOMAIN queue : queue[i] \in Callbacks
    BY <1>1
  <2>11. ASSUME NEW i \in DOMAIN cs
         PROVE  /\ cs[i].generation = g
                /\ cs[i].op = "append" => cs[i].payment[1] = g
                /\ a.phase \in Awaits(cs[i])
    <3>1. CASE i = 1
      BY <2>6, <2>7, <2>8, <2>9, <3>1
    <3>2. CASE i = 2
      BY <2>5, <2>7, <2>8, <3>2
    <3> QED  BY <2>8, <3>1, <3>2
  <2>12. ASSUME NEW i \in DOMAIN cs, NEW k \in DOMAIN cs, i < k  PROVE cs[i].op = "cost"
    BY <2>6, <2>8, <2>12
  <2>13. Proceeds(g, a, cs)
    BY <2>1, <2>2, <2>4, <2>7, <2>8, <2>9, <2>10, <2>11, <2>12 DEF Proceeds
  <2> QED  BY <2>1, <2>2, <2>4, <2>7, <2>8, <2>9, <2>10, <2>11, <2>12, <2>13, CallingStep
<1>4. ASSUME NEW s \in Slots, searchAbandoned(g, s)  PROVE IInv'
  <2> DEFINE number == job[g].paid + 1
             a == [job[g] EXCEPT !.paid = number, !.used = @ + 1, !.closed = TRUE]
             cost == Cost(g, number, FALSE)
             cs == <<cost>>
  <2>1. /\ job[g] # None /\ job[g].phase = "researching" /\ job[g].used < Budget
        /\ UNCHANGED <<row, evidence, ledger, thesis, delayed>>
    BY <1>4 DEF searchAbandoned, MaySearch, In
  <2>2. \A i \in DOMAIN queue : queue[i].generation = g => queue[i].op = "cost"
    BY <2>1, CallsByPhase
  <2>3. number \in 0..Budget /\ number \in Nat /\ number <= job[g].used + 1
    BY <2>1, AttemptShape, ResearchAssumption
  <2>4. job' = [job EXCEPT ![g] = a] /\ queue' = queue \o cs
    BY <1>1, <1>4, <2>1 DEF searchAbandoned, Calls
  <2>5. cost \in Callbacks /\ cost.generation = g /\ cost.op = "cost"
    <3> HIDE DEF number
    <3> QED  BY <2>3, CostCall DEF Cost
  <2> HIDE DEF number, cost
  <2>6. /\ a \in Attempts /\ a.paid <= a.used /\ a.packet = job[g].packet
        /\ a.phase = "researching"
    <3>1. job[g].used + 1 \in Nat
      BY <2>1, AttemptShape
    <3> QED  BY <2>1, <2>3, <3>1, AttemptShape DEF Attempts, Phases
  <2>7. cs \in Seq(Callbacks) /\ DOMAIN cs = {1} /\ cs[1] = cost
    BY <2>5
  <2> HIDE DEF a, cs
  <2>8. \A c \in Callbacks : c.op = "cost" => "researching" \in Awaits(c)
    BY DEF Awaits
  <2>9. \A i \in DOMAIN queue : queue[i] \in Callbacks
    BY <1>1
  <2>10. Proceeds(g, a, cs)
    BY <2>1, <2>2, <2>4, <2>5, <2>6, <2>7, <2>8, <2>9 DEF Proceeds
  <2> QED  BY <2>1, <2>2, <2>4, <2>5, <2>6, <2>7, <2>8, <2>9, <2>10, CallingStep
<1>5. CASE compose(g)
  <2> DEFINE a == [job[g] EXCEPT !.phase = "completing"]
             call == [op |-> "complete", generation |-> g, packet |-> job[g].packet]
             cs == <<call>>
  <2>1. /\ job[g] # None /\ job[g].phase = "researching"
        /\ UNCHANGED <<row, evidence, ledger, thesis, delayed>>
    BY <1>5 DEF compose, In
  <2>2. \A i \in DOMAIN queue : queue[i].generation = g => queue[i].op = "cost"
    BY <2>1, CallsByPhase
  <2>3. job' = [job EXCEPT ![g] = a] /\ queue' = queue \o cs
    BY <1>5 DEF compose, Calls
  <2>4. /\ a \in Attempts /\ a.paid <= a.used /\ a.packet = job[g].packet
        /\ a.phase = "completing"
    BY <2>1, AttemptShape DEF Attempts, Phases
  <2>5. /\ call \in Callbacks /\ call.generation = g /\ call.op = "complete"
        /\ "completing" \in Awaits(call)
    BY <2>1, AttemptShape DEF Callbacks, Awaits
  <2> HIDE DEF a, call
  <2>6. cs \in Seq(Callbacks) /\ DOMAIN cs = {1} /\ cs[1] = call
    BY <2>5
  <2> HIDE DEF cs
  <2>7. \A c \in Callbacks : c.op = "cost" => "completing" \in Awaits(c)
    BY DEF Awaits
  <2>8. \A i \in DOMAIN queue : queue[i] \in Callbacks
    BY <1>1
  <2>9. Proceeds(g, a, cs)
    BY <2>1, <2>2, <2>3, <2>4, <2>5, <2>6, <2>7, <2>8 DEF Proceeds
  <2> QED  BY <2>1, <2>2, <2>3, <2>4, <2>5, <2>6, <2>7, <2>8, <2>9, CallingStep
<1>6. CASE runFails(g)
  <2> DEFINE a == [job[g] EXCEPT !.phase = "failing"]
             call == [op |-> "fail", generation |-> g]
             cs == <<call>>
  <2>1. /\ job[g] # None /\ job[g].phase = "researching"
        /\ UNCHANGED <<row, evidence, ledger, thesis, delayed>>
    BY <1>6 DEF runFails, In
  <2>2. \A i \in DOMAIN queue : queue[i].generation = g => queue[i].op = "cost"
    BY <2>1, CallsByPhase
  <2>3. job' = [job EXCEPT ![g] = a] /\ queue' = queue \o cs
    BY <1>6 DEF runFails, Calls
  <2>4. /\ a \in Attempts /\ a.paid <= a.used /\ a.packet = job[g].packet
        /\ a.phase = "failing"
    BY <2>1, AttemptShape DEF Attempts, Phases
  <2>5. /\ call \in Callbacks /\ call.generation = g /\ call.op = "fail"
        /\ "failing" \in Awaits(call)
    BY DEF Callbacks, Awaits
  <2> HIDE DEF a, call
  <2>6. cs \in Seq(Callbacks) /\ DOMAIN cs = {1} /\ cs[1] = call
    BY <2>5
  <2> HIDE DEF cs
  <2>7. \A c \in Callbacks : c.op = "cost" => "failing" \in Awaits(c)
    BY DEF Awaits
  <2>8. \A i \in DOMAIN queue : queue[i] \in Callbacks
    BY <1>1
  <2>9. Proceeds(g, a, cs)
    BY <2>1, <2>2, <2>3, <2>4, <2>5, <2>6, <2>7, <2>8 DEF Proceeds
  <2> QED  BY <2>1, <2>2, <2>3, <2>4, <2>5, <2>6, <2>7, <2>8, <2>9, CallingStep
<1> QED  BY <1>2, <1>3, <1>4, <1>5, <1>6 DEF Researches

(* The answer to the first call of the queue is told to its attempt, whether
   Convex executed the call or not. *)
Answered(c, accepted) ==
    /\ 1 \in DOMAIN queue /\ c = queue[1]
    /\ Server /\ row'.generation = row.generation
    /\ c.op = "load" /\ accepted => evidence' = evidence
    /\ c.op = "append" /\ accepted => evidence'[c.slot] = c.payment
    /\ \A d \in delayed' : d \in delayed \/ d = c

LEMMA AnswerStep ==
    ASSUME IInv, NEW c \in Callbacks, NEW accepted \in BOOLEAN, Answered(c, accepted),
           c.op # "cost", Continues(c, 1, accepted)
    PROVE  IInv'
<1> DEFINE g == c.generation
           fail == [op |-> "fail", generation |-> g]
<1>0. 1 \in DOMAIN queue /\ c = queue[1] /\ Server /\ row'.generation = row.generation
  BY DEF Answered
<1>1. /\ TypeOK /\ Queued /\ \A h \in Generations : Sound(h)
      /\ IsFiniteSet(Slots)
  BY ResearchAssumption DEF IInv
<1>2. /\ Own(c) /\ g \in Generations /\ job[g] \in Attempts /\ job[g].phase \in Awaits(c)
  BY <1>0, <1>1, CallbackShape DEF Queued, Live
<1>3. /\ row.generation \in Nat /\ g \in Nat /\ g <= row.generation
  BY <1>1, <1>2 DEF TypeOK, Rows, Own, Generations
<1>4. /\ Rest(1) \in Seq(Callbacks)
      /\ (\A i \in DOMAIN Rest(1) : Live(Rest(1)[i])) /\ InOrder(Rest(1))
      /\ \A i \in DOMAIN Rest(1) : Rest(1)[i].generation # g
  BY <1>0, RestOfQueue
<1>5. \A d \in delayed' : d \in delayed \/ Own(d)'
  BY <1>0, <1>2 DEF Answered, Own
<1>6. delayed' \subseteq Callbacks
  BY <1>1 DEF Answered, TypeOK
<1>7. fail \in Callbacks /\ fail.generation = g /\ fail.op = "fail" /\ Awaits(fail) = {"failing"}
  BY <1>2 DEF Callbacks, Awaits
<1>8. job \in [Generations -> Attempts \cup {None}]
  BY <1>1 DEF TypeOK
<1>9. ASSUME NEW a \in Attempts, job' = [job EXCEPT ![g] = a], Sound(g)',
             \/ queue' = Rest(1)
             \/ queue' = Append(Rest(1), fail) /\ a.phase = "failing"
      PROVE  IInv'
  <2> HIDE DEF g, fail, Rest
  <2>1. PICK cs \in Seq(Callbacks) :
            /\ queue' = Rest(1) \o cs
            /\ \A i \in DOMAIN cs : i = 1 /\ cs[i] = fail /\ a.phase = "failing"
    <3>1. CASE queue' = Rest(1)
      <4>1. <<>> \in Seq(Callbacks) /\ Rest(1) \o <<>> = Rest(1) /\ DOMAIN <<>> = {}
        BY <1>4
      <4> QED  BY <3>1, <4>1
    <3>2. CASE queue' = Append(Rest(1), fail) /\ a.phase = "failing"
      <4>1. <<fail>> \in Seq(Callbacks) /\ DOMAIN <<fail>> = {1} /\ <<fail>>[1] = fail
        BY <1>7
      <4>2. Append(Rest(1), fail) = Rest(1) \o <<fail>>
        BY <1>4, <1>7, AppendIsConcat
      <4> QED  BY <3>2, <4>1, <4>2
    <3> QED  BY <1>9, <3>1, <3>2
  <2>2. \A i \in DOMAIN cs : /\ cs[i].generation = g
                             /\ cs[i].op = "append" => cs[i].payment[1] = g
                             /\ a.phase \in Awaits(cs[i])
    BY <1>7, <2>1
  <2>3. \A i, k \in DOMAIN cs : ~(i < k)
    BY <2>1
  <2>4. Sends(g, a, Rest(1), cs)
    BY <1>0, <1>3, <1>4, <1>5, <1>6, <1>9, <2>1, <2>2, <2>3 DEF Sends
  <2> QED  BY <1>0, <1>2, <1>4, <1>9, <2>4, AttemptStep DEF g
<1>10. /\ job[g].packet \in Packets /\ job[g].used \in Nat /\ job[g].paid \in 0..Budget
       /\ job[g].closed \in BOOLEAN /\ job[g].phase \in Phases
  BY <1>2 DEF Attempts
<1>11. job[g] # None /\ job[g].paid <= job[g].used
       /\ \A s \in Slots : job[g].packet[s] # None => job[g].packet[s] = evidence[s]
  BY <1>1, <1>2, NoneAssumption DEF Sound
<1>12. evidence \in Packets /\ evidence' \in Packets
       /\ \A s \in Slots : evidence[s] # None => evidence'[s] = evidence[s]
  BY <1>0, <1>1 DEF TypeOK, Server
<1>13. g <= row'.generation
  BY <1>0, <1>3
<1>14. ASSUME job' = [job EXCEPT ![g].phase = "failing"],
              queue' = Append(Rest(1), fail)
       PROVE  IInv'
  <2> DEFINE a == [job[g] EXCEPT !.phase = "failing"]
  <2>1. /\ a \in Attempts /\ a.phase = "failing" /\ a.packet = job[g].packet
        /\ a.paid = job[g].paid /\ a.used = job[g].used
    BY <1>2 DEF Attempts, Phases
  <2>2. job' = [job EXCEPT ![g] = a]
    BY <1>14
  <2> HIDE DEF a, g, fail, Rest
  <2>3. job'[g] = a
    BY <1>2, <1>8, <2>2
  <2>4. Sound(g)'
    BY <1>11, <1>12, <1>13, <2>1, <2>3 DEF Sound
  <2> QED  BY <1>9, <1>14, <2>1, <2>2, <2>4
<1>15. ASSUME NEW phase \in EndPhases, job' = [job EXCEPT ![g] = Ended(phase)],
              queue' = Rest(1)
       PROVE  IInv'
  <2>1. job'[g] = Ended(phase)
    BY <1>2, <1>8, <1>15
  <2>2. Ended(phase) \in Attempts /\ Sound(g)'
    BY <1>2, <1>13, <2>1, EndedSound
  <2> HIDE DEF g, Ended, Rest
  <2> QED  BY <1>9, <1>15, <2>2
<1>16. CASE c.op = "load" /\ accepted
  <2> DEFINE a == Resumed(job[g])
  <2>1. job' = [job EXCEPT ![g] = a] /\ queue' = Rest(1) /\ evidence' = evidence
    BY <1>16 DEF Continues, Answered
  <2>2. /\ Max2(job[g].used, Cardinality(Stored)) \in Nat
        /\ job[g].paid <= Max2(job[g].used, Cardinality(Stored))
    <3>1. Stored \subseteq Slots
      BY DEF Stored
    <3>2. Cardinality(Stored) \in Nat
      BY <1>1, <3>1, FS_Subset, FS_CardinalityType
    <3> HIDE DEF Stored
    <3> QED  BY <1>10, <1>11, <3>2 DEF Max2
  <2>3. a \in Attempts /\ a.packet = evidence /\ a.paid <= a.used
    <3> HIDE DEF Max2, Stored
    <3> QED  BY <1>2, <1>10, <1>12, <2>2 DEF Resumed, Attempts, Phases
  <2> HIDE DEF a, g, fail, Rest
  <2>4. job'[g] = a
    BY <1>2, <1>8, <2>1, <2>3
  <2>5. Sound(g)'
    BY <1>13, <2>1, <2>3, <2>4 DEF Sound
  <2> QED  BY <1>9, <2>1, <2>3, <2>5
<1>17. CASE c.op = "append"
  <2> DEFINE a == Keeps(job[g], c, accepted)
  <2>1. job' = [job EXCEPT ![g] = a] /\ queue' = Rest(1)
    BY <1>17 DEF Continues
  <2>2. c.slot \in Slots /\ c.payment \in Payments /\ c.payment[1] = g
    BY <1>2, <1>17, CallbackShape DEF Own
  <2>3. job[g].phase = "storing"
    BY <1>2, <1>17 DEF Awaits
  <2>4. /\ a \in Attempts /\ a.paid = job[g].paid /\ a.used = job[g].used
        /\ a.packet = [job[g].packet EXCEPT ![c.slot] = IF accepted THEN c.payment ELSE @]
    <3>1. [job[g].packet EXCEPT ![c.slot] = IF accepted THEN c.payment ELSE @] \in Packets
      BY <1>10, <2>2 DEF Packets
    <3> QED  BY <1>2, <1>10, <3>1 DEF Keeps, Attempts, Phases
  <2>5. accepted => evidence'[c.slot] = c.payment
    BY <1>17 DEF Answered
  <2> HIDE DEF a
  <2>6. ASSUME NEW s \in Slots
        PROVE  /\ a.packet[s] # None => a.packet[s] = evidence'[s]
               /\ a.packet[s] = None => evidence'[s] = None \/ evidence'[s][1] >= g
    <3>1. job[g].packet[s] = None => evidence[s] = None \/ evidence[s][1] >= g
      BY <1>1, <1>2, <1>11, <2>3 DEF Sound
    <3>2. job[g].packet[s] = None => evidence'[s] = None \/ evidence'[s][1] >= g
      <4>1. CASE evidence'[s] = evidence[s]
        BY <3>1, <4>1
      <4>2. CASE evidence[s] = None /\ evidence'[s][1] = row.generation
        BY <1>3, <4>2
      <4> QED  BY <1>0, <4>1, <4>2 DEF Server
    <3>3. job[g].packet[s] # None => job[g].packet[s] = evidence'[s]
      BY <1>11, <1>12
    <3>4. CASE s = c.slot /\ accepted
      <4>1. a.packet[s] = c.payment /\ evidence'[s] = c.payment
        BY <1>10, <2>4, <2>5, <3>4 DEF Packets
      <4>2. c.payment[1] >= g
        BY <1>3, <2>2
      <4> QED  BY <4>1, <4>2
    <3>5. CASE ~(s = c.slot /\ accepted)
      <4>1. a.packet[s] = job[g].packet[s]
        BY <1>10, <2>4, <3>5 DEF Packets
      <4> QED  BY <3>2, <3>3, <4>1
    <3> QED  BY <3>4, <3>5
  <2> HIDE DEF g, fail, Rest
  <2>7. job'[g] = a
    BY <1>2, <1>8, <2>1, <2>4
  <2>8. Sound(g)'
    BY <1>11, <1>13, <2>4, <2>6, <2>7 DEF Sound
  <2> QED  BY <1>9, <2>1, <2>4, <2>8
<1>18. c.op \in {"load", "append", "complete", "fail", "cost"}
  BY CallbackShape
<1>19. CASE c.op = "complete" /\ accepted
  <2>1. job' = [job EXCEPT ![g] = Ended("ended")] /\ queue' = Rest(1)
    BY <1>19 DEF Continues
  <2> QED  BY <1>15, <2>1 DEF EndPhases
<1>20. CASE c.op = "fail"
  <2>1. job' = [job EXCEPT ![g] = Ended("failed")] /\ queue' = Rest(1)
    BY <1>20 DEF Continues
  <2> QED  BY <1>15, <2>1 DEF EndPhases
<1>21. CASE c.op \in {"load", "complete"} /\ ~accepted
  BY <1>14, <1>21 DEF Continues
<1> QED  BY <1>16, <1>17, <1>18, <1>19, <1>20, <1>21

(* The report of a cost leaves its attempt as it is. *)
LEMMA CostStep ==
    ASSUME IInv, NEW c \in Callbacks, NEW accepted \in BOOLEAN, Answered(c, accepted),
           job' = job, queue' \in {queue, Rest(1)}
    PROVE  IInv'
<1>1. /\ queue \in Seq(Callbacks) /\ delayed \subseteq Callbacks /\ Own(c)
      /\ (\A i \in DOMAIN queue : Live(queue[i])) /\ InOrder(queue)
      /\ \A d \in delayed : Own(d)
  BY DEF IInv, TypeOK, Queued, Live, Answered
<1>2. /\ Rest(1) \in Seq(Callbacks)
      /\ (\A i \in DOMAIN Rest(1) : Live(Rest(1)[i])) /\ InOrder(Rest(1))
  BY RestOfQueue DEF Answered
<1>3. \A d \in delayed' : d \in Callbacks /\ Own(d)
  BY <1>1 DEF Answered
<1>4. CASE queue' = queue
  <2>1. Leaves(queue)
    BY <1>1, <1>3, <1>4 DEF Leaves
  <2> QED  BY <1>1, <2>1, LeavingStep DEF Answered
<1>5. CASE queue' = Rest(1)
  <2>1. Leaves(Rest(1))
    BY <1>2, <1>3, <1>5 DEF Leaves
  <2> QED  BY <1>2, <2>1, LeavingStep DEF Answered
<1> QED  BY <1>4, <1>5

LEMMA CallbackSteps ==
    ASSUME IInv, callback \/ callbackFails
    PROVE  /\ IInv'
           /\ row.status \in Final => row'.status = row.status /\ evidence' = evidence
<1>1. 1 \in DOMAIN queue
  BY DEF callback, callbackFails, NextCalls
<1>2. PICK c \in Callbacks : c = queue[1]
  BY <1>1 DEF IInv, TypeOK
<1>3. Own(c)
  BY <1>1, <1>2 DEF IInv, Queued, Live
<1>4. CASE callback
  <2>1. Executes(c) /\ Continues(c, 1, Accepts(c)) /\ delayed' = delayed
    BY <1>2, <1>4 DEF callback, NextCalls
  <2>2. PICK accepted \in BOOLEAN : accepted = Accepts(c)
    <3>1. Accepts(c) \in BOOLEAN
      BY DEF Accepts
    <3> QED  BY <3>1
  <2>3. Continues(c, 1, accepted)
    BY <2>1, <2>2
  <2>4. Answered(c, accepted)
    BY <1>1, <1>2, <1>3, <2>1, <2>2, ExecutesServer DEF Answered
  <2>5. CASE c.op = "cost"
    <3>1. job' = job /\ queue' = Rest(1)
      BY <2>3, <2>5 DEF Continues
    <3> QED  BY <1>3, <2>1, <2>4, <3>1, CostStep, ExecutesServer
  <2>6. CASE c.op # "cost"
    BY <1>3, <2>1, <2>3, <2>4, <2>6, AnswerStep, ExecutesServer
  <2> QED  BY <2>5, <2>6
<1>5. CASE callbackFails
  <2>1. /\ \/ Executes(c) /\ delayed' = delayed
           \/ /\ \A d \in delayed' : d \in delayed \/ d = c
              /\ UNCHANGED <<row, evidence, ledger, thesis>>
        /\ c.op # "cost" => Continues(c, 1, FALSE)
        /\ c.op = "cost" => job' = job /\ queue' \in {queue, Rest(1)}
    BY <1>2, <1>5 DEF callbackFails, NextCalls
  <2>2. /\ Server /\ row'.generation = row.generation
        /\ \A d \in delayed' : d \in delayed \/ d = c
        /\ row.status \in Final => row'.status = row.status /\ evidence' = evidence
    <3>1. CASE Executes(c) /\ delayed' = delayed
      BY <1>3, <3>1, ExecutesServer
    <3>2. CASE /\ UNCHANGED <<row, evidence, ledger, thesis>>
               /\ \A d \in delayed' : d \in delayed \/ d = c
      BY <3>2, Still
    <3> QED  BY <2>1, <3>1, <3>2
  <2>3. Answered(c, FALSE)
    BY <1>1, <1>2, <2>2 DEF Answered
  <2>4. CASE c.op = "cost"
    BY <2>1, <2>2, <2>3, <2>4, CostStep
  <2>5. CASE c.op # "cost"
    BY <2>1, <2>2, <2>3, <2>5, AnswerStep
  <2> QED  BY <2>2, <2>4, <2>5
<1> QED  BY <1>4, <1>5

LEMMA ArrivalStep ==
    ASSUME IInv, NEW c \in delayed, Arrives(c)
    PROVE  /\ IInv'
           /\ row.status \in Final => row'.status = row.status /\ evidence' = evidence
<1>1. c \in Callbacks /\ Own(c)
  BY DEF IInv, TypeOK, Queued
<1>2. Executes(c) /\ UNCHANGED <<job, queue>> /\ delayed' \subseteq delayed
  BY DEF Arrives
<1> QED  BY <1>1, <1>2, ExecutesServer, ServerStep

LEMMA RestartStep ==
    ASSUME IInv, RestartPi
    PROVE  IInv'
<1> DEFINE running == {g \in Generations :
                         job[g] # None /\ job[g].phase \notin EndPhases \cup {"dispatched"}}
<1>1. /\ job' = [g \in Generations |-> IF g \in running THEN Ended("ended") ELSE job[g]]
      /\ queue' = <<>>
      /\ UNCHANGED <<row, evidence, ledger, thesis, delayed>>
  BY DEF RestartPi
<1>2. TypeOK /\ \A c \in delayed : Own(c)
  BY DEF IInv, Queued
<1>3. Server
  BY <1>1, Still
<1>4. ASSUME NEW g \in Generations
      PROVE  Sound(g)' /\ job'[g] \in Attempts \cup {None}
  <2>1. CASE g \in running
    <3>1. job'[g] = Ended("ended") /\ "ended" \in EndPhases
      BY <1>1, <2>1 DEF EndPhases
    <3>2. g <= row'.generation
      BY <1>1, <2>1, AttemptShape
    <3> QED  BY <3>1, <3>2, EndedSound
  <2>2. CASE g \notin running
    <3>1. job'[g] = job[g]
      BY <1>1, <2>2
    <3> QED  BY <1>2, <1>3, <3>1, SoundStays DEF TypeOK
  <2> QED  BY <2>1, <2>2
<1>5. job' \in [Generations -> Attempts \cup {None}]
  BY <1>1, <1>4
<1>6. queue' \in Seq(Callbacks) /\ DOMAIN queue' = {}
  BY <1>1
<1>7. TypeOK'
  BY <1>1, <1>2, <1>5, <1>6 DEF TypeOK
<1>8. Queued'
  BY <1>1, <1>2, <1>6 DEF Queued, InOrder, Own
<1>9. Leased' /\ IsFiniteSet(ledger'.events)
  BY <1>3 DEF Server
<1> QED  BY <1>4, <1>7, <1>8, <1>9 DEF IInv

-----------------------------------------------------------------------------
(* The theorems. *)

LEMMA InitInv == Init => IInv
<1> SUFFICES ASSUME Init  PROVE IInv
  OBVIOUS
<1>1. row \in Rows /\ row.lease = "none" /\ row.generation = 0
  BY ResearchAssumption DEF Init, Rows
<1>2. evidence \in Packets
  BY DEF Init, Packets
<1>3. ledger \in [events : SUBSET Events, observed : Nat] /\ ledger.events = {}
  BY DEF Init
<1>4. IsFiniteSet(ledger.events)
  BY <1>3, FS_EmptySet
<1>5. thesis \in Seq({"this", "other"}) /\ DOMAIN thesis = {}
      /\ queue \in Seq(Callbacks) /\ DOMAIN queue = {} /\ delayed = {}
  BY DEF Init
<1>6. job \in [Generations -> Attempts \cup {None}] /\ \A g \in Generations : job[g] = None
  BY DEF Init
<1> QED
  BY <1>1, <1>2, <1>3, <1>4, <1>5, <1>6 DEF IInv, TypeOK, Leased, Sound, Queued, InOrder

(* The step of the invariant, with what it may not do to a row that is done. *)
LEMMA Step ==
    ASSUME IInv, Next
    PROVE  /\ IInv'
           /\ row.status \in Final => row'.status = row.status /\ evidence' = evidence
<1>1. CASE \/ create \/ dispatch \/ LeaseExpires \/ recoverBatch \/ cancelUnstarted
           \/ retryEdition \/ otherThesis
           \/ \E g \in Generations : sendJobFails(g)
  BY <1>1, ConvexSteps
<1>2. ASSUME NEW g \in Generations, submit(g) \/ Researches(g)
      PROVE  IInv' /\ row'.status = row.status /\ evidence' = evidence
  <2>1. row' = row /\ evidence' = evidence
    BY <1>2 DEF submit, Researches, searchSettles, searchAbandoned, compose, runFails
  <2> QED  BY <1>2, <2>1, PiSteps
<1>3. CASE callback \/ callbackFails
  BY <1>3, CallbackSteps
<1>4. CASE \E c \in delayed : Arrives(c)
  BY <1>4, ArrivalStep
<1>5. CASE RestartPi
  BY <1>5, RestartStep DEF RestartPi
<1> QED  BY <1>1, <1>2, <1>3, <1>4, <1>5 DEF Next

LEMMA StepInv == IInv /\ [Next]_researchVars => IInv'
<1>1. ASSUME IInv, Next  PROVE IInv'
  BY <1>1, Step
<1>2. ASSUME IInv, UNCHANGED researchVars  PROVE IInv'
  <2>1. /\ Server /\ job' = job /\ queue' = queue /\ delayed' = delayed
    BY <1>2, Still DEF researchVars
  <2> QED  BY <1>2, <2>1, ServerStep
<1> QED  BY <1>1, <1>2

LEMMA Invariant == Spec => []IInv
BY InitInv, StepInv, PTL DEF Spec

(* Rows, attempts and callbacks have their shapes, and no attempt pays for more
   than the budget of its edition. *)
THEOREM TypeCorrect == Spec => []TypeOK
<1>1. IInv => TypeOK
  BY DEF IInv
<1> QED  BY <1>1, Invariant, PTL

(* An attempt that has reported its failure has no payment left to report: the
   reports were answered or given up. *)
THEOREM PaymentsBeforeFailureHolds == Spec => []PaymentsBeforeFailure
<1>1. IInv => PaymentsBeforeFailure
  <2> SUFFICES ASSUME IInv, NEW g \in Generations, In(g, "failed")
               PROVE  \A i \in DOMAIN queue : queue[i].generation # g
    BY DEF PaymentsBeforeFailure
  <2> QED  BY CallsByPhase DEF In
<1> QED  BY <1>1, Invariant, PTL

(* What the holder of the lease has in hand is what is stored, so that its
   result is not refused. *)
THEOREM PacketIsStoredHolds == Spec => []PacketIsStored
<1>1. IInv => PacketIsStored
  BY DEF IInv, Sound, PacketIsStored
<1> QED  BY <1>1, Invariant, PTL

(* An edition revises a thesis once, and only the revision it was given. *)
THEOREM ThesisUpdatesFollowMemoryHolds == Spec => []ThesisUpdatesFollowMemory
<1>1. IInv => ThesisUpdatesFollowMemory
  BY DEF IInv, Leased, ThesisUpdatesFollowMemory
<1> QED  BY <1>1, Invariant, PTL

(* Late failures and old attempts leave a composed, cancelled or skipped
   edition as it is. *)
THEOREM AcceptedIsFinalHolds == Spec => AcceptedIsFinal
<1>1. IInv /\ [Next]_researchVars =>
        [row.status \in {"composed", "cancelled", "skipped_late"} =>
            row'.status = row.status /\ UNCHANGED evidence]_researchVars
  BY Step DEF Final
<1> QED  BY <1>1, Invariant, PTL DEF Spec, AcceptedIsFinal

(* A retry does not pay for a search whose result an earlier attempt stored. *)
THEOREM PaidOnlyMissingHolds == Spec => PaidOnlyMissing
<1>1. IInv => [\A g \in Generations, s \in Slots :
                 searchSettles(g, s) \/ searchAbandoned(g, s) =>
                    evidence[s] = None \/ evidence[s][1] >= g]_researchVars
  <2> SUFFICES ASSUME IInv, NEW g \in Generations, NEW s \in Slots, MaySearch(g, s)
               PROVE  evidence[s] = None \/ evidence[s][1] >= g
    BY DEF searchSettles, searchAbandoned
  <2> QED  BY DEF IInv, Sound, MaySearch, In
<1> QED  BY <1>1, Invariant, PTL DEF PaidOnlyMissing

=============================================================================
