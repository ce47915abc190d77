------------------------- MODULE BuildWorkersProofs -------------------------
(* What the transport sends is what was built for it, but for jobs given to a worker
   that was abandoned at another, and nothing is freed under a thread that uses it:
   for every set of streams and tiles and any number of builds and faults. *)
EXTENDS BuildWorkers, WellFoundedInduction, TLAPS

-----------------------------------------------------------------------------
(* The inductive invariant. *)

Building == {"submit", "wait", "previous", "built", "send"}
Ending   == {"stop", "join", "done"}

(* Where the main thread is. *)
Phase ==
    /\ pc \in Building => mask # {} /\ todo \subseteq mask
    /\ pc \in {"previous", "built"} => todo = mask
    /\ pc \in {"built", "send"} => ~inflight.active
    /\ late /\ pc \in {"submit", "wait"} => ~inflight.active
    /\ inflight.active => inflight.slot = 1 - slot
    /\ stop # {} => pc \in Ending
    /\ pc \in Ending \cup {"reconnect"} => queue = << >>
    /\ pc \in Ending => ~inflight.active

(* An item of the transport belongs to the frame in flight, or to the one that
   is being handed over. *)
Flying(i)     == inflight.active /\ i.slot = inflight.slot /\ i.tile \in inflight.tiles
HandedOver(i) == pc = "send" /\ i.slot = slot /\ i.tile \in mask \ todo

(* A packet that is as it was built stays so: the worker is at no job for its
   slot, and none waits. *)
Kept(i) ==
    /\ buffer[i.tile][i.slot] = i.build
    /\ job[i.tile].has => job[i.tile].slot # i.slot
    /\ \A r \in running[i.tile] : r.slot # i.slot

Queued ==
    \A n \in DOMAIN queue :
        /\ result[queue[n].tile][queue[n].slot] = "pending"
        /\ queue[n].overlapped \/ Kept(queue[n])
        /\ Flying(queue[n]) \/ HandedOver(queue[n])

(* The tiles that got a job of this build, and those waited for since. *)
Handed == IF pc = "submit" THEN mask \ todo
          ELSE IF pc \in Building THEN mask ELSE {}
Waited == IF pc = "wait" THEN mask \ todo
          ELSE IF pc \in Building \ {"submit"} THEN mask ELSE {}

(* A worker that got its job of this build while it was at rest is at this job and
   no other, and is done when the job is. *)
AtItsJob(t) ==
    /\ job[t].has => running[t] = {} /\ ~job[t].done
    /\ \A r \in running[t] : r.slot = slot /\ r.build = builds /\ ~job[t].done
    /\ job[t].done /\ job[t].rc = 0 => buffer[t][slot] = builds
    /\ t \in Waited => job[t].done /\ job[t].rc = 0

Jobs ==
    \A t \in Handed : /\ job[t].slot = slot /\ job[t].build = builds
                      /\ t \notin overlapped => AtItsJob(t)

(* Outside the two loops over the workers only those that were abandoned are at a
   job. *)
Strays ==
    /\ overlapped \subseteq abandoned
    /\ \A t \in Tiles : job[t].has \/ running[t] # {}
                          => t \in abandoned \/ t \in Handed \ Waited
    /\ \A t \in exited : running[t] = {}

IInv == TypeOK /\ Phase /\ Queued /\ Jobs /\ Strays
-----------------------------------------------------------------------------
(* Lemmas. *)

LEMMA MinIn ==
    ASSUME NEW S \in SUBSET Nat, S # {}
    PROVE  Min(S) \in S
<1>1. PICK x \in S : \A y \in S : ~ (<<y, x>> \in OpToRel(<, Nat))
    BY WFMin, NatLessThanWellFounded, Zenon
<1>2. \A y \in S : ~ (y < x)
    BY <1>1 DEF OpToRel
<1>3. \A y \in S : x <= y
    BY <1>2, SMT
<1>. QED
    BY <1>3, Zenon DEF Min

(* The first tile that is left. *)
LEMMA First ==
    ASSUME TypeOK, todo # {}
    PROVE  Min(todo) \in todo /\ Min(todo) \in Tiles
<1>1. todo \in SUBSET Nat
    BY BuildAssumption DEF TypeOK, BuildAssumption
<1>. QED
    BY <1>1, MinIn DEF TypeOK

(* What a change of one cell does. *)
LEMMA Cell ==
    ASSUME NEW V, NEW B \in [Tiles -> [Slots -> V]], NEW t \in Tiles, NEW s \in Slots,
           NEW v \in V, NEW C, C = [B EXCEPT ![t][s] = v]
    PROVE  /\ C \in [Tiles -> [Slots -> V]]
           /\ C[t][s] = v
           /\ \A x \in Tiles, y \in Slots : x # t \/ y # s => C[x][y] = B[x][y]
    OBVIOUS

LEMMA AnItem ==
    ASSUME TypeOK, NEW n \in DOMAIN queue
    PROVE  queue[n] \in Item
    BY DEF TypeOK

(* When no frame is in flight, or it has arrived, the transport has nothing but
   what is just being handed over. *)
LEMMA NothingQueued ==
    ASSUME TypeOK, Queued, pc # "send", inflight.active => InflightDone
    PROVE  queue = << >>
<1>. SUFFICES ASSUME queue # << >> PROVE FALSE
    OBVIOUS
<1>0. queue \in Seq(Item)
    BY DEF TypeOK
<1>1. 1 \in DOMAIN queue
    BY <1>0
<1>2. result[queue[1].tile][queue[1].slot] = "pending" /\ Flying(queue[1])
    BY <1>1 DEF Queued, HandedOver
<1>3. inflight.active /\ result[queue[1].tile][inflight.slot] \in {"sent", "failed"}
    BY <1>2 DEF Flying, InflightDone
<1>. QED
    BY <1>2, <1>3 DEF Flying

(* Between and after the two loops over the workers every job that was handed out
   was waited for, or the wait was given up. *)
LEMMA NoneBuilding ==
    ASSUME pc \notin {"submit", "wait"}
    PROVE  Handed \ Waited = {}
    BY DEF Handed, Waited, Building

LEMMA Initially == Init => IInv
<1>. SUFFICES ASSUME Init PROVE IInv
    OBVIOUS
<1>1. /\ pc = "top" /\ mask = {} /\ todo = {} /\ late = FALSE /\ slot = 0
      /\ inflight = Idle /\ builds = 0 /\ stopRequested = FALSE
      /\ stop = {} /\ exited = {} /\ freed = {} /\ queue = << >> /\ faults = 0
      /\ abandoned = {} /\ overlapped = {}
    BY DEF Init
<1>2. job \in [Tiles -> Job]
    BY BuildAssumption DEF Init, BuildAssumption, Slots, Job
<1>3. /\ running \in [Tiles -> SUBSET Task]
      /\ \A t \in Tiles : running[t] = {} /\ job[t].has = FALSE /\ job[t].done = FALSE
    BY DEF Init
<1>4. /\ buffer \in [Tiles -> [Slots -> 0 .. Torn]]
      /\ result \in [Tiles -> [Slots -> Result]]
    BY BuildAssumption DEF Init, BuildAssumption, Torn, Result
<1>5. /\ queue \in Seq(Item)
      /\ DOMAIN queue = {}
    BY <1>1
<1>6. inflight \in [active : BOOLEAN, slot : Slots, tiles : SUBSET Tiles]
    BY <1>1 DEF Idle, Slots
<1>7. builds \in 0 .. MaxBuilds /\ slot \in Slots
    BY <1>1, BuildAssumption DEF Slots, BuildAssumption
<1>8. TypeOK
    BY <1>1, <1>2, <1>3, <1>4, <1>5, <1>6, <1>7 DEF TypeOK
<1>. QED
    BY <1>1, <1>3, <1>5, <1>8 DEF IInv, Phase, Queued, Jobs, Strays, Building, Ending,
       Handed, Waited, Idle

-----------------------------------------------------------------------------
(* The workers. *)

(* What a step of the worker of t does to a packet that was kept, when it writes
   into slot y and goes on with jobs for that slot only. *)
LEMMA KeptAcross ==
    ASSUME IInv, NEW t \in Tiles, NEW n \in DOMAIN queue, Kept(queue[n]),
           UNCHANGED queue,
           NEW y \in Slots, queue[n].tile = t => y # queue[n].slot,
           \A x \in Tiles \ {t} : job'[x] = job[x] /\ running'[x] = running[x],
           \A x \in Tiles, z \in Slots : x # t \/ z # y => buffer'[x][z] = buffer[x][z],
           job'[t].has => job[t].has /\ job'[t].slot = job[t].slot,
           \A r \in running'[t] : r.slot = y
    PROVE  Kept(queue[n])'
<1>1. queue[n].tile \in Tiles /\ queue[n].slot \in Slots
    BY AnItem DEF IInv, Item
<1>2. CASE queue[n].tile = t
    BY <1>1, <1>2 DEF Kept
<1>3. CASE queue[n].tile # t
    BY <1>1, <1>3 DEF Kept
<1>. QED
    BY <1>2, <1>3

LEMMA TakeJobStep ==
    ASSUME IInv, NEW t \in Tiles, TakeJob(t)
    PROVE  IInv'
<1>. DEFINE y == job[t].slot
<1>1. job[t].has /\ running[t] = {} /\ t \notin exited
    BY DEF TakeJob
<1>2. /\ UNCHANGED <<pc, mask, todo, late, slot, inflight, builds, stopRequested>>
      /\ UNCHANGED <<stop, exited, result, freed, queue, faults, abandoned, overlapped>>
      /\ UNCHANGED <<Handed, Waited>>
    BY DEF TakeJob, mainVars, history, Handed, Waited
<1>3. job[t] \in Job /\ y \in Slots
    BY DEF IInv, TypeOK, Job
<1>4. /\ job' \in [Tiles -> Job]
      /\ \A x \in Tiles \ {t} : job'[x] = job[x]
      /\ job'[t].has = FALSE /\ job'[t].done = job[t].done /\ job'[t].rc = job[t].rc
      /\ job'[t].slot = job[t].slot /\ job'[t].build = job[t].build
    BY <1>3 DEF IInv, TypeOK, TakeJob, Job
<1>5. /\ running' \in [Tiles -> SUBSET Task]
      /\ \A x \in Tiles \ {t} : running'[x] = running[x]
      /\ running'[t] = {[slot |-> y, build |-> job[t].build]}
    BY <1>1, <1>3 DEF IInv, TypeOK, TakeJob, Job, Task
<1>6. /\ buffer' \in [Tiles -> [Slots -> 0 .. Torn]]
      /\ \A x \in Tiles, z \in Slots : x # t \/ z # y => buffer'[x][z] = buffer[x][z]
  <2>1. buffer \in [Tiles -> [Slots -> 0 .. Torn]] /\ Torn \in 0 .. Torn
    BY BuildAssumption DEF IInv, TypeOK, Torn, BuildAssumption
  <2>2. buffer' = [buffer EXCEPT ![t][y] = Torn]
    BY DEF TakeJob
  <2>. QED
    BY <1>3, <2>1, <2>2, Cell
<1>. HIDE DEF y
<1>7. TypeOK'
  <2>0. \A x \in Tiles : \A q, o \in running[x] : q = o
    BY DEF IInv, TypeOK
  <2>1. \A x \in Tiles : \A q, o \in running'[x] : q = o
    BY <1>5, <2>0
  <2>2. /\ UNCHANGED queue
        /\ \A m, n \in DOMAIN queue : queue[m].tile = queue[n].tile => m = n
    BY <1>2 DEF IInv, TypeOK
  <2>. QED
    BY <1>2, <1>4, <1>5, <1>6, <2>1, <2>2 DEF IInv, TypeOK
<1>8. Phase'
    BY <1>2 DEF IInv, Phase
<1>9. Queued'
  <2>. SUFFICES ASSUME NEW n \in DOMAIN queue, Kept(queue[n])
                PROVE  Kept(queue[n])'
    BY <1>2 DEF IInv, Queued, Flying, HandedOver
  <2>1. queue[n].tile = t => y # queue[n].slot
    BY <1>1 DEF Kept, y
  <2>2. \A r \in running'[t] : r.slot = y
    BY <1>5
  <2>. QED
    BY <1>2, <1>3, <1>4, <1>5, <1>6, <2>1, <2>2, KeptAcross
<1>10. Jobs'
  <2>. SUFFICES ASSUME NEW x \in Handed
                PROVE  /\ job'[x].slot = slot /\ job'[x].build = builds
                       /\ x \notin overlapped => AtItsJob(x)'
    BY <1>2 DEF Jobs
  <2>1. /\ x \in Tiles /\ slot \in Slots /\ job[x].slot = slot /\ job[x].build = builds
        /\ x \notin overlapped => AtItsJob(x)
    BY DEF IInv, TypeOK, Handed, Jobs
  <2>2. CASE x # t
    BY <1>2, <1>4, <1>5, <1>6, <2>1, <2>2 DEF AtItsJob
  <2>3. CASE x = t
    BY <1>1, <1>2, <1>4, <1>5, <2>1, <2>3 DEF AtItsJob, y
  <2>. QED
    BY <2>2, <2>3
<1>11. Strays'
  <2>1. exited \subseteq Tiles
    BY DEF IInv, TypeOK
  <2>2. job'[t].has \/ running'[t] # {} => t \in abandoned \/ t \in Handed \ Waited
    BY <1>1, <1>2, <1>4, <1>5 DEF IInv, Strays
  <2>. QED
    BY <1>1, <1>2, <1>4, <1>5, <2>1, <2>2 DEF IInv, Strays
<1>. QED
    BY <1>7, <1>8, <1>9, <1>10, <1>11 DEF IInv

LEMMA FinishJobStep ==
    ASSUME IInv, NEW t \in Tiles, FinishJob(t)
    PROVE  IInv'
<1>0. PICK r \in running[t], rc \in {0, 1} :
          /\ rc = 1 => faults < MaxFaults
          /\ faults' = faults + rc
          /\ buffer' = [buffer EXCEPT ![t][r.slot] = IF rc = 0 THEN r.build ELSE @]
          /\ job' = [job EXCEPT ![t].rc = rc, ![t].done = TRUE]
    BY DEF FinishJob
<1>. DEFINE y == r.slot
<1>1. y \in Slots /\ r.build \in 0 .. MaxBuilds
    BY <1>0 DEF IInv, TypeOK, Task
<1>2. /\ UNCHANGED <<pc, mask, todo, late, slot, inflight, builds, stopRequested>>
      /\ UNCHANGED <<stop, exited, result, freed, queue, abandoned, overlapped>>
      /\ UNCHANGED <<Handed, Waited>>
    BY DEF FinishJob, mainVars, history, Handed, Waited
<1>3. job[t] \in Job
    BY DEF IInv, TypeOK
<1>4. /\ job' \in [Tiles -> Job]
      /\ \A x \in Tiles \ {t} : job'[x] = job[x]
      /\ job'[t].has = job[t].has /\ job'[t].rc = rc /\ job'[t].done
      /\ job'[t].slot = job[t].slot /\ job'[t].build = job[t].build
  <2>1. job \in [Tiles -> Job]
    BY DEF IInv, TypeOK
  <2>. DEFINE j == [job[t] EXCEPT !.rc = rc, !.done = TRUE]
  <2>2. j \in Job
    BY <1>3 DEF Job
  <2>3. j.has = job[t].has /\ j.rc = rc /\ j.done /\ j.slot = job[t].slot /\ j.build = job[t].build
    BY <1>3 DEF Job
  <2>4. job' = [job EXCEPT ![t] = j]
    BY <1>0, <2>1
  <2>. HIDE DEF j
  <2>. QED
    BY <2>1, <2>2, <2>3, <2>4
<1>5. /\ running' \in [Tiles -> SUBSET Task]
      /\ \A x \in Tiles \ {t} : running'[x] = running[x]
      /\ running'[t] = {}
    BY DEF IInv, TypeOK, FinishJob
<1>6. /\ buffer' \in [Tiles -> [Slots -> 0 .. Torn]]
      /\ \A x \in Tiles, z \in Slots : x # t \/ z # y => buffer'[x][z] = buffer[x][z]
      /\ rc = 0 => buffer'[t][y] = r.build
  <2>1. buffer \in [Tiles -> [Slots -> 0 .. Torn]] /\ r.build \in 0 .. Torn
    BY <1>1, BuildAssumption DEF IInv, TypeOK, Torn, BuildAssumption
  <2>. DEFINE v == IF rc = 0 THEN r.build ELSE buffer[t][y]
  <2>2. v \in 0 .. Torn
    BY <1>1, <2>1
  <2>3. buffer' = [buffer EXCEPT ![t][y] = v]
    BY <1>0, <1>1, <2>1
  <2>. HIDE DEF v
  <2>4. /\ buffer' \in [Tiles -> [Slots -> 0 .. Torn]] /\ buffer'[t][y] = v
        /\ \A x \in Tiles, z \in Slots : x # t \/ z # y => buffer'[x][z] = buffer[x][z]
    BY <1>1, <2>1, <2>2, <2>3, Cell
  <2>. QED
    BY <2>4 DEF v
<1>. HIDE DEF y
<1>7. TypeOK'
  <2>0. \A x \in Tiles : \A q, o \in running[x] : q = o
    BY DEF IInv, TypeOK
  <2>1. \A x \in Tiles : \A q, o \in running'[x] : q = o
    BY <1>5, <2>0
  <2>2. /\ UNCHANGED queue
        /\ \A m, n \in DOMAIN queue : queue[m].tile = queue[n].tile => m = n
    BY <1>2 DEF IInv, TypeOK
  <2>. QED
    BY <1>2, <1>4, <1>5, <1>6, <2>1, <2>2 DEF IInv, TypeOK
<1>8. Phase'
    BY <1>2 DEF IInv, Phase
<1>9. Queued'
  <2>. SUFFICES ASSUME NEW n \in DOMAIN queue, Kept(queue[n])
                PROVE  Kept(queue[n])'
    BY <1>2 DEF IInv, Queued, Flying, HandedOver
  <2>1. queue[n].tile = t => y # queue[n].slot
    BY <1>0 DEF Kept, y
  <2>. QED
    BY <1>1, <1>2, <1>4, <1>5, <1>6, <2>1, KeptAcross DEF y
<1>10. Jobs'
  <2>. SUFFICES ASSUME NEW x \in Handed
                PROVE  /\ job'[x].slot = slot /\ job'[x].build = builds
                       /\ x \notin overlapped => AtItsJob(x)'
    BY <1>2 DEF Jobs
  <2>1. /\ x \in Tiles /\ slot \in Slots /\ job[x].slot = slot /\ job[x].build = builds
        /\ x \notin overlapped => AtItsJob(x)
    BY DEF IInv, TypeOK, Handed, Jobs
  <2>2. CASE x # t
    BY <1>2, <1>4, <1>5, <1>6, <2>1, <2>2 DEF AtItsJob
  <2>3. CASE x = t /\ x \notin overlapped
    <3>1. r.slot = slot /\ r.build = builds /\ ~job[t].done /\ ~job[t].has /\ t \notin Waited
        BY <1>0, <2>1, <2>3 DEF AtItsJob
    <3>. QED
        BY <1>2, <1>4, <1>5, <1>6, <2>1, <2>3, <3>1 DEF AtItsJob, y
  <2>4. CASE x = t /\ x \in overlapped
    BY <1>2, <1>4, <2>1, <2>4
  <2>. QED
    BY <2>2, <2>3, <2>4
<1>11. Strays'
  <2>1. exited \subseteq Tiles
    BY DEF IInv, TypeOK
  <2>2. job'[t].has \/ running'[t] # {} => t \in abandoned \/ t \in Handed \ Waited
    BY <1>0, <1>2, <1>4, <1>5 DEF IInv, Strays
  <2>. QED
    BY <1>0, <1>2, <1>4, <1>5, <2>1, <2>2 DEF IInv, Strays
<1>. QED
    BY <1>7, <1>8, <1>9, <1>10, <1>11 DEF IInv

LEMMA ExitWorkerStep ==
    ASSUME IInv, NEW t \in Tiles, ExitWorker(t)
    PROVE  IInv'
<1>1. /\ UNCHANGED <<pc, mask, todo, late, slot, inflight, builds, stopRequested>>
      /\ UNCHANGED <<job, running, stop, buffer, result, freed, queue, faults>>
      /\ UNCHANGED <<abandoned, overlapped, Handed, Waited>>
      /\ t \in stop /\ running[t] = {} /\ exited' = exited \cup {t}
    BY DEF ExitWorker, mainVars, history, Handed, Waited
<1>2. Jobs' /\ Strays'
    BY <1>1 DEF IInv, Jobs, AtItsJob, Strays
<1>. QED
    BY <1>1, <1>2 DEF IInv, TypeOK, Phase, Queued, Kept, Flying, HandedOver
-----------------------------------------------------------------------------
(* The main thread. *)

LEMMA StraysAsBefore ==
    ASSUME Strays, pc \notin {"submit", "wait"},
           UNCHANGED <<job, running, exited, abandoned, overlapped>>
    PROVE  Strays'
    BY NoneBuilding DEF Strays

LEMMA QueuedAsBefore ==
    ASSUME Queued, UNCHANGED <<queue, result, buffer, inflight, job, running>>, pc # "send"
    PROVE  Queued'
    BY DEF Queued, Kept, Flying, HandedOver

LEMMA JobsAsBefore ==
    ASSUME Jobs, UNCHANGED <<Handed, Waited, job, running, buffer, slot, builds, overlapped>>
    PROVE  Jobs'
    BY DEF Jobs, AtItsJob

LEMMA NoJobs ==
    ASSUME Handed' = {}
    PROVE  Jobs'
    BY DEF Jobs

LEMMA StartStep ==
    ASSUME IInv, pc \in {"top", "built"}, UNCHANGED <<slot, inflight, stopRequested>>,
           UNCHANGED <<workerVars, buffer, result, freed, queue, faults, history>>,
           NEW ss \in SUBSET Streams, UNION ss # {}, StartBuild(ss), late' \in BOOLEAN,
           late' => pc = "built"
    PROVE  IInv'
<1>1. /\ pc' = "submit" /\ mask' = UNION ss /\ todo' = mask' /\ mask' # {}
      /\ mask' \subseteq Tiles /\ builds' = builds + 1
      /\ UNCHANGED <<job, running, stop, exited, abandoned, overlapped>>
    BY DEF StartBuild, workerVars, history, Tiles
<1>2. builds' \in 0 .. MaxBuilds
    BY BuildAssumption DEF IInv, TypeOK, StartBuild, BuildAssumption
<1>3. TypeOK'
    BY <1>1, <1>2 DEF IInv, TypeOK
<1>4. stop = {} /\ (pc = "built" => ~inflight.active)
    BY DEF IInv, Phase, Ending
<1>5. Phase'
    BY <1>1, <1>4 DEF IInv, Phase, Building, Ending
<1>6. Queued'
    BY <1>1, QueuedAsBefore DEF IInv
<1>7. Strays'
    BY <1>1, StraysAsBefore DEF IInv
<1>8. Jobs'
    BY <1>1, NoJobs DEF Handed, Building
<1>. QED
    BY <1>3, <1>5, <1>6, <1>7, <1>8 DEF IInv

LEMMA BuildStep == ASSUME IInv, Build PROVE IInv'
<1>1. PICK ss \in (SUBSET Streams) \ {{}} : StartBuild(ss)
    BY DEF Build
<1>2. UNION ss # {}
  <2>1. PICK S \in ss : TRUE
    BY <1>1
  <2>2. S # {}
    BY <2>1, BuildAssumption DEF BuildAssumption
  <2>. QED
    BY <2>1, <2>2
<1>. QED
    BY <1>1, <1>2, StartStep DEF Build

LEMMA RebuildStep == ASSUME IInv, Rebuild PROVE IInv'
<1>1. PICK ss \in SUBSET Streams : mask \subseteq UNION ss /\ StartBuild(ss)
    BY DEF Rebuild
<1>2. UNION ss # {}
    BY <1>1 DEF IInv, Phase, Building, Rebuild
<1>. QED
    BY <1>1, <1>2, StartStep DEF Rebuild

LEMMA SubmitJobStep == ASSUME IInv, SubmitJob PROVE IInv'
<1>. DEFINE t == Min(todo)
<1>1. /\ pc = "submit" /\ todo # {} /\ todo \subseteq mask /\ mask \subseteq Tiles /\ mask # {}
      /\ t \in todo /\ t \in Tiles
    BY First DEF IInv, TypeOK, SubmitJob, Phase, Building
<1>2. /\ job' = [job EXCEPT ![t] = JobFor(t)]
      /\ todo' = IF todo = {t} THEN mask ELSE todo \ {t}
      /\ pc' = IF todo = {t} THEN "wait" ELSE "submit"
      /\ UNCHANGED <<mask, late, slot, inflight, builds, stopRequested, running, stop,
                     exited, buffer, result, freed, queue, faults>>
      /\ IF running[t] # {}
         THEN overlapped' = overlapped \cup {t} /\ abandoned' = abandoned
         ELSE overlapped' = overlapped \ {t} /\ abandoned' = abandoned \ {t}
    BY <1>1 DEF SubmitJob
<1>. HIDE DEF t
<1>3. /\ JobFor(t) \in Job /\ JobFor(t).has /\ ~JobFor(t).done
      /\ JobFor(t).slot = slot /\ JobFor(t).build = builds
    BY DEF IInv, TypeOK, JobFor, Job
<1>4. /\ job' \in [Tiles -> Job] /\ job'[t] = JobFor(t)
      /\ \A x \in Tiles \ {t} : job'[x] = job[x]
    BY <1>1, <1>2, <1>3 DEF IInv, TypeOK
<1>5. todo' \subseteq mask /\ todo' # {} /\ todo' \subseteq Tiles
    BY <1>1, <1>2
<1>6. /\ Handed = mask \ todo /\ Waited = {} /\ Handed' = Handed \cup {t} /\ Waited' = {}
      /\ t \notin Handed
    BY <1>1, <1>2 DEF Handed, Waited, Building
<1>7. running[t] # {} => t \in abandoned
    BY <1>1, <1>6 DEF IInv, Strays
<1>8. TypeOK'
  <2>1. abandoned' \subseteq Tiles /\ overlapped' \subseteq Tiles
    BY <1>1, <1>2 DEF IInv, TypeOK
  <2>2. /\ pc' \in {"submit", "wait"}
        /\ UNCHANGED <<mask, late, slot, inflight, builds, stopRequested, running, stop, exited,
                       buffer, result, freed, queue>>
    BY <1>2
  <2>. QED
    BY <1>4, <1>5, <2>1, <2>2 DEF IInv, TypeOK
<1>9. Phase'
    BY <1>1, <1>2, <1>5 DEF IInv, Phase, Building, Ending
<1>10. Queued'
  <2>. SUFFICES ASSUME NEW n \in DOMAIN queue, Flying(queue[n]), Kept(queue[n])
                PROVE  Kept(queue[n])'
    BY <1>1, <1>2 DEF IInv, Queued, Flying, HandedOver
  <2>1. queue[n].tile \in Tiles /\ slot \in {0, 1}
    BY AnItem DEF IInv, TypeOK, Item, Slots
  <2>2. queue[n].slot # slot
    BY <2>1 DEF IInv, Phase, Flying
  <2>. QED
    BY <1>2, <1>3, <1>4, <2>1, <2>2 DEF Kept
<1>11. Jobs'
  <2>. SUFFICES ASSUME NEW x \in Handed'
                PROVE  /\ job'[x].slot = slot /\ job'[x].build = builds
                       /\ x \notin overlapped' => AtItsJob(x)'
    BY <1>2 DEF Jobs
  <2>1. CASE x = t
    <3>1. x \notin overlapped' => running[x] = {}
        BY <1>2, <2>1
    <3>. QED
        BY <1>2, <1>3, <1>4, <1>6, <2>1, <3>1 DEF AtItsJob
  <2>2. CASE x # t
    <3>1. x \in Handed /\ x \in Tiles /\ (x \in overlapped' <=> x \in overlapped)
        BY <1>1, <1>2, <1>6, <2>2
    <3>. QED
        BY <1>2, <1>4, <1>6, <2>2, <3>1 DEF IInv, Jobs, AtItsJob
  <2>. QED
    BY <2>1, <2>2
<1>12. Strays'
  <2>1. overlapped' \subseteq abandoned'
    BY <1>2, <1>7 DEF IInv, Strays
  <2>2. ASSUME NEW x \in Tiles, job'[x].has \/ running'[x] # {}
        PROVE  x \in abandoned' \/ x \in Handed' \ Waited'
    <3>1. CASE x = t
        BY <1>6, <3>1
    <3>2. CASE x # t
        BY <1>2, <1>4, <1>6, <2>2, <3>2 DEF IInv, Strays
    <3>. QED
        BY <3>1, <3>2
  <2>3. \A x \in exited' : running'[x] = {}
    BY <1>2 DEF IInv, Strays
  <2>. QED
    BY <2>1, <2>2, <2>3 DEF Strays
<1>. QED
    BY <1>8, <1>9, <1>10, <1>11, <1>12 DEF IInv

(* Whoever is not abandoned when the wait is given up is at rest. *)
LEMMA GivenUp ==
    ASSUME IInv, pc = "wait", NEW t \in todo, job[t].done,
           NEW x \in Tiles, job[x].has \/ running[x] # {}
    PROVE  x \in abandoned \cup {z \in todo \ {t} : ~job[z].done}
<1>1. CASE x \in abandoned
    BY <1>1
<1>2. CASE x \notin abandoned
  <2>1. x \in Handed /\ x \in todo /\ x \notin overlapped
    BY <1>2 DEF IInv, Strays, Handed, Waited, Building
  <2>2. AtItsJob(x)
    BY <2>1 DEF IInv, Jobs
  <2>3. ~job[x].done
    BY <2>2 DEF AtItsJob
  <2>. QED
    BY <2>1, <2>3
<1>. QED
    BY <1>1, <1>2

LEMMA WaitJobStep == ASSUME IInv, WaitJob PROVE IInv'
<1>. DEFINE t == Min(todo)
<1>1. /\ pc = "wait" /\ todo # {} /\ todo \subseteq mask /\ mask \subseteq Tiles /\ mask # {}
      /\ t \in todo /\ t \in Tiles
    BY First DEF IInv, TypeOK, WaitJob, Phase, Building
<1>2. /\ job[t].done
      /\ \/ /\ job[t].rc # 0
            /\ pc' = "recover" /\ todo' = {}
            /\ abandoned' = abandoned \cup {x \in todo \ {t} : ~job[x].done}
         \/ /\ job[t].rc = 0 /\ todo # {t}
            /\ todo' = todo \ {t} /\ pc' = "wait" /\ UNCHANGED abandoned
         \/ /\ job[t].rc = 0 /\ todo = {t}
            /\ pc' = (IF late THEN "send" ELSE "previous")
            /\ todo' = mask /\ UNCHANGED abandoned
      /\ UNCHANGED <<mask, late, slot, inflight, builds, stopRequested, job, running, stop,
                     exited, buffer, result, freed, queue, faults, overlapped>>
    BY <1>1 DEF WaitJob, workerVars
<1>. HIDE DEF t
<1>3. Handed = mask /\ Waited = mask \ todo
    BY <1>1 DEF Handed, Waited, Building
<1>4. Queued'
    BY <1>1, <1>2, QueuedAsBefore DEF IInv
<1>5. CASE job[t].rc # 0
  <2>1. /\ pc' = "recover" /\ todo' = {}
        /\ abandoned' = abandoned \cup {x \in todo \ {t} : ~job[x].done}
    BY <1>2, <1>5
  <2>2. TypeOK'
    BY <1>1, <1>2, <2>1 DEF IInv, TypeOK
  <2>3. Phase'
    BY <1>1, <1>2, <2>1 DEF IInv, Phase, Building, Ending
  <2>4. Jobs'
    BY <2>1, NoJobs DEF Handed, Building
  <2>5. Strays'
    BY <1>1, <1>2, <2>1, GivenUp DEF IInv, Strays
  <2>. QED
    BY <1>4, <2>2, <2>3, <2>4, <2>5 DEF IInv
<1>6. CASE job[t].rc = 0
  <2>1. /\ pc' \in {"wait", "send", "previous"} /\ UNCHANGED abandoned
        /\ todo' \subseteq mask /\ todo' # {} /\ (pc' = "previous" => todo' = mask)
        /\ pc' = "previous" => ~late
        /\ Handed' = mask /\ Waited' = Waited \cup {t}
    BY <1>1, <1>2, <1>3, <1>6 DEF Handed, Waited, Building
  <2>2. TypeOK'
    BY <1>1, <1>2, <2>1 DEF IInv, TypeOK
  <2>3. Phase'
    BY <1>1, <1>2, <2>1 DEF IInv, Phase, Building, Ending
  <2>4. Jobs'
    BY <1>2, <1>3, <1>6, <2>1 DEF IInv, Jobs, AtItsJob
  <2>5. t \notin abandoned => ~job[t].has /\ running[t] = {}
    BY <1>1, <1>2, <1>3 DEF IInv, Jobs, AtItsJob, Strays
  <2>6. Strays'
    BY <1>2, <1>3, <2>1, <2>5 DEF IInv, Strays
  <2>. QED
    BY <1>4, <2>2, <2>3, <2>4, <2>6 DEF IInv
<1>. QED
    BY <1>5, <1>6

(* The steps that end the frame in flight and leave the workers alone. *)
LEMMA LandedStep ==
    ASSUME IInv, pc # "send", inflight.active => InflightDone, inflight' = Idle,
           UNCHANGED <<mask, late, slot, builds, stopRequested, job, running, stop, exited,
                       buffer, result, freed, queue, faults,
                     abandoned, overlapped>>
    PROVE  queue' = << >> /\ Queued' /\ ~inflight'.active
           /\ inflight' \in [active : BOOLEAN, slot : Slots, tiles : SUBSET Tiles]
<1>1. queue = << >>
    BY NothingQueued DEF IInv
<1>. QED
    BY <1>1 DEF Queued, Idle, Slots

LEMMA WaitPreviousStep == ASSUME IInv, WaitPrevious PROVE IInv'
<1>1. /\ pc = "previous" /\ pc' \in {"recover", "built"} /\ inflight' = Idle
      /\ UNCHANGED <<mask, todo, late, slot, builds, stopRequested, job, running, stop,
                     exited, buffer, result, freed, queue, faults,
                     abandoned, overlapped>>
    BY DEF WaitPrevious, workerVars, history
<1>2. queue' = << >> /\ Queued' /\ ~inflight'.active
      /\ inflight' \in [active : BOOLEAN, slot : Slots, tiles : SUBSET Tiles]
    BY <1>1, LandedStep DEF WaitPrevious
<1>3. TypeOK'
    BY <1>1, <1>2 DEF IInv, TypeOK
<1>4. Phase'
    BY <1>1, <1>2 DEF IInv, Phase, Building, Ending
<1>5. Jobs'
    BY <1>1, JobsAsBefore, NoJobs DEF IInv, Handed, Waited, Building
<1>6. Strays'
    BY <1>1, StraysAsBefore DEF IInv
<1>. QED
    BY <1>2, <1>3, <1>4, <1>5, <1>6 DEF IInv

LEMMA WaitIdleStep == ASSUME IInv, WaitIdle PROVE IInv'
<1>1. /\ pc = "top" /\ pc' \in {"recover", "top"} /\ inflight' = Idle
      /\ UNCHANGED <<mask, todo, late, slot, builds, stopRequested, job, running, stop,
                     exited, buffer, result, freed, queue, faults,
                     abandoned, overlapped>>
    BY DEF WaitIdle, workerVars, history
<1>2. queue' = << >> /\ Queued' /\ ~inflight'.active
      /\ inflight' \in [active : BOOLEAN, slot : Slots, tiles : SUBSET Tiles]
    BY <1>1, LandedStep DEF WaitIdle
<1>3. TypeOK'
    BY <1>1, <1>2 DEF IInv, TypeOK
<1>4. Phase'
    BY <1>1, <1>2 DEF IInv, Phase, Building, Ending
<1>5. Jobs'
    BY <1>1, NoJobs DEF Handed, Building
<1>6. Strays'
    BY <1>1, StraysAsBefore DEF IInv
<1>. QED
    BY <1>2, <1>3, <1>4, <1>5, <1>6 DEF IInv

LEMMA NoRebuildStep == ASSUME IInv, NoRebuild PROVE IInv'
<1>1. /\ pc = "built" /\ pc' = "send"
      /\ UNCHANGED <<mask, todo, late, slot, inflight, builds, stopRequested, job, running,
                     stop, exited, buffer, result, freed, queue, faults,
                     abandoned, overlapped>>
    BY DEF NoRebuild, workerVars, history
<1>2. TypeOK' /\ Phase'
    BY <1>1 DEF IInv, TypeOK, Phase, Building, Ending
<1>3. Queued'
    BY <1>1, QueuedAsBefore DEF IInv
<1>4. Jobs'
    BY <1>1, JobsAsBefore DEF IInv, Handed, Waited, Building
<1>5. Strays'
    BY <1>1, StraysAsBefore DEF IInv
<1>. QED
    BY <1>2, <1>3, <1>4, <1>5 DEF IInv

LEMMA SendStep == ASSUME IInv, Send PROVE IInv'
<1>. DEFINE t == Min(todo)
            i == [tile |-> t, slot |-> slot, build |-> builds,
                 overlapped |-> t \in overlapped]
<1>1. /\ pc = "send" /\ todo # {} /\ todo \subseteq mask /\ mask \subseteq Tiles /\ mask # {}
      /\ t \in todo /\ t \in Tiles
    BY First DEF IInv, TypeOK, Send, Phase, Building
<1>2. /\ result' = [result EXCEPT ![t][slot] = "pending"]
      /\ queue' = Append(queue, i)
      /\ todo' = todo \ {t}
      /\ pc' = IF todo = {t} THEN "top" ELSE "send"
      /\ inflight' = IF todo = {t} THEN [active |-> TRUE, slot |-> slot, tiles |-> mask]
                     ELSE inflight
      /\ slot' = IF todo = {t} THEN 1 - slot ELSE slot
      /\ UNCHANGED <<mask, late, builds, stopRequested, job, running, stop, exited, buffer,
                     freed, faults,
                     abandoned, overlapped>>
    BY <1>1 DEF Send, workerVars, history, NextSlot
<1>3. ~inflight.active /\ stop = {}
    BY <1>1 DEF IInv, Phase, Building, Ending
<1>4. /\ i \in Item /\ i.tile = t /\ i.slot = slot /\ i.build = builds
      /\ i.overlapped = (t \in overlapped)
    BY <1>1 DEF IInv, TypeOK, Item
<1>. HIDE DEF t, i
<1>. DEFINE Whole(j) == j.overlapped \/ Kept(j)
<1>15. Whole(i)
  <2>1. t \in Handed /\ t \in Waited
    BY <1>1 DEF Handed, Waited, Building
  <2>2. t \notin overlapped => AtItsJob(t)
    BY <2>1 DEF IInv, Jobs
  <2>3. t \notin overlapped => Kept(i)
    BY <1>4, <2>1, <2>2 DEF AtItsJob, Kept
  <2>. QED
    BY <1>4, <2>3
<1>5. slot \in Slots /\ slot' \in Slots
    BY <1>2 DEF IInv, TypeOK, Slots
<1>6. inflight' \in [active : BOOLEAN, slot : Slots, tiles : SUBSET Tiles]
    BY <1>1, <1>2, <1>5 DEF IInv, TypeOK
<1>7. /\ result' \in [Tiles -> [Slots -> Result]] /\ result'[t][slot] = "pending"
      /\ \A x \in Tiles, y \in Slots : x # t \/ y # slot => result'[x][y] = result[x][y]
  <2>1. result \in [Tiles -> [Slots -> Result]] /\ "pending" \in Result
    BY DEF IInv, TypeOK, Result
  <2>. QED
    BY <1>1, <1>2, <1>5, <2>1, Cell
<1>8. /\ queue \in Seq(Item) /\ queue' \in Seq(Item)
      /\ DOMAIN queue = 1 .. Len(queue) /\ DOMAIN queue' = 1 .. Len(queue) + 1
      /\ \A n \in DOMAIN queue : queue'[n] = queue[n]
      /\ queue'[Len(queue) + 1] = i
    BY <1>2, <1>4 DEF IInv, TypeOK
<1>9. \A n \in DOMAIN queue :
        /\ queue[n].tile \in mask \ todo /\ queue[n].slot = slot /\ queue[n].tile \in Tiles
        /\ result[queue[n].tile][slot] = "pending" /\ Whole(queue[n])
    BY <1>1, <1>3 DEF IInv, Queued, Flying, HandedOver
<1>10. TypeOK'
  <2>1. \A m, n \in DOMAIN queue : queue[m].tile = queue[n].tile => m = n
    BY DEF IInv, TypeOK
  <2>2. \A n \in DOMAIN queue : queue[n].tile # t
    BY <1>1, <1>9
  <2>3. ASSUME NEW m \in DOMAIN queue', NEW n \in DOMAIN queue', queue'[m].tile = queue'[n].tile
        PROVE  m = n
    <3>1. CASE m \in DOMAIN queue /\ n \in DOMAIN queue
        BY <1>8, <2>1, <2>3, <3>1
    <3>2. CASE m \notin DOMAIN queue /\ n \in DOMAIN queue
        BY <1>4, <1>8, <2>2, <2>3, <3>2
    <3>3. CASE m \in DOMAIN queue /\ n \notin DOMAIN queue
        BY <1>4, <1>8, <2>2, <2>3, <3>3
    <3>4. CASE m \notin DOMAIN queue /\ n \notin DOMAIN queue
        BY <1>8, <3>4
    <3>. QED
        BY <3>1, <3>2, <3>3, <3>4
  <2>4. todo' \subseteq Tiles /\ (pc' = "send" => todo' # {})
    BY <1>1, <1>2
  <2>5. \A m, n \in DOMAIN queue' : queue'[m].tile = queue'[n].tile => m = n
    BY <2>3
  <2>6. queue' \in Seq(Item)
    BY <1>8
  <2>7. pc' \in {"top", "send"}
    BY <1>2
  <2>8. UNCHANGED <<mask, late, builds, stopRequested, job, running, stop, exited, buffer, freed>>
                   /\ UNCHANGED <<abandoned, overlapped>>
    BY <1>2
  <2>. QED
    BY <1>5, <1>6, <1>7, <2>4, <2>5, <2>6, <2>7, <2>8 DEF IInv, TypeOK
<1>11. Phase'
    BY <1>1, <1>2, <1>3, <1>5 DEF IInv, Phase, Building, Ending, Slots
<1>12. Queued'
  <2>. SUFFICES ASSUME NEW n \in DOMAIN queue'
                PROVE  /\ result'[queue'[n].tile][queue'[n].slot] = "pending"
                       /\ (queue[n].overlapped \/ Kept(queue[n]))'
                       /\ Flying(queue[n])' \/ HandedOver(queue[n])'
    BY DEF Queued, Flying, HandedOver
  <2>1. /\ queue'[n].slot = slot /\ queue'[n].tile \in mask \ todo' /\ queue'[n].tile \in Tiles
        /\ result'[queue'[n].tile][slot] = "pending"
        /\ Whole(queue'[n])
    <3>1. CASE n \in DOMAIN queue
        BY <1>1, <1>2, <1>5, <1>7, <1>8, <1>9, <3>1
    <3>2. CASE n = Len(queue) + 1
        BY <1>1, <1>2, <1>4, <1>7, <1>8, <1>15, <3>2
    <3>. QED
        BY <1>8, <3>1, <3>2
  <2>2. (queue[n].overlapped \/ Kept(queue[n]))'
    BY <1>2, <2>1 DEF Kept
  <2>. QED
    BY <1>1, <1>2, <2>1, <2>2 DEF Flying, HandedOver
<1>13. Jobs'
    BY <1>1, <1>2, JobsAsBefore, NoJobs DEF IInv, Handed, Waited, Building
<1>14. Strays'
    BY <1>1, <1>2, StraysAsBefore DEF IInv
<1>. QED
    BY <1>10, <1>11, <1>12, <1>13, <1>14 DEF IInv

(* Leaving the loop, at its top or when a recovery is given up. *)
LEMMA LeaveStep ==
    ASSUME IInv, LeaveLoop \/ RecoverNot \/ ReconnectNot
    PROVE  IInv'
<1>1. /\ pc \in {"top", "recover", "reconnect"} /\ pc' = "exit"
      /\ UNCHANGED <<mask, todo, late, slot, inflight, builds, stopRequested, job, running,
                     stop, exited, buffer, result, freed, queue, faults,
                     abandoned, overlapped>>
    BY DEF LeaveLoop, RecoverNot, ReconnectNot, workerVars, history
<1>2. TypeOK' /\ Phase'
    BY <1>1 DEF IInv, TypeOK, Phase, Building, Ending
<1>3. Queued'
    BY <1>1, QueuedAsBefore DEF IInv
<1>4. Jobs' /\ Strays'
    BY <1>1, NoJobs, StraysAsBefore DEF IInv, Handed, Building
<1>. QED
    BY <1>2, <1>3, <1>4 DEF IInv

LEMMA StopTransportStep ==
    ASSUME IInv, StopTransport
    PROVE  IInv'
<1>1. /\ pc = "recover" /\ pc' = "reconnect" /\ queue' = << >> /\ result' = Drained
      /\ UNCHANGED <<mask, todo, late, slot, inflight, builds, stopRequested, job, running,
                     stop, exited, buffer, freed, faults,
                     abandoned, overlapped>>
    BY DEF StopTransport, workerVars, history
<1>2. result' \in [Tiles -> [Slots -> Result]]
    BY <1>1 DEF IInv, TypeOK, Drained, Result
<1>3. queue' \in Seq(Item) /\ DOMAIN queue' = {}
    BY <1>1
<1>4. TypeOK'
    BY <1>1, <1>2, <1>3 DEF IInv, TypeOK
<1>5. Phase'
    BY <1>1 DEF IInv, Phase, Building, Ending
<1>6. Queued'
    BY <1>3 DEF Queued
<1>7. Jobs' /\ Strays'
    BY <1>1, NoJobs, StraysAsBefore DEF IInv, Handed, Building
<1>. QED
    BY <1>4, <1>5, <1>6, <1>7 DEF IInv

LEMMA ReconnectedStep == ASSUME IInv, Reconnected PROVE IInv'
<1>1. /\ pc = "reconnect" /\ pc' = "top" /\ inflight' = Idle /\ queue = << >>
      /\ UNCHANGED <<mask, todo, late, slot, builds, stopRequested, job, running, stop,
                     exited, buffer, result, freed, queue, faults,
                     abandoned, overlapped>>
    BY DEF Reconnected, workerVars, history, IInv, Phase
<1>2. /\ inflight' \in [active : BOOLEAN, slot : Slots, tiles : SUBSET Tiles]
      /\ ~inflight'.active
    BY <1>1 DEF Idle, Slots
<1>3. TypeOK'
    BY <1>1, <1>2 DEF IInv, TypeOK
<1>4. Phase'
    BY <1>1, <1>2 DEF IInv, Phase, Building, Ending
<1>5. Queued'
    BY <1>1 DEF Queued
<1>6. Jobs' /\ Strays'
    BY <1>1, NoJobs, StraysAsBefore DEF IInv, Handed, Building
<1>. QED
    BY <1>3, <1>4, <1>5, <1>6 DEF IInv

LEMMA ExitStep == ASSUME IInv, Exit PROVE IInv'
<1>1. /\ pc = "exit" /\ pc' = "stop" /\ inflight' = Idle /\ todo' = Tiles
      /\ UNCHANGED <<mask, late, slot, builds, stopRequested, job, running, stop,
                     exited, buffer, result, freed, queue, faults,
                     abandoned, overlapped>>
    BY DEF Exit, workerVars, history
<1>2. queue' = << >> /\ Queued' /\ ~inflight'.active
      /\ inflight' \in [active : BOOLEAN, slot : Slots, tiles : SUBSET Tiles]
    BY <1>1, LandedStep DEF Exit, InflightOver
<1>3. Tiles # {}
    BY BuildAssumption, Zenon DEF BuildAssumption, Tiles
<1>4. TypeOK'
    BY <1>1, <1>2, <1>3 DEF IInv, TypeOK
<1>5. Phase'
    BY <1>1, <1>2 DEF IInv, Phase, Building, Ending
<1>6. Jobs' /\ Strays'
    BY <1>1, NoJobs, StraysAsBefore DEF IInv, Handed, Building
<1>. QED
    BY <1>2, <1>4, <1>5, <1>6 DEF IInv

LEMMA StopWorkerStep == ASSUME IInv, StopWorker PROVE IInv'
<1>1. /\ pc = "stop" /\ pc' = "join" /\ stop' = stop \cup {Min(todo)} /\ Min(todo) \in Tiles
      /\ UNCHANGED <<mask, todo, late, slot, inflight, builds, stopRequested, job, running,
                     exited, buffer, result, freed, queue, faults,
                     abandoned, overlapped>>
    BY First DEF StopWorker, history, IInv, TypeOK
<1>2. TypeOK' /\ Phase'
    BY <1>1 DEF IInv, TypeOK, Phase, Building, Ending
<1>3. Queued'
    BY <1>1, QueuedAsBefore DEF IInv
<1>4. Jobs' /\ Strays'
    BY <1>1, NoJobs, StraysAsBefore DEF IInv, Handed, Building
<1>. QED
    BY <1>2, <1>3, <1>4 DEF IInv

LEMMA JoinWorkerStep == ASSUME IInv, JoinWorker PROVE IInv'
<1>1. /\ pc = "join" /\ pc' \in {"stop", "done"} /\ (pc' = "stop" => todo' # {})
      /\ freed' = freed \cup {Min(todo)} /\ Min(todo) \in exited /\ todo' \subseteq todo
      /\ UNCHANGED <<mask, late, slot, inflight, builds, stopRequested, job, running, stop,
                     exited, buffer, result, queue, faults,
                     abandoned, overlapped>>
    BY DEF JoinWorker, Joined, workerVars, history
<1>2. TypeOK' /\ Phase'
    BY <1>1 DEF IInv, TypeOK, Phase, Building, Ending
<1>3. Queued'
    BY <1>1, QueuedAsBefore DEF IInv
<1>4. Jobs' /\ Strays'
    BY <1>1, NoJobs, StraysAsBefore DEF IInv, Handed, Building
<1>. QED
    BY <1>2, <1>3, <1>4 DEF IInv

-----------------------------------------------------------------------------
(* The transport and the signal. *)

LEMMA TransmitStep == ASSUME IInv, Transmit PROVE IInv'
<1>. DEFINE i == Head(queue)
<1>1. /\ queue # << >> /\ queue' = Tail(queue)
      /\ UNCHANGED <<pc, mask, todo, late, slot, inflight, builds, stopRequested, job, running,
                     stop, exited, buffer, freed, abandoned, overlapped>>
      /\ UNCHANGED <<Handed, Waited>>
    BY DEF Transmit, mainVars, workerVars, history, Handed, Waited
<1>2. PICK failed \in {0, 1} :
        result' = [result EXCEPT ![i.tile][i.slot] = IF failed = 1 THEN "failed" ELSE "sent"]
    BY DEF Transmit
<1>3. /\ queue \in Seq(Item) /\ queue' \in Seq(Item) /\ i = queue[1] /\ 1 \in DOMAIN queue
      /\ \A n \in DOMAIN queue' : n + 1 \in DOMAIN queue /\ queue'[n] = queue[n + 1] /\ n + 1 # 1
  <2>1. queue \in Seq(Item)
    BY DEF IInv, TypeOK
  <2>. QED
    BY <1>1, <2>1
<1>. HIDE DEF i
<1>4. i.tile \in Tiles /\ i.slot \in Slots
    BY <1>3, AnItem DEF IInv, Item
<1>5. /\ result' \in [Tiles -> [Slots -> Result]]
      /\ \A x \in Tiles, y \in Slots : x # i.tile \/ y # i.slot => result'[x][y] = result[x][y]
  <2>. DEFINE v == IF failed = 1 THEN "failed" ELSE "sent"
  <2>1. result \in [Tiles -> [Slots -> Result]] /\ v \in Result
    BY DEF IInv, TypeOK, Result
  <2>2. result' = [result EXCEPT ![i.tile][i.slot] = v]
    BY <1>2
  <2>. HIDE DEF v
  <2>. QED
    BY <1>4, <2>1, <2>2, Cell
<1>6. \A m, n \in DOMAIN queue : queue[m].tile = queue[n].tile => m = n
    BY DEF IInv, TypeOK
<1>7. TypeOK'
  <2>1. \A m, n \in DOMAIN queue' : queue'[m].tile = queue'[n].tile => m = n
    <3>. SUFFICES ASSUME NEW m \in DOMAIN queue', NEW n \in DOMAIN queue',
                         queue'[m].tile = queue'[n].tile
                  PROVE  m = n
        OBVIOUS
    <3>1. m + 1 = n + 1
        BY <1>3, <1>6
    <3>2. m \in Nat /\ n \in Nat
        BY <1>3
    <3>. QED
        BY <3>1, <3>2
  <2>. QED
    BY <1>1, <1>3, <1>5, <2>1 DEF IInv, TypeOK
<1>8. Phase'
  <2>1. pc \notin Ending \cup {"reconnect"}
    BY <1>1 DEF IInv, Phase
  <2>. QED
    BY <1>1, <2>1 DEF IInv, Phase
<1>9. Queued'
  <2>. SUFFICES ASSUME NEW n \in DOMAIN queue'
                PROVE  result'[queue'[n].tile][queue'[n].slot]
                          = result[queue'[n].tile][queue'[n].slot]
    BY <1>1, <1>3 DEF IInv, Queued, Kept, Flying, HandedOver
  <2>1. queue'[n].tile # i.tile
    BY <1>3, <1>6
  <2>2. queue'[n].tile \in Tiles /\ queue'[n].slot \in Slots
    BY <1>3, AnItem DEF IInv, Item
  <2>. QED
    BY <1>5, <2>1, <2>2
<1>10. Jobs' /\ Strays'
    BY <1>1, JobsAsBefore DEF IInv, Strays
<1>. QED
    BY <1>7, <1>8, <1>9, <1>10 DEF IInv

LEMMA RequestStopStep == ASSUME IInv, RequestStop PROVE IInv'
<1>1. /\ stopRequested' = TRUE
      /\ UNCHANGED <<pc, mask, todo, late, slot, inflight, builds, job, running, stop, exited,
                     buffer, result, freed, queue, faults,
                     abandoned, overlapped>>
      /\ UNCHANGED <<Handed, Waited>>
    BY DEF RequestStop, mainVars, workerVars, history, Handed, Waited
<1>. QED
    BY <1>1 DEF IInv, TypeOK, Phase, Queued, Kept, Flying, HandedOver, Jobs, AtItsJob, Strays

LEMMA StutterStep == ASSUME IInv, UNCHANGED vars PROVE IInv'
<1>1. UNCHANGED <<Handed, Waited>>
    BY DEF vars, mainVars, Handed, Waited
<1>. QED
    BY <1>1 DEF vars, mainVars, workerVars, history, IInv, TypeOK, Phase, Queued, Kept,
       Flying, HandedOver, Jobs, AtItsJob, Strays

LEMMA Inductive ==
    ASSUME IInv, [Next]_vars
    PROVE  IInv'
<1>1. CASE \E t \in Tiles : Worker(t)
    BY <1>1, TakeJobStep, FinishJobStep, ExitWorkerStep DEF Worker
<1>2. CASE Main
    BY <1>2, BuildStep, LeaveStep, SubmitJobStep, WaitJobStep, WaitPreviousStep, WaitIdleStep,
       RebuildStep, NoRebuildStep, SendStep, StopTransportStep, ReconnectedStep, ExitStep,
       StopWorkerStep, JoinWorkerStep DEF Main
<1>3. CASE RequestStop \/ Transmit
    BY <1>3, RequestStopStep, TransmitStep
<1>4. CASE UNCHANGED vars
    BY <1>4, StutterStep
<1>. QED
    BY <1>1, <1>2, <1>3, <1>4 DEF Next

-----------------------------------------------------------------------------
(* The properties. *)

LEMMA IntactThen == IInv => QueuedPacketIntact
    BY DEF IInv, Queued, Kept, Strays, QueuedPacketIntact, Range

LEMMA UnusedThen == IInv => NothingFreedInUse
<1>. SUFFICES ASSUME IInv, NEW t \in freed
              PROVE  running[t] = {} /\ t \in exited /\ \A i \in Range(queue) : i.tile # t
    BY DEF NothingFreedInUse
<1>1. t \in exited /\ t \in Tiles /\ stop # {}
    BY DEF IInv, TypeOK
<1>2. queue = << >> /\ running[t] = {}
    BY <1>1 DEF IInv, Phase, Strays
<1>. QED
    BY <1>1, <1>2 DEF Range

(* What the transport sends is the packet of the very build it was handed over
   for, whole, unless the job was handed to a worker that was still at one at which
   a failed frame had abandoned it (main.c:728-737, 1320-1363). *)
THEOREM PacketsIntact == Spec => []QueuedPacketIntact
<1>1. IInv /\ [Next]_vars => IInv'
    BY Inductive
<1>. QED
    BY <1>1, Initially, IntactThen, PTL DEF Spec

(* When a tile's buffers are freed its worker is gone, abandoned at a job or not,
   and the transport has none of its packets (main.c:1404-1418). *)
THEOREM NothingFreed == Spec => []NothingFreedInUse
<1>1. IInv /\ [Next]_vars => IInv'
    BY Inductive
<1>. QED
    BY <1>1, Initially, UnusedThen, PTL DEF Spec
=============================================================================
