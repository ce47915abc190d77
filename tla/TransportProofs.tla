-------------------------- MODULE TransportProofs ---------------------------
(* Proofs about Transport for every set of callers, every assignment of
   priorities and every queue capacity. *)
EXTENDS Transport, SequenceTheorems, TLAPS

(* A transfer is queued at its caller's priority and nowhere else. *)
AtOwnPriority ==
    \A p \in Prios : \A i \in DOMAIN queue[p] : PrioOf[queue[p][i]] = p

(* How the session, the stop flag and the worker's position go together, and
   that a session never goes down with a waiter's transfer still queued. *)
SessionShape ==
    /\ session = "down" <=> thread = "none"
    /\ stop <=> session = "joining"
    /\ item # NoCaller <=> thread \in {"send", "complete"}
    /\ thread \in {"drain", "exited"} => stop
    /\ thread = "exited" => queue = Empty
    /\ session = "down" => \A c \in Waiters : ~IsQueued(c)
    /\ \A c \in Waiters : caller[c] = "ready" => session = "up"

(* A cell is reset before its transfer is submitted. *)
FreshCell == \A c \in Waiters : caller[c] = "ready" => ~result[c].done

IInv == TypeOK /\ AtOwnPriority /\ SessionShape /\ FreshCell /\ ResultAccounting

-----------------------------------------------------------------------------
(* What the two queue operations do to who is queued. *)

LEMMA AppendOccurs ==
    ASSUME NEW s \in Seq(Callers), NEW c \in Callers, NEW d
    PROVE  /\ Occurs(d, Append(s, c)) <=> (Occurs(d, s) \/ d = c)
           /\ AtMostOnce(d, s) /\ ~(d = c /\ Occurs(d, s))
                => AtMostOnce(d, Append(s, c))
<1>1. /\ DOMAIN s = 1 .. Len(s) /\ Len(s) \in Nat
      /\ DOMAIN Append(s, c) = 1 .. Len(s) + 1
      /\ \A i \in 1 .. Len(s) : Append(s, c)[i] = s[i]
      /\ Append(s, c)[Len(s) + 1] = c
  BY AppendProperties, LenProperties
<1>2. Occurs(d, Append(s, c)) <=> (Occurs(d, s) \/ d = c)
  BY <1>1 DEF Occurs
<1>3. AtMostOnce(d, s) /\ ~(d = c /\ Occurs(d, s))
        => AtMostOnce(d, Append(s, c))
  BY <1>1 DEF Occurs, AtMostOnce
<1>q. QED BY <1>2, <1>3

LEMMA TailOccurs ==
    ASSUME NEW s \in Seq(Callers), s # << >>, NEW d
    PROVE  /\ d # Head(s) => (Occurs(d, Tail(s)) <=> Occurs(d, s))
           /\ AtMostOnce(Head(s), s) => ~Occurs(Head(s), Tail(s))
           /\ AtMostOnce(d, s) => AtMostOnce(d, Tail(s))
           /\ Occurs(Head(s), s)
<1>1. /\ DOMAIN s = 1 .. Len(s) /\ Len(s) \in Nat /\ Len(s) > 0
      /\ DOMAIN Tail(s) = 1 .. Len(s) - 1
      /\ \A i \in 1 .. Len(s) - 1 : Tail(s)[i] = s[i + 1]
      /\ Head(s) = s[1]
  BY HeadTailProperties, LenProperties, EmptySeq
<1>2. d # Head(s) => (Occurs(d, Tail(s)) <=> Occurs(d, s))
  <2>1. ASSUME NEW i \in DOMAIN s, s[i] = d, d # Head(s)
        PROVE  Occurs(d, Tail(s))
    <3>1. i - 1 \in 1 .. Len(s) - 1 /\ (i - 1) + 1 = i
      BY <1>1, <2>1
    <3>2. Tail(s)[i - 1] = d
      BY <1>1, <2>1, <3>1
    <3>q. QED BY <1>1, <3>1, <3>2 DEF Occurs
  <2>2. Occurs(d, Tail(s)) => Occurs(d, s)
    BY <1>1 DEF Occurs
  <2>q. QED BY <2>1, <2>2 DEF Occurs
<1>3. AtMostOnce(Head(s), s) => ~Occurs(Head(s), Tail(s))
  BY <1>1 DEF Occurs, AtMostOnce
<1>4. AtMostOnce(d, s) => AtMostOnce(d, Tail(s))
  BY <1>1 DEF AtMostOnce
<1>5. Occurs(Head(s), s)
  BY <1>1 DEF Occurs
<1>q. QED BY <1>2, <1>3, <1>4, <1>5

(* Queueing a transfer: the queues keep their shape, its caller becomes
   queued and nobody else does. *)
LEMMA EnqueueEffect ==
    ASSUME TypeOK, AtOwnPriority, NEW c \in Callers, ~Full(c), Enqueue(c)
    PROVE  /\ queue' \in [Prios -> Seq(Callers)]
           /\ \A p \in Prios : Len(queue'[p]) <= Cap
           /\ AtOwnPriority'
           /\ \A w \in Waiters : IsQueued(w)' <=> (IsQueued(w) \/ w = c)
           /\ \A w \in Waiters :
                 AtMostOnce(w, queue[PrioOf[w]]) /\ ~(w = c /\ IsQueued(w))
                    => AtMostOnce(w, queue'[PrioOf[w]])
<1> DEFINE q == queue[PrioOf[c]]
<1>1. /\ PrioOf[c] \in Prios /\ q \in Seq(Callers) /\ Len(q) < Cap
      /\ \A w \in Waiters : PrioOf[w] \in Prios /\ w \in Callers
  <2>1. Len(q) \in Nat /\ Len(q) <= Cap /\ Len(q) # Cap
    BY TransportAssumption DEF TypeOK, Full
  <2>q. QED BY <2>1, TransportAssumption DEF TypeOK, Callers, Waiters
<1>2. /\ queue'[PrioOf[c]] = Append(q, c)
      /\ \A p \in Prios : p # PrioOf[c] => queue'[p] = queue[p]
      /\ DOMAIN queue' = Prios
  BY <1>1 DEF TypeOK, Enqueue
<1>3. /\ Append(q, c) \in Seq(Callers)
      /\ Len(Append(q, c)) = Len(q) + 1
  BY <1>1, AppendProperties
<1>4. queue' \in [Prios -> Seq(Callers)]
  BY <1>1, <1>3 DEF TypeOK, Enqueue
<1>5. \A p \in Prios : Len(queue'[p]) <= Cap
  <2>1. Len(Append(q, c)) <= Cap
    BY <1>1, <1>3, LenProperties, TransportAssumption
  <2>q. QED BY <1>2, <2>1 DEF TypeOK
<1>6. AtOwnPriority'
  <2>1. \A d : Occurs(d, Append(q, c)) => Occurs(d, q) \/ d = c
    BY <1>1, AppendOccurs
  <2>2. ASSUME NEW p \in Prios, NEW i \in DOMAIN queue'[p]
        PROVE  PrioOf[queue'[p][i]] = p
    <3>1. CASE p # PrioOf[c]
      BY <1>2, <2>2, <3>1 DEF AtOwnPriority
    <3>2. CASE p = PrioOf[c]
      <4>1. Occurs(queue'[p][i], Append(q, c))
        BY <1>2, <2>2, <3>2 DEF Occurs
      <4>2. Occurs(queue'[p][i], q) \/ queue'[p][i] = c
        BY <2>1, <4>1
      <4>q. QED BY <1>1, <3>2, <4>2 DEF Occurs, AtOwnPriority
    <3>q. QED BY <3>1, <3>2
  <2>q. QED BY <2>2 DEF AtOwnPriority
<1>7. ASSUME NEW w \in Waiters
      PROVE  /\ IsQueued(w)' <=> (IsQueued(w) \/ w = c)
             /\ AtMostOnce(w, queue[PrioOf[w]]) /\ ~(w = c /\ IsQueued(w))
                   => AtMostOnce(w, queue'[PrioOf[w]])
  <2>1. CASE PrioOf[w] # PrioOf[c]
    BY <1>1, <1>2, <2>1 DEF IsQueued
  <2>2. CASE PrioOf[w] = PrioOf[c]
    <3>1. /\ Occurs(w, Append(q, c)) <=> (Occurs(w, q) \/ w = c)
          /\ AtMostOnce(w, q) /\ ~(w = c /\ Occurs(w, q))
               => AtMostOnce(w, Append(q, c))
      BY <1>1, AppendOccurs
    <3>2. queue[PrioOf[w]] = q /\ queue'[PrioOf[w]] = Append(q, c)
      BY <1>2, <2>2
    <3>q. QED BY <3>1, <3>2 DEF IsQueued
  <2>q. QED BY <2>1, <2>2
<1>q. QED BY <1>4, <1>5, <1>6, <1>7

(* Taking the oldest transfer of a priority: its caller, if it is a waiter
   with one transfer, is no longer queued, and nothing changes for others. *)
LEMMA DequeueEffect ==
    ASSUME TypeOK, AtOwnPriority, NEW p \in Prios, queue[p] # << >>,
           queue' = [queue EXCEPT ![p] = Tail(@)]
    PROVE  /\ queue' \in [Prios -> Seq(Callers)]
           /\ \A q \in Prios : Len(queue'[q]) <= Cap
           /\ AtOwnPriority'
           /\ Head(queue[p]) \in Callers
           /\ Head(queue[p]) \in Waiters => IsQueued(Head(queue[p]))
           /\ \A w \in Waiters : AtMostOnce(w, queue[PrioOf[w]]) =>
                 /\ AtMostOnce(w, queue'[PrioOf[w]])
                 /\ IsQueued(w)' <=> (IsQueued(w) /\ w # Head(queue[p]))
<1> DEFINE s == queue[p]
<1>1. /\ s \in Seq(Callers) /\ s # << >>
      /\ Len(s) \in Nat /\ Len(s) <= Cap
      /\ \A w \in Waiters : PrioOf[w] \in Prios /\ w \in Callers
  BY TransportAssumption DEF TypeOK, Callers, Waiters
<1>2. /\ Tail(s) \in Seq(Callers) /\ Len(Tail(s)) = Len(s) - 1
      /\ Head(s) \in Callers
      /\ \A i \in 1 .. Len(Tail(s)) : Tail(s)[i] = s[i + 1]
  BY <1>1, HeadTailProperties
<1>3. /\ queue'[p] = Tail(s)
      /\ \A q \in Prios : q # p => queue'[q] = queue[q]
  BY DEF TypeOK
<1>4. PrioOf[Head(s)] = p
  <2>1. 1 \in DOMAIN s /\ Head(s) = s[1]
    BY <1>1, LenProperties, EmptySeq
  <2>q. QED BY <2>1 DEF AtOwnPriority
<1>5. queue' \in [Prios -> Seq(Callers)]
  BY <1>2 DEF TypeOK
<1>6. \A q \in Prios : Len(queue'[q]) <= Cap
  <2>1. Len(Tail(s)) <= Cap
    BY <1>1, <1>2, TransportAssumption
  <2>q. QED BY <1>3, <2>1 DEF TypeOK
<1>7. AtOwnPriority'
  <2>1. ASSUME NEW q \in Prios, NEW i \in DOMAIN queue'[q]
        PROVE  PrioOf[queue'[q][i]] = q
    <3>1. CASE q # p
      BY <1>3, <2>1, <3>1 DEF AtOwnPriority
    <3>2. CASE q = p
      <4>1. i \in 1 .. Len(s) - 1 /\ i + 1 \in DOMAIN s /\ queue'[q][i] = s[i + 1]
        <5>1. DOMAIN Tail(s) = 1 .. Len(s) - 1 /\ DOMAIN s = 1 .. Len(s)
          BY <1>1, <1>2, LenProperties
        <5>2. i \in 1 .. Len(s) - 1 /\ queue'[q][i] = Tail(s)[i]
          BY <1>3, <2>1, <3>2, <5>1
        <5>q. QED BY <1>1, <1>2, <5>1, <5>2
      <4>q. QED BY <3>2, <4>1 DEF AtOwnPriority
    <3>q. QED BY <3>1, <3>2
  <2>q. QED BY <2>1 DEF AtOwnPriority
<1>8. Head(s) \in Waiters => IsQueued(Head(s))
  BY <1>1, <1>4, TailOccurs DEF IsQueued
<1>9. ASSUME NEW w \in Waiters, AtMostOnce(w, queue[PrioOf[w]])
      PROVE  /\ AtMostOnce(w, queue'[PrioOf[w]])
             /\ IsQueued(w)' <=> (IsQueued(w) /\ w # Head(s))
  <2>1. CASE PrioOf[w] # p
    BY <1>1, <1>3, <1>4, <1>9, <2>1 DEF IsQueued
  <2>2. CASE PrioOf[w] = p
    <3>1. AtMostOnce(w, Tail(s))
      BY <1>1, <1>9, <2>2, TailOccurs
    <3>2. CASE w # Head(s)
      BY <1>1, <1>3, <2>2, <3>1, <3>2, TailOccurs DEF IsQueued
    <3>3. CASE w = Head(s)
      BY <1>1, <1>3, <1>9, <2>2, <3>1, <3>3, TailOccurs DEF IsQueued
    <3>q. QED BY <3>2, <3>3
  <2>q. QED BY <2>1, <2>2
<1>q. QED BY <1>2, <1>5, <1>6, <1>7, <1>8, <1>9

-----------------------------------------------------------------------------
(* The inductive invariant. *)

LEMMA InvInit == Init => IInv
<1> SUFFICES ASSUME Init PROVE IInv
  OBVIOUS
<1>1. Cap \in Nat /\ \A c \in Waiters : PrioOf[c] \in Prios
  BY TransportAssumption DEF Waiters, Callers
<1>2. queue \in [Prios -> Seq(Callers)] /\ \A p \in Prios : queue[p] = << >>
  BY DEF Init, Empty
<1>3. TypeOK
  <2>1. \A p \in Prios : Len(queue[p]) <= Cap
    BY <1>1, <1>2, TransportAssumption
  <2>2. result \in [Waiters -> [done : BOOLEAN, rc : Outcomes]]
    BY DEF Init, NoResult, Outcomes
  <2>q. QED BY <1>2, <2>1, <2>2 DEF Init, TypeOK
<1>4. \A c : ~Occurs(c, << >>) /\ AtMostOnce(c, << >>)
  BY DEF Occurs, AtMostOnce
<1>5. \A c \in Waiters : ~IsQueued(c) /\ AtMostOnce(c, queue[PrioOf[c]])
  BY <1>1, <1>2, <1>4 DEF IsQueued
<1>6. AtOwnPriority
  BY <1>2 DEF AtOwnPriority
<1>7. SessionShape
  BY <1>5 DEF Init, SessionShape
<1>8. ResultAccounting
  <2>1. \A c \in Waiters : item # c /\ ~Awaited(c)
    BY TransportAssumption DEF Init, Awaited, NoResult, Waiters, Callers
  <2>q. QED BY <1>5, <2>1 DEF ResultAccounting
<1>9. FreshCell
  BY DEF Init, FreshCell
<1>q. QED BY <1>3, <1>6, <1>7, <1>8, <1>9 DEF IInv

(* A step that touches no queue, keeps the worker's item and leaves every
   cell as awaited as it was keeps the accounting. *)
LEMMA SameQueues ==
    ASSUME IInv, queue' = queue, item' = item,
           \A w \in Waiters : Awaited(w)' <=> Awaited(w)
    PROVE  /\ AtOwnPriority' /\ ResultAccounting'
           /\ \A w \in Waiters : IsQueued(w)' <=> IsQueued(w)
BY DEF IInv, AtOwnPriority, ResultAccounting, IsQueued

(* The steps of a caller. *)
LEMMA CallerStep ==
    ASSUME IInv, NEW c \in Waiters,
           \/ ResetResult(c) \/ SubmitAccepted(c) \/ SubmitRefused(c)
           \/ Collects(c) \/ WaitSleeps(c)
    PROVE  IInv'
<1>0. c \in Callers
  BY DEF Callers, Waiters
<1>1. CASE ResetResult(c)
  <2>1. TypeOK'
    BY <1>1 DEF IInv, TypeOK, ResetResult, NoResult, Outcomes
  <2>2. \A w \in Waiters : Awaited(w)' <=> Awaited(w)
    BY <1>1 DEF IInv, TypeOK, ResetResult, Awaited, NoResult
  <2>3. queue' = queue /\ item' = item
    BY <1>1 DEF ResetResult
  <2>4. /\ AtOwnPriority' /\ ResultAccounting'
        /\ \A w \in Waiters : IsQueued(w)' <=> IsQueued(w)
    BY <2>2, <2>3, SameQueues
  <2>5. SessionShape'
    BY <1>1, <2>4 DEF IInv, TypeOK, SessionShape, ResetResult
  <2>6. FreshCell'
    BY <1>1 DEF IInv, TypeOK, FreshCell, ResetResult, NoResult
  <2>q. QED BY <2>1, <2>4, <2>5, <2>6 DEF IInv
<1>2. CASE SubmitAccepted(c)
  <2>0. /\ TypeOK /\ AtOwnPriority /\ ~Full(c) /\ Enqueue(c)
        /\ ~Awaited(c) /\ ~IsQueued(c) /\ item # c
        /\ AtMostOnce(c, queue[PrioOf[c]])
    BY <1>2 DEF IInv, SubmitAccepted, ResultAccounting, Awaited
  <2>1. /\ queue' \in [Prios -> Seq(Callers)]
        /\ \A p \in Prios : Len(queue'[p]) <= Cap
        /\ AtOwnPriority'
        /\ \A w \in Waiters : IsQueued(w)' <=> (IsQueued(w) \/ w = c)
        /\ \A w \in Waiters :
              AtMostOnce(w, queue[PrioOf[w]]) /\ ~(w = c /\ IsQueued(w))
                 => AtMostOnce(w, queue'[PrioOf[w]])
    BY <1>0, <2>0, EnqueueEffect
  <2>2. TypeOK'
    BY <1>2, <2>1 DEF IInv, TypeOK, SubmitAccepted, SignalWorker
  <2>3. SessionShape'
    <3>1. session = "up" /\ session' = "up" /\ thread # "none" /\ ~stop
      BY <1>2 DEF IInv, SessionShape, SubmitAccepted
    <3>q. QED BY <1>2, <3>1 DEF IInv, TypeOK, SessionShape, SubmitAccepted, SignalWorker
  <2>4. ResultAccounting'
    <3>0. result[c].done = FALSE
      BY <1>2 DEF IInv, FreshCell, SubmitAccepted
    <3>1. Awaited(c)'
      BY <1>2, <3>0 DEF IInv, TypeOK, SubmitAccepted, Awaited
    <3>2. \A w \in Waiters : w # c => (Awaited(w)' <=> Awaited(w))
      BY <1>2 DEF IInv, TypeOK, SubmitAccepted, Awaited
    <3>3. item' = item
      BY <1>2 DEF SubmitAccepted
    <3>q. QED BY <2>0, <2>1, <3>1, <3>2, <3>3 DEF IInv, ResultAccounting
  <2>5. FreshCell'
    BY <1>2 DEF IInv, TypeOK, FreshCell, SubmitAccepted
  <2>q. QED BY <2>1, <2>2, <2>3, <2>4, <2>5 DEF IInv
<1>3. CASE SubmitRefused(c) \/ Collects(c) \/ WaitSleeps(c)
  <2>1. TypeOK'
    BY <1>3 DEF IInv, TypeOK, SubmitRefused, Collects, WaitSleeps
  <2>2. \A w \in Waiters : Awaited(w)' <=> Awaited(w)
    BY <1>3 DEF IInv, TypeOK, SubmitRefused, Collects, WaitSleeps, Awaited
  <2>3. queue' = queue /\ item' = item
    BY <1>3 DEF SubmitRefused, Collects, WaitSleeps
  <2>4. /\ AtOwnPriority' /\ ResultAccounting'
        /\ \A w \in Waiters : IsQueued(w)' <=> IsQueued(w)
    BY <2>2, <2>3, SameQueues
  <2>5. SessionShape'
    BY <1>3, <2>4
       DEF IInv, TypeOK, SessionShape, SubmitRefused, Collects, WaitSleeps
  <2>6. FreshCell'
    BY <1>3 DEF IInv, TypeOK, FreshCell, SubmitRefused, Collects, WaitSleeps
  <2>q. QED BY <2>1, <2>4, <2>5, <2>6 DEF IInv
<1>q. QED BY <1>1, <1>2, <1>3

(* A transfer without a result. *)
LEMMA PostStep ==
    ASSUME IInv, NEW c \in PostCallers, Post(c)
    PROVE  IInv'
<1>0. /\ c \in Callers /\ c \notin Waiters
      /\ TypeOK /\ AtOwnPriority /\ ~Full(c) /\ Enqueue(c)
  BY TransportAssumption DEF Callers, IInv, Post
<1>1. /\ queue' \in [Prios -> Seq(Callers)]
      /\ \A p \in Prios : Len(queue'[p]) <= Cap
      /\ AtOwnPriority'
      /\ \A w \in Waiters : IsQueued(w)' <=> (IsQueued(w) \/ w = c)
      /\ \A w \in Waiters :
            AtMostOnce(w, queue[PrioOf[w]]) /\ ~(w = c /\ IsQueued(w))
               => AtMostOnce(w, queue'[PrioOf[w]])
  BY <1>0, EnqueueEffect
<1>2. \A w \in Waiters : IsQueued(w)' <=> IsQueued(w)
  BY <1>0, <1>1
<1>3. TypeOK'
  BY <1>1 DEF IInv, TypeOK, Post, SignalWorker
<1>4. SessionShape'
  BY <1>2 DEF IInv, TypeOK, SessionShape, Post, SignalWorker
<1>5. ResultAccounting'
  <2>1. \A w \in Waiters : (Awaited(w)' <=> Awaited(w)) /\ item' = item
    BY DEF Post, Awaited
  <2>q. QED BY <1>0, <1>1, <1>2, <2>1 DEF IInv, ResultAccounting
<1>6. FreshCell'
  BY DEF IInv, FreshCell, Post
<1>q. QED BY <1>1, <1>3, <1>4, <1>5, <1>6 DEF IInv

(* Completing a transfer touches the cell of its caller only, and ends the
   wait for it. *)
LEMMA CompleteEffect ==
    ASSUME TypeOK, FreshCell, NEW c \in Callers, NEW outcome \in Outcomes,
           Complete(c, outcome), c \in Waiters => Awaited(c)
    PROVE  /\ caller' \in [Waiters -> {"idle", "ready", "pending", "waiting", "blocked"}]
           /\ result' \in [Waiters -> [done : BOOLEAN, rc : Outcomes]]
           /\ \A w \in Waiters : Awaited(w)' <=> (Awaited(w) /\ w # c)
           /\ \A w \in Waiters : caller'[w] = "ready" <=> caller[w] = "ready"
           /\ FreshCell'
<1>1. CASE c \in Waiters
  <2>1. /\ result' = [result EXCEPT ![c] = [done |-> TRUE, rc |-> outcome]]
        /\ caller' = [caller EXCEPT ![c] = IF @ = "blocked" THEN "waiting" ELSE @]
    BY <1>1 DEF Complete
  <2>2. /\ result'[c].done = TRUE
        /\ \A w \in Waiters : w # c => result'[w] = result[w] /\ caller'[w] = caller[w]
        /\ caller[c] \in {"pending", "waiting", "blocked"}
        /\ caller'[c] = IF caller[c] = "blocked" THEN "waiting" ELSE caller[c]
    BY <1>1, <2>1 DEF TypeOK, Awaited
  <2>3. \A w \in Waiters : caller'[w] = "ready" <=> caller[w] = "ready"
    BY <1>1, <2>2
  <2>4. \A w \in Waiters : Awaited(w)' <=> (Awaited(w) /\ w # c)
    BY <1>1, <2>2 DEF Awaited
  <2>5. FreshCell'
    BY <1>1, <2>2 DEF FreshCell
  <2>q. QED BY <1>1, <2>1, <2>3, <2>4, <2>5 DEF TypeOK
<1>2. CASE c \notin Waiters
  BY <1>2 DEF Complete, TypeOK, FreshCell, Awaited
<1>q. QED BY <1>1, <1>2

(* The steps of the worker. *)
LEMMA WorkerStep ==
    ASSUME IInv, Worker
    PROVE  IInv'
<1>1. CASE WorkerSeesStop \/ WorkerSleeps \/ WorkerExits \/ WorkerSends
  <2>1. TypeOK'
    BY <1>1 DEF IInv, TypeOK, WorkerSeesStop, WorkerSleeps, WorkerExits, WorkerSends
  <2>2. queue' = queue /\ item' = item /\ caller' = caller /\ result' = result
    BY <1>1 DEF WorkerSeesStop, WorkerSleeps, WorkerExits, WorkerSends
  <2>3. \A w \in Waiters : Awaited(w)' <=> Awaited(w)
    BY <2>2 DEF Awaited
  <2>4. /\ AtOwnPriority' /\ ResultAccounting'
        /\ \A w \in Waiters : IsQueued(w)' <=> IsQueued(w)
    BY <2>2, <2>3, SameQueues
  <2>5. SessionShape'
    BY <1>1, <2>4 DEF IInv, TypeOK, SessionShape, WorkerSeesStop, WorkerSleeps,
                      WorkerExits, WorkerSends
  <2>q. QED BY <2>1, <2>2, <2>4, <2>5 DEF IInv, FreshCell
<1>2. CASE WorkerPops
  <2>1. PICK p \in Prios : /\ Urgent(p)
                           /\ item' = Head(queue[p])
                           /\ queue' = [queue EXCEPT ![p] = Tail(@)]
    BY <1>2 DEF WorkerPops
  <2>2. /\ queue' \in [Prios -> Seq(Callers)]
        /\ \A q \in Prios : Len(queue'[q]) <= Cap
        /\ AtOwnPriority'
        /\ item' \in Callers
        /\ item' \in Waiters => IsQueued(item')
        /\ \A w \in Waiters : AtMostOnce(w, queue[PrioOf[w]]) =>
              /\ AtMostOnce(w, queue'[PrioOf[w]])
              /\ IsQueued(w)' <=> (IsQueued(w) /\ w # item')
    <3>1. TypeOK /\ AtOwnPriority /\ queue[p] # << >>
      BY <2>1 DEF IInv, Urgent
    <3>q. QED BY <2>1, <3>1, DequeueEffect
  <2>3. TypeOK'
    BY <1>2, <2>2 DEF IInv, TypeOK, WorkerPops
  <2>4. session # "down" /\ session' = session /\ item = NoCaller /\ item' # NoCaller
    BY <1>2, <2>2, TransportAssumption DEF IInv, SessionShape, WorkerPops
  <2>5. SessionShape'
    BY <1>2, <2>4 DEF IInv, SessionShape, WorkerPops
  <2>6. \A w \in Waiters : (Awaited(w)' <=> Awaited(w)) /\ item # w
    BY <1>2, <2>4, TransportAssumption DEF WorkerPops, Awaited, Callers, Waiters
  <2>7. ResultAccounting'
    BY <2>2, <2>6 DEF IInv, ResultAccounting
  <2>8. FreshCell'
    BY <1>2 DEF IInv, FreshCell, WorkerPops
  <2>q. QED BY <2>2, <2>3, <2>5, <2>7, <2>8 DEF IInv
<1>3. CASE WorkerCompletes
  <2>1. /\ TypeOK /\ FreshCell /\ item \in Callers /\ rc \in Outcomes
        /\ item \in Waiters => Awaited(item)
    BY <1>3 DEF IInv, TypeOK, SessionShape, ResultAccounting, WorkerCompletes, Outcomes
  <2>2. /\ caller' \in [Waiters -> {"idle", "ready", "pending", "waiting", "blocked"}]
        /\ result' \in [Waiters -> [done : BOOLEAN, rc : Outcomes]]
        /\ \A w \in Waiters : Awaited(w)' <=> (Awaited(w) /\ w # item)
        /\ \A w \in Waiters : caller'[w] = "ready" <=> caller[w] = "ready"
        /\ FreshCell'
    BY <1>3, <2>1, CompleteEffect DEF WorkerCompletes
  <2>3. TypeOK'
    BY <1>3, <2>2 DEF IInv, TypeOK, WorkerCompletes
  <2>4. /\ queue' = queue /\ session' = session /\ stop' = stop
        /\ item' = NoCaller /\ thread' = "check" /\ thread = "complete"
    BY <1>3 DEF WorkerCompletes
  <2>5. AtOwnPriority' /\ \A w \in Waiters : IsQueued(w)' <=> IsQueued(w)
    BY <2>4 DEF IInv, AtOwnPriority, IsQueued
  <2>6. SessionShape'
    BY <2>2, <2>4, <2>5 DEF IInv, SessionShape
  <2>7. ResultAccounting'
    <3>1. \A w \in Waiters : w # NoCaller
      BY TransportAssumption DEF Callers, Waiters
    <3>q. QED BY <2>2, <2>4, <2>5, <3>1 DEF IInv, ResultAccounting
  <2>q. QED BY <2>2, <2>3, <2>5, <2>6, <2>7 DEF IInv
<1>4. CASE WorkerDrains
  <2>1. PICK p \in Prios : /\ Urgent(p)
                           /\ Complete(Head(queue[p]), "interrupted")
                           /\ queue' = [queue EXCEPT ![p] = Tail(@)]
    BY <1>4 DEF WorkerDrains
  <2> DEFINE h == Head(queue[p])
  <2>2. /\ queue' \in [Prios -> Seq(Callers)]
        /\ \A q \in Prios : Len(queue'[q]) <= Cap
        /\ AtOwnPriority'
        /\ h \in Callers
        /\ h \in Waiters => IsQueued(h)
        /\ \A w \in Waiters : AtMostOnce(w, queue[PrioOf[w]]) =>
              /\ AtMostOnce(w, queue'[PrioOf[w]])
              /\ IsQueued(w)' <=> (IsQueued(w) /\ w # h)
    <3>1. TypeOK /\ AtOwnPriority /\ queue[p] # << >>
      BY <2>1 DEF IInv, Urgent
    <3>q. QED BY <2>1, <3>1, DequeueEffect
  <2>3. h \in Waiters => Awaited(h)
    BY <2>2 DEF IInv, ResultAccounting
  <2>4. /\ caller' \in [Waiters -> {"idle", "ready", "pending", "waiting", "blocked"}]
        /\ result' \in [Waiters -> [done : BOOLEAN, rc : Outcomes]]
        /\ \A w \in Waiters : Awaited(w)' <=> (Awaited(w) /\ w # h)
        /\ \A w \in Waiters : caller'[w] = "ready" <=> caller[w] = "ready"
        /\ FreshCell'
    <3>1. "interrupted" \in Outcomes /\ TypeOK /\ FreshCell
      BY DEF Outcomes, IInv
    <3>q. QED BY <2>1, <2>2, <2>3, <3>1, CompleteEffect
  <2>5. /\ session' = session /\ stop' = stop /\ item' = item
        /\ thread' = thread /\ thread = "drain" /\ rc' = rc
    BY <1>4 DEF WorkerDrains
  <2>6. TypeOK'
    BY <2>2, <2>4, <2>5 DEF IInv, TypeOK
  <2>7. session # "down" /\ item = NoCaller
    BY <2>5 DEF IInv, SessionShape
  <2>8. SessionShape'
    BY <2>4, <2>5, <2>7 DEF IInv, SessionShape
  <2>9. ResultAccounting'
    <3>1. \A w \in Waiters : w # NoCaller
      BY TransportAssumption DEF Callers, Waiters
    <3>q. QED BY <2>2, <2>4, <2>5, <2>7, <3>1 DEF IInv, ResultAccounting
  <2>q. QED BY <2>2, <2>4, <2>6, <2>8, <2>9 DEF IInv
<1>q. QED BY <1>1, <1>2, <1>3, <1>4 DEF Worker

(* The steps of the main thread, and wakeups nobody sent. *)
LEMMA SessionStep ==
    ASSUME IInv, Start \/ StopBegins \/ StopJoins \/ SpuriousWakeup
    PROVE  IInv'
<1>1. CASE Start \/ StopJoins
  <2>1. /\ caller' = caller /\ result' = result /\ item' = item /\ rc' = rc
        /\ queue' = Empty /\ stop' = FALSE
        /\ item = NoCaller
        /\ session # "joining" \/ thread = "exited"
    BY <1>1 DEF IInv, SessionShape, Start, StopJoins, Zeroed
  <2>2. \A w \in Waiters : ~IsQueued(w)
    <3>1. CASE Start
      BY <3>1 DEF IInv, SessionShape, Start
    <3>2. CASE StopJoins
      <4>1. queue = Empty
        BY <3>2 DEF IInv, SessionShape, StopJoins
      <4>q. QED BY <4>1, TransportAssumption DEF Empty, IsQueued, Occurs, Waiters, Callers
    <3>q. QED BY <1>1, <3>1, <3>2
  <2>3. /\ queue' \in [Prios -> Seq(Callers)]
        /\ \A p \in Prios : queue'[p] = << >> /\ Len(queue'[p]) <= Cap
    BY <2>1, EmptySeq, TransportAssumption DEF Empty
  <2>4. TypeOK'
    BY <1>1, <2>1, <2>3 DEF IInv, TypeOK, Start, StopJoins
  <2>5. \A w \in Waiters : ~IsQueued(w)' /\ AtMostOnce(w, queue'[PrioOf[w]])
    BY <2>3, TransportAssumption DEF IsQueued, Occurs, AtMostOnce, Waiters, Callers
  <2>6. AtOwnPriority'
    BY <2>3 DEF AtOwnPriority
  <2>7. ResultAccounting'
    <3>1. \A w \in Waiters : Awaited(w)' <=> Awaited(w)
      BY <2>1 DEF Awaited
    <3>q. QED BY <2>1, <2>2, <2>5, <3>1 DEF IInv, ResultAccounting
  <2>8. SessionShape'
    <3>1. \A c \in Waiters : caller[c] = "ready" => session = "up"
      BY DEF IInv, SessionShape
    <3>2. \A c \in Waiters : caller'[c] # "ready"
      BY <1>1, <2>1, <3>1 DEF Start, StopJoins
    <3>q. QED BY <1>1, <2>1, <2>5, <3>2 DEF IInv, SessionShape, Start, StopJoins
  <2>9. FreshCell'
    BY <2>1 DEF IInv, FreshCell
  <2>q. QED BY <2>4, <2>6, <2>7, <2>8, <2>9 DEF IInv
<1>2. CASE StopBegins
  <2>1. \A w \in Waiters : Awaited(w)' <=> Awaited(w)
    BY <1>2 DEF StopBegins, Awaited
  <2>2. queue' = queue /\ item' = item
    BY <1>2 DEF StopBegins
  <2>3. /\ AtOwnPriority' /\ ResultAccounting'
        /\ \A w \in Waiters : IsQueued(w)' <=> IsQueued(w)
    BY <2>1, <2>2, SameQueues
  <2>4. TypeOK'
    BY <1>2 DEF IInv, TypeOK, StopBegins
  <2>5. SessionShape'
    <3>1. \A c \in Waiters : caller'[c] # "ready"
      BY <1>2 DEF StopBegins, Waiters
    <3>q. QED BY <1>2, <3>1 DEF IInv, TypeOK, SessionShape, StopBegins
  <2>6. FreshCell'
    BY <1>2 DEF IInv, FreshCell, StopBegins
  <2>q. QED BY <2>3, <2>4, <2>5, <2>6 DEF IInv
<1>3. CASE SpuriousWakeup
  <2>1. TypeOK' /\ FreshCell' /\ queue' = queue /\ item' = item
    BY <1>3 DEF IInv, TypeOK, FreshCell, SpuriousWakeup
  <2>2. \A w \in Waiters : Awaited(w)' <=> Awaited(w)
    BY <1>3 DEF IInv, TypeOK, SpuriousWakeup, Awaited
  <2>3. /\ AtOwnPriority' /\ ResultAccounting'
        /\ \A w \in Waiters : IsQueued(w)' <=> IsQueued(w)
    BY <2>1, <2>2, SameQueues
  <2>4. SessionShape'
    BY <1>3, <2>3 DEF IInv, TypeOK, SessionShape, SpuriousWakeup
  <2>q. QED BY <2>1, <2>3, <2>4 DEF IInv
<1>q. QED BY <1>1, <1>2, <1>3

LEMMA InvInductive == IInv /\ [Next]_vars => IInv'
<1> SUFFICES ASSUME IInv, [Next]_vars PROVE IInv'
  OBVIOUS
<1>1. CASE UNCHANGED vars
  BY <1>1 DEF vars, IInv, TypeOK, AtOwnPriority, SessionShape, FreshCell,
              ResultAccounting, Awaited, IsQueued
<1>2. CASE Next
  BY <1>2, CallerStep, PostStep, WorkerStep, SessionStep DEF Next
<1>q. QED BY <1>1, <1>2

(* Type correctness, for every set of callers and every capacity. *)
THEOREM TransportTypeOK == Spec => []TypeOK
<1>1. IInv => TypeOK
  BY DEF IInv
<1>q. QED BY InvInit, InvInductive, <1>1, PTL DEF Spec

(* For every set of callers, every priority assignment and every capacity, a
   result cell that is waited for has exactly one transfer in the transport,
   and every other cell has none: no waiter can be forgotten by a stop, and
   no completion can reach a cell its owner has taken back. *)
THEOREM TransportResultAccounting == Spec => []ResultAccounting
<1>1. IInv => ResultAccounting
  BY DEF IInv
<1>q. QED BY InvInit, InvInductive, <1>1, PTL DEF Spec

-----------------------------------------------------------------------------
(* Refinement: the transport implements TxService. *)

(* A step changes the phase of at most one caller, from what it is to what
   the cell and the caller's position say afterwards. *)
LEMMA PhaseChange ==
    ASSUME TypeOK, NEW c \in Waiters, NEW outcome,
           \A w \in Waiters : w # c => caller'[w] = caller[w] /\ result'[w] = result[w],
           Phase(c)' = outcome
    PROVE  Phases' = [Phases EXCEPT ![c] = outcome]
<1>1. \A w \in Waiters : w # c => Phase(w)' = Phase(w)
  BY DEF Phase
<1>q. QED BY <1>1 DEF Phases

(* Sleeping, waking and resetting a cell are invisible to the service. *)
LEMMA SamePhases ==
    ASSUME \A w \in Waiters : Phase(w)' = Phase(w)
    PROVE  Phases' = Phases
BY DEF Phases

LEMMA CallerRefines ==
    ASSUME IInv, NEW c \in Waiters,
           \/ ResetResult(c) \/ SubmitAccepted(c) \/ SubmitRefused(c)
           \/ Collects(c) \/ WaitSleeps(c)
    PROVE  [Service!Next]_(Service!vars)
<1>0. OnWire' = OnWire
  BY DEF OnWire, ResetResult, SubmitAccepted, SubmitRefused, Collects, WaitSleeps
<1>1. CASE ResetResult(c) \/ SubmitRefused(c) \/ WaitSleeps(c)
  <2>1. \A w \in Waiters : Phase(w)' = Phase(w)
    BY <1>1 DEF IInv, TypeOK, FreshCell, Phase, ResetResult, SubmitRefused, WaitSleeps
  <2>q. QED BY <1>0, <2>1, SamePhases DEF Service!vars
<1>2. CASE SubmitAccepted(c)
  <2>1. Phase(c) = "idle" /\ Phase(c)' = "pending"
    BY <1>2 DEF IInv, TypeOK, FreshCell, Phase, SubmitAccepted
  <2>2. \A w \in Waiters : w # c => caller'[w] = caller[w] /\ result'[w] = result[w]
    BY <1>2 DEF IInv, TypeOK, SubmitAccepted
  <2>3. Phases' = [Phases EXCEPT ![c] = "pending"]
    BY <2>1, <2>2, PhaseChange DEF IInv
  <2>4. Service!Accept(c)
    BY <1>0, <2>1, <2>3 DEF Service!Accept, Phases
  <2>q. QED BY <2>4 DEF Service!Next
<1>3. CASE Collects(c)
  <2>1. Phase(c) \in {"ok", "failed", "interrupted"} /\ Phase(c)' = "idle"
    BY <1>3 DEF IInv, TypeOK, Outcomes, Phase, Collects
  <2>2. \A w \in Waiters : w # c => caller'[w] = caller[w] /\ result'[w] = result[w]
    BY <1>3 DEF IInv, TypeOK, Collects
  <2>3. Phases' = [Phases EXCEPT ![c] = "idle"]
    BY <2>1, <2>2, PhaseChange DEF IInv
  <2>4. Service!Collect(c)
    BY <1>0, <2>1, <2>3 DEF Service!Collect, Phases
  <2>q. QED BY <2>4 DEF Service!Next
<1>q. QED BY <1>1, <1>2, <1>3

(* Completing the cell of an awaited transfer moves its caller from pending
   to the outcome. *)
LEMMA CompletePhase ==
    ASSUME TypeOK, NEW c \in Waiters, NEW outcome \in Outcomes,
           Complete(c, outcome), Awaited(c)
    PROVE  /\ Phase(c) = "pending"
           /\ Phases' = [Phases EXCEPT ![c] = outcome]
<1>1. /\ result' = [result EXCEPT ![c] = [done |-> TRUE, rc |-> outcome]]
      /\ caller' = [caller EXCEPT ![c] = IF @ = "blocked" THEN "waiting" ELSE @]
  BY DEF Complete
<1>2. /\ result'[c] = [done |-> TRUE, rc |-> outcome]
      /\ caller'[c] \in {"pending", "waiting"}
      /\ \A w \in Waiters : w # c => caller'[w] = caller[w] /\ result'[w] = result[w]
  BY <1>1 DEF TypeOK, Awaited
<1>3. Phase(c) = "pending" /\ Phase(c)' = outcome
  BY <1>2 DEF Phase, Awaited
<1>q. QED BY <1>2, <1>3, PhaseChange

LEMMA WorkerRefines ==
    ASSUME IInv, Worker
    PROVE  [Service!Next]_(Service!vars)
<1>0. \A w \in Waiters : w # NoCaller /\ w \in Callers
  BY TransportAssumption DEF Callers, Waiters
<1>1. CASE WorkerSeesStop \/ WorkerSleeps \/ WorkerExits \/ WorkerSends
  <2>1. OnWire' = OnWire /\ \A w \in Waiters : Phase(w)' = Phase(w)
    BY <1>1 DEF OnWire, Phase, WorkerSeesStop, WorkerSleeps, WorkerExits, WorkerSends
  <2>q. QED BY <2>1, SamePhases DEF Service!vars
<1>2. CASE WorkerPops
  <2>1. PICK p \in Prios : /\ Urgent(p)
                           /\ item' = Head(queue[p])
                           /\ queue' = [queue EXCEPT ![p] = Tail(@)]
    BY <1>2 DEF WorkerPops
  <2>2. item' \in Waiters => IsQueued(item')
    <3>1. TypeOK /\ AtOwnPriority /\ queue[p] # << >>
      BY <2>1 DEF IInv, Urgent
    <3>q. QED BY <2>1, <3>1, DequeueEffect
  <2>3. \A w \in Waiters : Phase(w)' = Phase(w)
    BY <1>2 DEF Phase, WorkerPops
  <2>4. Phases' = Phases /\ OnWire = NoCaller
    BY <1>0, <1>2, <2>3, SamePhases DEF IInv, SessionShape, WorkerPops, OnWire
  <2>5. CASE item' \in Waiters
    <3>1. Phases[item'] = "pending"
      BY <2>2, <2>5 DEF IInv, ResultAccounting, Awaited, Phase, Phases
    <3>2. Service!Begin(item')
      BY <2>4, <2>5, <3>1 DEF Service!Begin, OnWire
    <3>q. QED BY <2>5, <3>2 DEF Service!Next
  <2>6. CASE item' \notin Waiters
    BY <2>4, <2>6 DEF Service!vars, OnWire
  <2>q. QED BY <2>5, <2>6
<1>3. CASE WorkerCompletes
  <2>1. /\ TypeOK /\ item \in Callers /\ rc \in {"ok", "failed"}
        /\ Complete(item, rc) /\ item' = NoCaller
        /\ item \in Waiters => Awaited(item)
    BY <1>3 DEF IInv, TypeOK, SessionShape, ResultAccounting, WorkerCompletes
  <2>2. CASE item \in Waiters
    <3>1. Phase(item) = "pending" /\ Phases' = [Phases EXCEPT ![item] = rc]
      BY <2>1, <2>2, CompletePhase DEF Outcomes
    <3>2. OnWire = item /\ OnWire' = NoCaller
      BY <1>0, <2>1, <2>2 DEF OnWire
    <3>3. Service!Finish(item, rc)
      BY <2>2, <3>1, <3>2 DEF Service!Finish, Phases
    <3>q. QED BY <2>1, <2>2, <3>3 DEF Service!Next
  <2>3. CASE item \notin Waiters
    <3>1. caller' = caller /\ result' = result
      BY <2>1, <2>3 DEF Complete
    <3>2. Phases' = Phases
      BY <3>1 DEF Phases, Phase
    <3>q. QED BY <1>0, <2>1, <2>3, <3>2 DEF OnWire, Service!vars
  <2>q. QED BY <2>2, <2>3
<1>4. CASE WorkerDrains
  <2>1. PICK p \in Prios : /\ Urgent(p)
                           /\ Complete(Head(queue[p]), "interrupted")
                           /\ queue' = [queue EXCEPT ![p] = Tail(@)]
    BY <1>4 DEF WorkerDrains
  <2> DEFINE h == Head(queue[p])
  <2>2. h \in Waiters => Awaited(h)
    <3>1. TypeOK /\ AtOwnPriority /\ queue[p] # << >>
      BY <2>1 DEF IInv, Urgent
    <3>2. h \in Waiters => IsQueued(h)
      BY <2>1, <3>1, DequeueEffect
    <3>q. QED BY <3>2 DEF IInv, ResultAccounting
  <2>3. item = NoCaller /\ item' = item
    BY <1>4 DEF IInv, SessionShape, WorkerDrains
  <2>4. OnWire = NoCaller /\ OnWire' = NoCaller
    BY <1>0, <2>3 DEF OnWire
  <2>5. CASE h \in Waiters
    <3>1. Phase(h) = "pending" /\ Phases' = [Phases EXCEPT ![h] = "interrupted"]
      BY <2>1, <2>2, <2>5, CompletePhase DEF IInv, Outcomes
    <3>2. Service!Interrupt(h)
      BY <1>0, <2>4, <2>5, <3>1 DEF Service!Interrupt, Phases
    <3>q. QED BY <2>5, <3>2 DEF Service!Next
  <2>6. CASE h \notin Waiters
    <3>1. caller' = caller /\ result' = result
      BY <2>1, <2>6 DEF Complete
    <3>2. Phases' = Phases
      BY <3>1 DEF Phases, Phase
    <3>q. QED BY <2>4, <3>2 DEF Service!vars
  <2>q. QED BY <2>5, <2>6
<1>q. QED BY <1>1, <1>2, <1>3, <1>4 DEF Worker

LEMMA OtherRefines ==
    ASSUME IInv,
           \/ \E c \in PostCallers : Post(c)
           \/ Start \/ StopBegins \/ StopJoins \/ SpuriousWakeup
           \/ UNCHANGED vars
    PROVE  [Service!Next]_(Service!vars)
<1>1. OnWire' = OnWire
  BY DEF OnWire, Post, Start, StopBegins, StopJoins, SpuriousWakeup, vars
<1>2. result' = result
  BY DEF Post, Start, StopBegins, StopJoins, SpuriousWakeup, vars
<1>3. \A w \in Waiters :
         caller'[w] = caller[w] \/ (caller[w] = "blocked" /\ caller'[w] = "waiting")
  BY DEF IInv, TypeOK, Post, Start, StopBegins, StopJoins, SpuriousWakeup, vars
<1>4. \A w \in Waiters : Phase(w)' = Phase(w)
  BY <1>2, <1>3 DEF Phase
<1>q. QED BY <1>1, <1>4, SamePhases DEF Service!vars

(* For every set of callers, every priority assignment and every capacity the
   transport implements TxService: every accepted transfer ends exactly once,
   with the outcome of its own time on the wire, or interrupted by a stop
   without having been sent. *)
THEOREM TransportIsTxService == Spec => IsTxService
<1>1. Init => Service!Init
  <2> SUFFICES ASSUME Init PROVE Service!Init
    OBVIOUS
  <2>1. \A w \in Waiters : Phase(w) = "idle"
    BY DEF Init, Phase
  <2>2. OnWire = NoCaller
    BY DEF Init, OnWire
  <2>q. QED BY <2>1, <2>2 DEF Service!Init, Phases
<1>2. IInv /\ [Next]_vars => [Service!Next]_(Service!vars)
  <2> SUFFICES ASSUME IInv, [Next]_vars PROVE [Service!Next]_(Service!vars)
    OBVIOUS
  <2>1. CASE \E c \in Waiters :
              \/ ResetResult(c) \/ SubmitAccepted(c) \/ SubmitRefused(c)
              \/ Collects(c) \/ WaitSleeps(c)
    BY <2>1, CallerRefines
  <2>2. CASE Worker
    BY <2>2, WorkerRefines
  <2>3. CASE \/ \E c \in PostCallers : Post(c)
             \/ Start \/ StopBegins \/ StopJoins \/ SpuriousWakeup
             \/ UNCHANGED vars
    BY <2>3, OtherRefines
  <2>q. QED BY <2>1, <2>2, <2>3 DEF Next
<1>q. QED BY InvInit, InvInductive, <1>1, <1>2, PTL DEF Spec, Service!Spec, IsTxService
=============================================================================
