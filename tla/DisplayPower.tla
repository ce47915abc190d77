---------------------------- MODULE DisplayPower ----------------------------
(* The power of the adapter's outputs (evdi_source.c): it is on while any
   stream is.  A change of a stream's DPMS mode, on the thread of that stream,
   and a new session, on the main thread, both run update_device_power: read
   every stream's mode, exchange the record, submit a packet if the record
   changed.  Nothing holds the three together, so two updates can overlap. *)
EXTENDS Integers, Sequences, FiniteSets, FiniteSetsExt

CONSTANTS Streams, Main,            \* 0..n-1; the main thread
          QueueCap,                 \* SMID_TX_QUEUE_CAP
          MaxChanges, MaxRecoveries, MaxFaults  \* bounds

ASSUME DisplayPowerAssumption ==
    /\ Streams # {} /\ IsFiniteSet(Streams) /\ Streams \subseteq Nat
    /\ Main \notin Streams /\ QueueCap \in Nat \ {0}
    /\ MaxChanges \in Nat /\ MaxRecoveries \in Nat /\ MaxFaults \in Nat

VARIABLES
    dpms_on,            \* per stream
    device_power_on,    \* what the driver has recorded for the adapter
    usb, session,       \* the source's pointer; the transport takes items
    queue,              \* the control queue: power packets
    dev,                \* what the adapter does
    proc,               \* per thread, where it is in update_device_power
    spoiled,            \* history: the record or the adapter may be wrong
    changes, recoveries, faults

power  == <<dpms_on, device_power_on>>
link   == <<usb, session, queue, dev>>
bounds == <<changes, recoveries, faults>>
powerVars == <<power, link, proc, spoiled, bounds>>

Threads == Streams \cup {Main}
Idle    == [at |-> "idle", k |-> 0, any |-> FALSE]
Scan    == [at |-> "scan", k |-> Min(Streams), any |-> FALSE]
AnyOn   == \E s \in Streams : dpms_on[s]
Updating(t) == proc[t].at \in {"scan", "exchange", "submit", "send"}

PowerInit ==
    /\ dpms_on = [s \in Streams |-> TRUE] /\ device_power_on = TRUE
    /\ usb = TRUE /\ session = "up" /\ queue = << >> /\ dev = TRUE
    /\ proc = [t \in Threads |-> Idle]
    /\ spoiled = FALSE
    /\ changes = 0 /\ recoveries = 0 /\ faults = 0

(* Two updates at once, or a mode that changes under an update, spoil it. *)
Disturbs == spoiled' = (spoiled \/ \E t \in Threads : Updating(t))

(* evdi_dpms_handler, as far as the power goes *)
Dpms(s, on) ==
    /\ proc[s].at = "idle" /\ changes < MaxChanges /\ changes' = changes + 1
    /\ dpms_on' = [dpms_on EXCEPT ![s] = on]
    /\ IF dpms_on[s] = on THEN UNCHANGED <<proc, spoiled>>
       ELSE proc' = [proc EXCEPT ![s] = Scan] /\ Disturbs
    /\ UNCHANGED <<device_power_on, link, recoveries, faults>>

Later(s) == {r \in Streams : r > s}

ScanOne(t) ==
    LET p == proc[t]  any == p.any \/ dpms_on[p.k] IN
    /\ p.at = "scan"
    /\ proc' = [proc EXCEPT ![t] =
                  IF any \/ Later(p.k) = {} THEN [p EXCEPT !.at = "exchange", !.any = any]
                  ELSE [p EXCEPT !.k = Min(Later(p.k))]]
    /\ UNCHANGED <<power, link, spoiled, bounds>>

OnwardIfChanged(t) ==
    /\ proc[t].at = "exchange"
    /\ proc' = [proc EXCEPT ![t] = IF device_power_on = proc[t].any THEN Idle
                                   ELSE [@ EXCEPT !.at = "submit"]]
    /\ UNCHANGED <<dpms_on, link, spoiled, bounds>>

Exchange(t) == OnwardIfChanged(t) /\ device_power_on' = proc[t].any

(* submit_device_power: without a pointer there is nothing to do. *)
TakePointer(t) ==
    /\ proc[t].at = "submit"
    /\ proc' = [proc EXCEPT ![t] = IF usb THEN [@ EXCEPT !.at = "send"] ELSE Idle]
    /\ UNCHANGED <<power, link, spoiled, bounds>>

SendOr(t, refused) ==
    /\ proc[t].at = "send" /\ proc' = [proc EXCEPT ![t] = Idle]
    /\ queue' = IF refused THEN queue ELSE Append(queue, proc[t].any)
    /\ spoiled' = (spoiled \/ refused)
    /\ UNCHANGED <<power, usb, session, dev, bounds>>

(* The pointer may be that of a session that has been stopped meanwhile, or
   replaced.  A refusal is logged; the record stays. *)
Send(t) == SendOr(t, session # "up" \/ Len(queue) = QueueCap)

Update == \E t \in Threads : ScanOne(t) \/ Exchange(t) \/ TakePointer(t) \/ Send(t)

(* The transport's worker. *)
Transfer ==
    /\ queue # << >> /\ queue' = Tail(queue)
    /\ \/ dev' = Head(queue) /\ UNCHANGED <<spoiled, faults>>
       \/ /\ faults < MaxFaults /\ faults' = faults + 1
          /\ spoiled' = TRUE /\ UNCHANGED dev
    /\ UNCHANGED <<power, usb, session, proc, changes, recoveries>>

(* smid_evdi_source_set_usb(NULL), the old session's end and the new one, whose
   outputs are on; in between the queue is lost. *)
Detach ==
    /\ session = "up" /\ usb /\ proc[Main].at = "idle"
    /\ recoveries < MaxRecoveries /\ recoveries' = recoveries + 1
    /\ usb' = FALSE
    /\ UNCHANGED <<power, session, queue, dev, proc, spoiled,
                   changes, faults>>

SessionStops ==
    /\ ~usb /\ session = "up" /\ proc[Main].at = "idle"
    /\ session' = "stopped" /\ queue' = << >>
    /\ UNCHANGED <<power, usb, dev, proc, spoiled, bounds>>

SessionStarts ==
    /\ session = "stopped" /\ session' = "up" /\ dev' = TRUE
    /\ proc' = [proc EXCEPT ![Main].at = "attach"]
    /\ UNCHANGED <<power, usb, queue, spoiled, bounds>>

(* smid_evdi_source_set_usb: the pointer, then the record, then the update.
   What went wrong before is made good, unless an update is under way. *)
Attach ==
    /\ proc[Main].at = "attach" /\ usb' = TRUE
    /\ proc' = [proc EXCEPT ![Main].at = "record"]
    /\ UNCHANGED <<power, session, queue, dev, spoiled, bounds>>

Fresh == /\ queue = << >> /\ dev /\ ~ \E t \in Streams : Updating(t)

Rescan == /\ proc[Main].at = "record" /\ proc' = [proc EXCEPT ![Main] = Scan]
          /\ spoiled' = ~Fresh
          /\ UNCHANGED <<dpms_on, link, bounds>>

(* Mutant: the record of the old session is kept. *)
RecordKept == Rescan /\ UNCHANGED device_power_on

Record == Rescan /\ device_power_on' = TRUE

Recovery == SessionStops \/ SessionStarts \/ Attach \/ Record

PowerNext == \/ \E s \in Streams, on \in BOOLEAN : Dpms(s, on)
             \/ Update \/ Transfer \/ Detach \/ Recovery

(* Threads run, transfers end, a recovery goes on; nothing need fail. *)
PowerFairness ==
    /\ \A t \in Threads : WF_powerVars(ScanOne(t) \/ Exchange(t) \/ TakePointer(t) \/ Send(t))
    /\ WF_powerVars(Transfer) /\ WF_powerVars(Recovery)

PowerSpec == PowerInit /\ [][PowerNext]_powerVars /\ PowerFairness

-----------------------------------------------------------------------------
PowerTypeOK ==
    /\ dpms_on \in [Streams -> BOOLEAN] /\ device_power_on \in BOOLEAN
    /\ usb \in BOOLEAN /\ session \in {"up", "stopped"} /\ dev \in BOOLEAN
    /\ queue \in Seq(BOOLEAN) /\ Len(queue) <= QueueCap
    /\ proc \in [Threads -> [at : {"idle", "scan", "exchange", "submit", "send",
                                    "attach", "record"},
                              k : Streams, any : BOOLEAN]]

(* What the adapter does when the queue is empty. *)
ToBe == IF queue = << >> THEN dev ELSE queue[Len(queue)]

Quiet == usb /\ \A t \in Threads : proc[t].at = "idle"

(* Updates that do not overlap and are not refused leave the record, and the
   adapter, on exactly when a stream is on (evdi_source.c:185-196) - also
   across a recovery, in which the adapter comes back on and whatever was lost
   is made good. *)
PowerInStep ==
    Quiet /\ ~spoiled => device_power_on = AnyOn /\ ToBe = AnyOn

(* The adapter gets there: after the last change it ends up on exactly when a
   stream is, or an update was spoiled - by another one under way at the same
   time (evdi_source.c:187-192), by a refusal or by a failed transfer. *)
PowerSettles == <>[](spoiled \/ dev = AnyOn)

PowerFollows == [](PowerTypeOK /\ PowerInStep) /\ PowerSettles
=============================================================================
